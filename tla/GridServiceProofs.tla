------------------------- MODULE GridServiceProofs -------------------------
(***************************************************************************)
(* The grid implements ChatService: every step of a goroutine, a loop or a *)
(* connection is a step of the service for at most one request, or for all *)
(* of them when the orchestrator stops, or changes nothing that it shows.  *)
(* Buffers with room for the answers lose none of them.                    *)
(***************************************************************************)
EXTENDS GridStreamProofs, FiniteSetTheorems

LEMMA ServiceInits == Init => Service!ServiceInit
BY DEF Init, WireInit, ServerInit, SessionInit, Service!ServiceInit, ClientSees, RunOf

\* A step that shows nothing.
LEMMA Unseen ==
  ASSUME UNCHANGED <<sent, got>>,
         \A r \in Reqs : ClientSees(r)' = ClientSees(r),
         \A r \in Reqs : RunOf(r)' = RunOf(r),
         \A r \in Reqs : <<r, "chunk">> \in dropped' <=> <<r, "chunk">> \in dropped
  PROVE  UNCHANGED Service!serviceVars
<1>1. [r \in Reqs |-> ClientSees(r)]' = [r \in Reqs |-> ClientSees(r)]
  OBVIOUS
<1>2. [r \in Reqs |-> RunOf(r)]' = [r \in Reqs |-> RunOf(r)]
  OBVIOUS
<1>3. {r \in Reqs : <<r, "chunk">> \in dropped}' = {r \in Reqs : <<r, "chunk">> \in dropped}
  OBVIOUS
<1> QED
  BY <1>1, <1>2, <1>3 DEF Service!serviceVars

\* A step of handlers that ends the waiting or the reading of some clients.
LEMMA GivesUp ==
  ASSUME UNCHANGED <<sent, got, task, dropped>>, NEW S \in SUBSET Reqs,
         \A r \in Reqs \ S : ClientSees(r)' = ClientSees(r),
         \A r \in S : \/ ClientSees(r) = "waits" /\ ClientSees(r)' = "refused"
                      \/ ClientSees(r) = "reads" /\ ClientSees(r)' = "short"
  PROVE  Service!GiveUp(S)
<1>1. \A r \in Reqs : RunOf(r)' = RunOf(r)
  BY DEF RunOf
<1>2. [r \in Reqs |-> RunOf(r)]' = [r \in Reqs |-> RunOf(r)]
  BY <1>1
<1> DEFINE V == [r \in Reqs |-> ClientSees(r)]
<1>3. \A r \in Reqs : V[r] = ClientSees(r) /\ V'[r] = ClientSees(r)'
  OBVIOUS
<1>4. V' = [r \in Reqs |-> IF r \notin S THEN V[r]
                           ELSE IF V[r] = "waits" THEN "refused" ELSE "short"]
  OBVIOUS
<1>5. \A r \in S : V[r] \in {"waits", "reads"}
  BY <1>3
<1> QED
  BY <1>2, <1>4, <1>5 DEF Service!GiveUp

\* A step of the handler of q that neither reads nor ends.
LEMMA HandlerWaits ==
  ASSUME StreamInv, NEW q \in Reqs, UNCHANGED sessionVars,
         \/ ListCandidates(q) \/ PickWorker(q) \/ RegisterPending(q) \/ ClientGone(q)
  PROVE  UNCHANGED Service!serviceVars
<1>0. h \in [Reqs -> HandlerState]
  BY DEF StreamInv, Ground, RouteInv, Typed, TypeOK, ServerTypeOK
<1>1. UNCHANGED <<sent, got, task, dropped>>
  BY DEF ListCandidates, PickWorker, RegisterPending, ClientGone, wireVars, sessionVars,
     taskVars
<1>2. \A r \in Reqs : ClientSees(r)' = ClientSees(r)
  <2> TAKE r \in Reqs
  <2>1. CASE h'[r] = h[r]
    BY <2>1 DEF ClientSees
  <2>2. CASE /\ h[r] \in {"idle", "listed", "picked"}
             /\ h'[r] \in {"listed", "picked", "pended"}
    BY <2>2 DEF ClientSees
  <2>3. CASE h[r] = "streaming" /\ h'[r] = "leaving"
    BY <2>3 DEF ClientSees
  <2> QED
    BY <1>0, <2>1, <2>2, <2>3 DEF ListCandidates, PickWorker, RegisterPending, ClientGone
<1>3. \A r \in Reqs : RunOf(r)' = RunOf(r)
  BY <1>1 DEF RunOf
<1> QED
  BY <1>1, <1>2, <1>3, Unseen

\* A refusal, a failure, or the end of a stream with an error.
LEMMA HandlerGivesUp ==
  ASSUME StreamInv, NEW q \in Reqs, UNCHANGED <<sessionVars, got, wireVars>>,
         NEW end \in Ended \ {"done"}, h' = [h EXCEPT ![q] = end],
         \/ h[q] \in {"listed", "pended"} /\ end \in {"refused", "failed"}
         \/ h[q] \in {"streaming", "leaving"} /\ end \in {"errored", "left"}
  PROVE  Service!GiveUp({q})
<1>0. h \in [Reqs -> HandlerState]
  BY DEF StreamInv, Ground, RouteInv, Typed, TypeOK, ServerTypeOK
<1>1. UNCHANGED <<sent, got, task, dropped>>
  BY DEF wireVars, sessionVars, taskVars
<1>2. h'[q] = end /\ \A r \in Reqs \ {q} : h'[r] = h[r]
  BY <1>0
<1>3. \A r \in Reqs \ {q} : ClientSees(r)' = ClientSees(r)
  BY <1>2 DEF ClientSees
<1>4. \/ ClientSees(q) = "waits" /\ ClientSees(q)' = "refused"
      \/ ClientSees(q) = "reads" /\ ClientSees(q)' = "short"
  <2>1. CASE h[q] \in {"listed", "pended"} /\ end \in {"refused", "failed"}
    BY <1>2, <2>1 DEF ClientSees
  <2>2. CASE h[q] \in {"streaming", "leaving"} /\ end \in {"errored", "left"}
    BY <1>2, <2>2 DEF ClientSees
  <2> QED
    BY <2>1, <2>2
<1> QED
  BY <1>1, <1>3, <1>4, GivesUp

LEMMA HandlerAccepts ==
  ASSUME StreamInv, NEW q \in Reqs, UNCHANGED sessionVars, Dispatch(q)
  PROVE  Service!Accept(q)
<1>0. h \in [Reqs -> HandlerState]
  BY DEF StreamInv, Ground, RouteInv, Typed, TypeOK, ServerTypeOK
<1>1. UNCHANGED <<sent, got, task, dropped>>
  BY DEF Dispatch, wireVars, sessionVars, taskVars
<1>2. /\ h[q] = "pended" /\ h'[q] = "streaming"
      /\ \A r \in Reqs \ {q} : h'[r] = h[r]
  BY <1>0 DEF Dispatch
<1>3. /\ ClientSees(q) = "waits" /\ ClientSees(q)' = "reads"
      /\ \A r \in Reqs \ {q} : ClientSees(r)' = ClientSees(r)
  BY <1>2 DEF ClientSees
<1>4. [r \in Reqs |-> ClientSees(r)]' =
        [[r \in Reqs |-> ClientSees(r)] EXCEPT ![q] = "reads"]
  BY <1>3
<1>5. [r \in Reqs |-> RunOf(r)]' = [r \in Reqs |-> RunOf(r)]
  BY <1>1 DEF RunOf
<1> QED
  BY <1>1, <1>3, <1>4, <1>5 DEF Service!Accept

\* The line shown follows the last one, or some were lost.
LEMMA HandlerShows ==
  ASSUME StreamInv, NEW q \in Reqs, UNCHANGED sessionVars, ReceiveChunk(q)
  PROVE  Service!Show(q)
<1> DEFINE k == Head(ch[q]).line
<1>0. /\ got \in [Reqs -> Seq(1..Lines)] /\ ch[q] \in Seq(Reply) /\ sent[q] \in Nat
      /\ Channelled(q) /\ Flow(q) /\ Order(q) /\ Gapless(q) /\ RouteInv
  BY DEF StreamInv, Streams, Ground, ChannelInv, RouteInv, Typed, TypeOK, ServerTypeOK,
     SessionTypeOK, Buffers
<1>1. /\ UNCHANGED <<sent, task, dropped, h>> /\ h[q] = "streaming"
      /\ got' = [got EXCEPT ![q] = Append(@, k)]
      /\ ch[q] # <<>> /\ Head(ch[q]).type = "chunk"
  BY DEF ReceiveChunk, wireVars, sessionVars, taskVars
<1>2. /\ Shown(q)' = Shown(q) \union {k}
      /\ <<q, "chunk">> \notin dropped => k = Len(got[q]) + 1
  BY ShowKeeps
<1>3. k \in 1..sent[q] /\ \A n \in Shown(q) : n < k
  <2>1. Of(Head(ch[q]), q)
    BY <1>0, <1>1, OfTail DEF Channelled
  <2>2. Head(ch[q]) \in Msgs(ch[q], q)
    BY <1>0, <1>1, <2>1, MsgsTail
  <2> QED
    BY <1>0, <1>1, <2>2 DEF Flow, Fits, Order, Below
<1> HIDE DEF k
<1> DEFINE last == IF got[q] = <<>> THEN 0 ELSE got[q][Len(got[q])]
<1>4. /\ last \in Nat /\ last < k
      /\ <<q, "chunk">> \notin dropped => last = Len(got[q])
  <2>1. CASE got[q] = <<>>
    BY <1>0, <1>3, <2>1
  <2>2. CASE got[q] # <<>>
    <3>1. Len(got[q]) \in DOMAIN got[q] /\ got[q][Len(got[q])] \in 1..Lines
      <4>1. got[q] \in Seq(1..Lines)
        BY <1>0
      <4>2. Len(got[q]) \in Nat \ {0} /\ DOMAIN got[q] = 1..Len(got[q])
        BY <2>2, <4>1, EmptySeq
      <4>3. Len(got[q]) \in 1..Len(got[q])
        BY <4>2
      <4> QED
        BY <4>1, <4>2, <4>3, ElementOfSeq
    <3>2. last = got[q][Len(got[q])] /\ last \in Shown(q)
      BY <2>2, <3>1 DEF Shown
    <3>3. <<q, "chunk">> \notin dropped => last = Len(got[q])
      BY <1>0, <3>1, <3>2 DEF Gapless
    <3>4. last \in Nat
      BY <3>1, <3>2
    <3> HIDE DEF last
    <3> QED
      BY <1>3, <3>2, <3>3, <3>4
  <2> QED
    BY <2>1, <2>2
<1>5. Service!Last(q) = last
  BY DEF Service!Last
<1> HIDE DEF last
<1>6. k \in (last + 1)..sent[q]
  BY <1>0, <1>3, <1>4
<1>7. k = last + 1 \/ q \in {r \in Reqs : <<r, "chunk">> \in dropped}
  BY <1>2, <1>4
<1>8. \A r \in Reqs : ClientSees(r)' = ClientSees(r) /\ RunOf(r)' = RunOf(r)
  BY <1>1 DEF ClientSees, RunOf
<1>9. /\ [r \in Reqs |-> ClientSees(r)]' = [r \in Reqs |-> ClientSees(r)]
      /\ [r \in Reqs |-> RunOf(r)]' = [r \in Reqs |-> RunOf(r)]
      /\ [r \in Reqs |-> ClientSees(r)][q] = "reads"
  BY <1>1, <1>8 DEF ClientSees
<1> QED
  BY <1>1, <1>5, <1>6, <1>7, <1>9 DEF Service!Show

LEMMA HandlerEndsWhole ==
  ASSUME StreamInv, CleanEndIsWhole', NEW q \in Reqs, UNCHANGED sessionVars, ReceiveDone(q),
         h'[q] = "done"
  PROVE  Service!EndWhole(q)
<1>0. h \in [Reqs -> HandlerState] /\ sent[q] \in Nat
  BY DEF StreamInv, Ground, RouteInv, Typed, TypeOK, ServerTypeOK, SessionTypeOK
<1>1. /\ UNCHANGED <<sent, task, dropped, got>> /\ h[q] = "streaming"
      /\ \A r \in Reqs \ {q} : h'[r] = h[r]
  BY <1>0 DEF ReceiveDone, ClosePending, wireVars, sessionVars, taskVars
<1>2. /\ task[q] = "answered"
      /\ got[q] = [i \in 1..sent[q] |-> i] \/ <<q, "chunk">> \in dropped
  BY <1>1 DEF CleanEndIsWhole
<1>3. got[q] = [i \in 1..sent[q] |-> i] => Service!Last(q) = sent[q]
  <2> SUFFICES ASSUME got[q] = [i \in 1..sent[q] |-> i] PROVE Service!Last(q) = sent[q]
    OBVIOUS
  <2>1. Len(got[q]) = sent[q] /\ (got[q] = <<>> <=> sent[q] = 0)
    BY <1>0
  <2> QED
    BY <1>0, <2>1 DEF Service!Last
<1>4. /\ ClientSees(q) = "reads" /\ ClientSees(q)' = "whole" /\ RunOf(q) = "answered"
      /\ \A r \in Reqs \ {q} : ClientSees(r)' = ClientSees(r)
      /\ \A r \in Reqs : RunOf(r)' = RunOf(r)
  BY <1>1, <1>2 DEF ClientSees, RunOf, Finished
<1>5. [r \in Reqs |-> ClientSees(r)]' =
        [[r \in Reqs |-> ClientSees(r)] EXCEPT ![q] = "whole"]
  BY <1>4
<1>6. [r \in Reqs |-> RunOf(r)]' = [r \in Reqs |-> RunOf(r)]
  BY <1>4
<1>7. Service!Last(q) = sent[q] \/ q \in {r \in Reqs : <<r, "chunk">> \in dropped}
  BY <1>2, <1>3
<1> QED
  BY <1>1, <1>4, <1>5, <1>6, <1>7 DEF Service!EndWhole

\* A cleanup, or a reply that is passed on or finds a full buffer.
LEMMA ServeLoses ==
  ASSUME StreamInv, NEW c \in Conns, ServeStep(c) \/ WriteOut(c), UNCHANGED sessionVars
  PROVE  (\E q \in Reqs : Service!Lose(q)) \/ UNCHANGED Service!serviceVars
<1> USE DEF handlerVars, sessionVars, taskVars
<1>0. toServer \in [Conns -> Seq(ToServerMsg)]
  BY DEF StreamInv, Ground, RouteInv, Typed, TypeOK, WireTypeOK, Buffers
<1>1. UNCHANGED <<sent, got, task, h>>
  BY DEF ServeStep, ReadHello, HelloFails, AddConn, SendWelcome, WelcomeFails,
     ReadHeartbeat, RouteChatReply, ReadFails, Unlink, CleanupCollect, CleanupPush,
     RemoveAndClose, WriteOut
<1>2. \A r \in Reqs : ClientSees(r)' = ClientSees(r) /\ RunOf(r)' = RunOf(r)
  BY <1>1 DEF ClientSees, RunOf
<1>3. CASE \A r \in Reqs : <<r, "chunk">> \in dropped' <=> <<r, "chunk">> \in dropped
  BY <1>1, <1>2, <1>3, Unseen
<1>4. CASE RouteChatReply(c)
  <2> DEFINE m == Head(toServer[c])
  <2>1. /\ toServer[c] # <<>> /\ m.type \in {"chunk", "done"}
        /\ dropped' \in {dropped, dropped \union {<<m.req, m.type>>}}
    BY <1>4 DEF RouteChatReply
  <2>2. PICK q \in Reqs : q = m.req
    <3>1. toServer[c] \in Seq(ToServerMsg)
      BY <1>0
    <3>2. m \in ToServerMsg
      BY <2>1, <3>1, HeadTailProperties
    <3> QED
      BY <2>1, <3>2 DEF ToServerMsg, SessionMsg, ChatReply
  <2> HIDE DEF m
  <2>3. dropped' \in {dropped, dropped \union {<<q, m.type>>}}
    BY <2>1, <2>2
  <2>4. CASE dropped' = dropped \union {<<q, m.type>>} /\ m.type = "chunk"
    <3>1. {r \in Reqs : <<r, "chunk">> \in dropped}' =
            {r \in Reqs : <<r, "chunk">> \in dropped} \union {q}
      BY <2>4
    <3>2. /\ [r \in Reqs |-> ClientSees(r)]' = [r \in Reqs |-> ClientSees(r)]
          /\ [r \in Reqs |-> RunOf(r)]' = [r \in Reqs |-> RunOf(r)]
      BY <1>2
    <3>3. Service!Lose(q)
      BY <1>1, <3>1, <3>2 DEF Service!Lose
    <3> QED
      BY <2>2, <3>3
  <2>5. CASE dropped' = dropped \/ m.type = "done"
    BY <1>3, <2>1, <2>5, <2>3
  <2> QED
    BY <2>1, <2>4, <2>5, <2>3
<1>5. ASSUME NEW q \in Reqs, CleanupPush(c, q)
      PROVE  \A r \in Reqs : <<r, "chunk">> \in dropped' <=> <<r, "chunk">> \in dropped
  BY <1>5 DEF CleanupPush
<1>6. CASE dropped' = dropped
  BY <1>3, <1>6
<1> QED
  BY <1>3, <1>4, <1>5, <1>6 DEF ServeStep, ReadHello, HelloFails, AddConn, SendWelcome,
     WelcomeFails, ReadHeartbeat, ReadFails, Unlink, CleanupCollect, RemoveAndClose,
     WriteOut, wireVars

\* Everyone who waits or reads is given up at once.
LEMMA StopGivesUp ==
  ASSUME StreamInv, OrchestratorStops, UNCHANGED sessionVars
  PROVE  \E S \in SUBSET Reqs : Service!GiveUp(S)
<1> DEFINE S == {r \in Reqs : h[r] \in {"listed", "picked", "pended", "streaming", "leaving"}}
<1>1. UNCHANGED <<sent, got, task, dropped>>
  BY DEF OrchestratorStops, sessionVars, taskVars
<1>2. \A r \in Reqs : h'[r] = CASE h[r] \in {"streaming", "leaving"} -> "cut"
                                [] h[r] \in {"listed", "picked", "pended"} -> "failed"
                                [] OTHER -> h[r]
  BY DEF OrchestratorStops
<1>3. \A r \in Reqs \ S : ClientSees(r)' = ClientSees(r)
  BY <1>2 DEF ClientSees
<1>4. ASSUME NEW r \in S
      PROVE  \/ ClientSees(r) = "waits" /\ ClientSees(r)' = "refused"
             \/ ClientSees(r) = "reads" /\ ClientSees(r)' = "short"
  <2>1. CASE h[r] \in {"listed", "picked", "pended"}
    BY <1>2, <2>1 DEF ClientSees
  <2>2. CASE h[r] \in {"streaming", "leaving"}
    BY <1>2, <2>2 DEF ClientSees
  <2> QED
    BY <2>1, <2>2
<1>5. S \in SUBSET Reqs
  OBVIOUS
<1> HIDE DEF S
<1>6. Service!GiveUp(S)
  BY <1>1, <1>3, <1>4, <1>5, GivesUp
<1> QED
  BY <1>5, <1>6

LEMMA SessionServes ==
  ASSUME StreamInv, SessionNext, UNCHANGED serverVars
  PROVE  Service!ServiceNext \/ UNCHANGED Service!serviceVars
<1> USE DEF serverVars, taskVars
<1>0. /\ task \in [Reqs -> TaskState] /\ sent \in [Reqs -> 0..Lines]
      /\ toWorker \in [Conns -> Seq(ToWorkerMsg)]
      /\ \A c \in Conns, r \in Reqs : OrderedOnce(c, r)
  BY DEF StreamInv, Ground, RouteInv, Typed, TypeOK, SessionTypeOK, WireTypeOK, Buffers
<1>1. /\ UNCHANGED <<h, got>> /\ \A r \in Reqs : ClientSees(r)' = ClientSees(r)
      /\ [r \in Reqs |-> ClientSees(r)]' = [r \in Reqs |-> ClientSees(r)]
  BY DEF ClientSees
<1>2. ASSUME UNCHANGED <<task, sent>>,
             \A r \in Reqs : <<r, "chunk">> \in dropped' <=> <<r, "chunk">> \in dropped
      PROVE  UNCHANGED Service!serviceVars
  BY <1>1, <1>2, Unseen DEF RunOf
<1>3. ASSUME NEW c \in Conns, Dial(c) \/ RecvWelcome(c) \/ GreetingFails(c) \/ SessionEnds(c)
                              \/ HeartbeatTick(c) \/ SessionWrite(c) \/ RecvCancel(c)
      PROVE  UNCHANGED Service!serviceVars
  BY <1>2, <1>3 DEF Dial, RecvWelcome, GreetingFails, SessionEnds, EndSession,
     HeartbeatTick, SessionWrite, RecvCancel, wireVars
\* A request that reaches its worker was accepted, and nobody runs it yet.
<1>4. ASSUME NEW c \in Conns, RecvRequest(c) PROVE \E q \in Reqs : Service!Begin(q)
  <2> DEFINE m == Head(toWorker[c])
  <2>1. toWorker[c] # <<>> /\ m.type = "request"
    BY <1>4 DEF RecvRequest
  <2>2. toWorker[c] \in Seq(ToWorkerMsg) /\ m \in ToWorkerMsg
    BY <1>0, <2>1, HeadTailProperties
  <2>3. PICK q \in Reqs : q = m.req
    BY <2>1, <2>2 DEF ToWorkerMsg, ChatOrder
  <2>4. task' = [task EXCEPT ![q] = "spawned"] /\ UNCHANGED <<sent, dropped>>
    BY <1>4, <2>3 DEF RecvRequest
  <2>5. Asked(toWorker[c], q)
    BY <2>1, <2>2, <2>3, AskedTail DEF Asks
  <2>6. task[q] = "none" /\ h[q] \in Dispatched
    BY <1>0, <2>3, <2>5 DEF OrderedOnce
  <2>7. [r \in Reqs |-> ClientSees(r)][q] \notin {"waits", "refused"}
    BY <2>3, <2>6 DEF ClientSees, Dispatched
  <2>8. /\ RunOf(q) = "none" /\ RunOf(q)' = "begun"
        /\ \A r \in Reqs \ {q} : RunOf(r)' = RunOf(r)
    BY <1>0, <2>4, <2>3, <2>6 DEF RunOf, Finished
  <2>9. [r \in Reqs |-> RunOf(r)]' = [[r \in Reqs |-> RunOf(r)] EXCEPT ![q] = "begun"]
    BY <2>8
  <2>10. Service!Begin(q)
    BY <1>1, <2>4, <2>3, <2>7, <2>8, <2>9 DEF Service!Begin
  <2> QED
    BY <2>3, <2>10
<1>5. ASSUME NEW q \in Reqs, (StartTask(q) /\ Owner[home[q]] \in Loaded) \/ CallAnswered(q)
      PROVE  UNCHANGED Service!serviceVars
  <2>1. /\ UNCHANGED <<sent, dropped>> /\ task[q] \in {"spawned", "calling"}
        /\ task'[q] \in Running /\ \A r \in Reqs \ {q} : task'[r] = task[r]
    BY <1>0, <1>5 DEF StartTask, CallAnswered, wireVars, Running
  <2>2. \A r \in Reqs : RunOf(r)' = RunOf(r)
    BY <2>1 DEF RunOf, Running, Finished
  <2> QED
    BY <1>1, <2>1, <2>2, Unseen
<1>6. ASSUME NEW q \in Reqs, NEW ok \in BOOLEAN, FinishTask(q, ok),
             task[q] \in {"spawned"} \union Running
      PROVE  Service!Finish(q)
  <2> DEFINE end == IF ok THEN "answered" ELSE "broken"
  <2>1. /\ sent' = sent /\ task' = [task EXCEPT ![q] = end]
        /\ dropped' \in {dropped, dropped \union {<<q, "done">>}}
    BY <1>6 DEF FinishTask, Send, Done
  <2>2. end \in {"answered", "broken"}
    OBVIOUS
  <2> HIDE DEF end
  <2>3. /\ RunOf(q) = "begun" /\ RunOf(q)' = end
        /\ \A r \in Reqs \ {q} : RunOf(r)' = RunOf(r)
    BY <1>0, <1>6, <2>1, <2>2 DEF RunOf, Finished, Running
  <2>4. [r \in Reqs |-> RunOf(r)]' = [[r \in Reqs |-> RunOf(r)] EXCEPT ![q] = end]
    BY <2>3
  <2>5. {r \in Reqs : <<r, "chunk">> \in dropped}' = {r \in Reqs : <<r, "chunk">> \in dropped}
    BY <2>1
  <2> QED
    BY <1>1, <2>1, <2>2, <2>3, <2>4, <2>5 DEF Service!Finish
<1>7. ASSUME NEW q \in Reqs, ForwardLine(q) PROVE Service!Produce(q)
  <2>1. /\ task[q] = "streaming" /\ task' = task /\ sent[q] < Lines
        /\ sent' = [sent EXCEPT ![q] = @ + 1]
        /\ dropped' \in {dropped, dropped \union {<<q, "chunk">>}}
    BY <1>7 DEF ForwardLine, Send, Chunk
  <2>2. [r \in Reqs |-> RunOf(r)]' = [r \in Reqs |-> RunOf(r)] /\ RunOf(q) = "begun"
    BY <2>1 DEF RunOf, Finished
  <2> DEFINE Lossy == {r \in Reqs : <<r, "chunk">> \in dropped}
  <2>3. Lossy' = Lossy \/ Lossy' = Lossy \union {q}
    BY <2>1
  <2> QED
    BY <1>1, <2>1, <2>2, <2>3 DEF Service!Produce
<1>8. ASSUME NEW q \in Reqs, TaskStep(q)
      PROVE  Service!ServiceNext \/ UNCHANGED Service!serviceVars
  <2>1. CASE StartTask(q) \/ CallAnswered(q)
    BY <1>5, <1>6, <2>1 DEF StartTask, Service!ServiceNext
  <2>2. CASE CallFails(q) \/ StreamEnds(q)
    BY <1>6, <2>2 DEF CallFails, StreamEnds, Running, Service!ServiceNext
  <2>3. CASE ForwardLine(q)
    BY <1>7, <2>3 DEF Service!ServiceNext
  <2> QED
    BY <1>8, <2>1, <2>2, <2>3 DEF TaskStep
<1> QED
  BY <1>3, <1>4, <1>8 DEF SessionNext, SessionStep, Service!ServiceNext

LEMMA HandlerServes ==
  ASSUME StreamInv, CleanEndIsWhole', NEW q \in Reqs, HandlerStep(q), UNCHANGED sessionVars
  PROVE  Service!ServiceNext \/ UNCHANGED Service!serviceVars
<1>1. CASE ListCandidates(q) \/ PickWorker(q) \/ RegisterPending(q) \/ ClientGone(q)
  BY <1>1, HandlerWaits
<1>2. CASE Dispatch(q)
  BY <1>2, HandlerAccepts DEF Service!ServiceNext
<1>3. CASE ReceiveChunk(q)
  BY <1>3, HandlerShows DEF Service!ServiceNext
<1>4. CASE ReceiveDone(q) /\ h'[q] = "done"
  BY <1>4, HandlerEndsWhole DEF Service!ServiceNext
<1>5. CASE \/ NoWorker(q) \/ DispatchTimesOut(q) \/ EncodeFails(q) \/ CancelOnWorker(q)
           \/ ReceiveDone(q) /\ h'[q] # "done"
  <2>0. h \in [Reqs -> HandlerState]
    BY DEF StreamInv, Ground, RouteInv, Typed, TypeOK, ServerTypeOK
  <2>1. UNCHANGED <<got, wireVars>>
    BY <1>5 DEF NoWorker, DispatchTimesOut, EncodeFails, CancelOnWorker, ReceiveDone
  <2>2. \E end \in Ended \ {"done"} :
          /\ h' = [h EXCEPT ![q] = end]
          /\ \/ h[q] \in {"listed", "pended"} /\ end \in {"refused", "failed"}
             \/ h[q] \in {"streaming", "leaving"} /\ end \in {"errored", "left"}
    BY <1>5, <2>0 DEF NoWorker, DispatchTimesOut, EncodeFails, CancelOnWorker, ReceiveDone,
       ClosePending, Ended
  <2>3. Service!GiveUp({q})
    BY <2>1, <2>2, HandlerGivesUp
  <2> QED
    BY <2>3 DEF Service!ServiceNext
<1> QED
  BY <1>1, <1>2, <1>3, <1>4, <1>5 DEF HandlerStep

LEMMA StepServes ==
  ASSUME StreamInv, CleanEndIsWhole', [Next]_vars
  PROVE  Service!ServiceNext \/ UNCHANGED Service!serviceVars
<1>1. CASE UNCHANGED sessionVars /\ \E c \in Conns : ServeStep(c) \/ WriteOut(c)
  BY <1>1, ServeLoses DEF Service!ServiceNext
<1>2. CASE UNCHANGED sessionVars /\ \E q \in Reqs : HandlerStep(q)
  BY <1>2, HandlerServes
<1>3. CASE UNCHANGED sessionVars /\ OrchestratorStops
  BY <1>3, StopGivesUp DEF Service!ServiceNext
<1>4. CASE UNCHANGED serverVars /\ SessionNext
  BY <1>4, SessionServes
<1>5. CASE \/ /\ UNCHANGED sessionVars
              /\ (\E w \in Workers : Expire(w) \/ ReapOne(w)) \/ ReapScan
           \/ Breaks
           \/ UNCHANGED vars
  <2>1. UNCHANGED <<sent, got, h, task, dropped>>
    BY <1>5 DEF Expire, ReapOne, ReapScan, Breaks, LinkFails, handlerVars, wireVars,
       sessionVars, serverVars, taskVars, vars
  <2> QED
    BY <2>1, Unseen DEF ClientSees, RunOf
<1> QED
  BY <1>1, <1>2, <1>3, <1>4, <1>5 DEF Next, ServerNext

\* The grid keeps every promise of ChatService, for any number of workers,
\* connections, requests and lines and buffers of any capacity: whatever breaks,
\* is dropped, is cancelled or stops, each step is one the service allows.
THEOREM GridServesChats == Spec => ServesChats
<1>1. Init => Service!ServiceInit
  BY ServiceInits
<1>2. StreamInv /\ CleanEndIsWhole' /\ [Next]_vars =>
        [Service!ServiceNext]_Service!serviceVars
  BY StepServes
<1> QED
  BY <1>1, <1>2, StreamAlways, CleanEndStaysWhole, PTL
     DEF Spec, ServesChats, Service!ServiceSpec

LEMMA PromisesHold ==
  StreamInv /\ CleanEndIsWhole =>
    Service!WholeIsWhole /\ Service!Ascending /\ Service!RefusedNeverRuns
<1> SUFFICES ASSUME StreamInv, CleanEndIsWhole
             PROVE  Service!WholeIsWhole /\ Service!Ascending /\ Service!RefusedNeverRuns
  OBVIOUS
<1>0. ASSUME NEW r \in Reqs
      PROVE  Flow(r) /\ Order(r) /\ RunsAtHome(r) /\ h[r] \in HandlerState /\ sent[r] \in Nat
  BY <1>0 DEF StreamInv, Streams, Ground, RouteInv, Typed, TypeOK, ServerTypeOK,
     SessionTypeOK
<1>1. ASSUME NEW r \in Reqs, ClientSees(r) = "whole"
      PROVE  /\ RunOf(r) = "answered"
             /\ <<r, "chunk">> \in dropped \/ got[r] = [n \in 1..sent[r] |-> n]
  <2>1. h[r] = "done"
    BY <1>0, <1>1 DEF ClientSees
  <2> QED
    BY <2>1 DEF CleanEndIsWhole, RunOf, Finished
<1>2. ASSUME NEW r \in Reqs
      PROVE  /\ \A i, j \in DOMAIN got[r] : i < j => got[r][i] < got[r][j]
             /\ \A i \in DOMAIN got[r] : got[r][i] <= sent[r]
  <2>1. \A i \in DOMAIN got[r] : got[r][i] \in 1..sent[r]
    BY <1>0 DEF Flow, Shown
  <2>2. \A i \in DOMAIN got[r] : got[r][i] <= sent[r]
    BY <1>0, <2>1
  <2> QED
    BY <1>0, <2>2 DEF Order
<1>3. ASSUME NEW r \in Reqs, ClientSees(r) \in {"waits", "refused"}
      PROVE  RunOf(r) = "none"
  BY <1>0, <1>3 DEF ClientSees, RunsAtHome, Dispatched, RunOf
<1>4. Service!WholeIsWhole
  BY <1>1 DEF Service!WholeIsWhole
<1>5. Service!Ascending
  BY <1>2 DEF Service!Ascending
<1>6. Service!RefusedNeverRuns
  BY <1>3 DEF Service!RefusedNeverRuns
<1> QED
  BY <1>4, <1>5, <1>6

\* In the grid, read through the refinement: a whole answer is the whole of a run
\* that reached its end, lines come in order and after they were made, and a
\* client that is refused, or still waits, has started no run on any worker.
THEOREM PromisesKept ==
  Spec => [](Service!WholeIsWhole /\ Service!Ascending /\ Service!RefusedNeverRuns)
BY StreamAlways, CleanEndStaysWhole, PromisesHold, PTL
-----------------------------------------------------------------------------
(* Buffers large enough *)

\* What tells the messages of a request apart in a buffer.
Code(m) == CASE m.type = "chunk" -> m.line
             [] m.type = "lost" -> Lines + 1
             [] OTHER -> 0

OneLost(s) ==
  \A i, j \in DOMAIN s : s[i].type = "lost" /\ s[j].type = "lost" => i = j

LEMMA OneLostAppend ==
  ASSUME NEW s \in Seq(Reply), NEW m \in Reply, OneLost(s), m.type = "lost" => ~Told(s)
  PROVE  /\ OneLost(Append(s, m))
         /\ Told(Append(s, m)) => Told(s) \/ m.type = "lost"
<1> DEFINE t == Append(s, m)
           n == Len(s)
<1>1. /\ n \in Nat /\ DOMAIN s = 1..n /\ DOMAIN t = 1..(n + 1)
      /\ \A i \in 1..n : t[i] = s[i]
      /\ t[n + 1] = m
  OBVIOUS
<1> HIDE DEF t, n
<1>2. \A i : i \in 1..(n + 1) <=> i \in 1..n \/ i = n + 1
  BY <1>1
<1> QED
  BY <1>1, <1>2 DEF t, OneLost, Told

LEMMA OneLostTail ==
  ASSUME NEW s \in Seq(Reply), s # <<>>, OneLost(s)
  PROVE  OneLost(Tail(s))
<1> DEFINE t == Tail(s)
           n == Len(s)
<1>1. n \in Nat \ {0} /\ DOMAIN s = 1..n
  BY EmptySeq
<1>2. t \in Seq(Reply) /\ Len(t) = n - 1 /\ \A i \in 1..Len(t) : t[i] = s[i + 1]
  BY HeadTailProperties
<1>3. DOMAIN t = 1..Len(t)
  BY <1>2, LenProperties
<1> HIDE DEF t, n
<1>4. /\ DOMAIN t = 1..(n - 1)
      /\ \A i \in 1..(n - 1) : i + 1 \in 1..n /\ t[i] = s[i + 1]
      /\ \A i, j \in 1..(n - 1) : i + 1 = j + 1 => i = j
  BY <1>1, <1>2, <1>3
<1> QED
  BY <1>1, <1>4 DEF t, OneLost

\* A channel holds at most every line, an end of stream and the news of a lost
\* worker.
LEMMA ChannelFits ==
  ASSUME NEW r \in Reqs, NEW s \in Seq(Reply), \A i \in DOMAIN s : Of(s[i], r),
         Ascends(s, r), OneLost(s)
  PROVE  Len(s) <= Lines + 2
<1> DEFINE n == Len(s)
           f == [i \in 1..n |-> Code(s[i])]
<1>1. n \in Nat /\ DOMAIN s = 1..n /\ \A i \in 1..n : s[i] \in Reply
  OBVIOUS
<1>2. Lines \in Nat
  BY WireAssumption
<1>3. \A m \in Reply : /\ Code(m) \in 0..(Lines + 1)
                       /\ m.type = "chunk" => Code(m) \in 1..Lines /\ Code(m) = m.line
                       /\ m.type = "done" => Code(m) = 0
                       /\ m.type = "lost" => Code(m) = Lines + 1
                       /\ m.type \in {"chunk", "done", "lost"}
  BY <1>2 DEF Reply, ChatReply, Lost, Code
<1>4. ASSUME NEW i \in 1..n, NEW j \in 1..n, i < j PROVE Code(s[i]) # Code(s[j])
  <2>1. Before(s[i], s[j]) /\ ~(s[i].type = "lost" /\ s[j].type = "lost")
    BY <1>1, <1>4 DEF Ascends, OneLost
  <2>2. s[i] \in Reply /\ s[j] \in Reply
    BY <1>1
  <2>3. CASE s[j].type = "chunk"
    BY <1>2, <1>3, <2>1, <2>2, <2>3 DEF Before
  <2>4. CASE s[j].type = "done"
    BY <1>2, <1>3, <2>1, <2>2, <2>4 DEF Before
  <2>5. CASE s[j].type = "lost"
    BY <1>2, <1>3, <2>1, <2>2, <2>5
  <2> QED
    BY <1>3, <2>2, <2>3, <2>4, <2>5
<1>5. \A i, j \in 1..n : Code(s[i]) = Code(s[j]) => i = j
  <2>1. \A i, j \in 1..n : i = j \/ i < j \/ j < i
    BY <1>1
  <2> QED
    BY <1>4, <2>1
<1> HIDE DEF n
<1>6. f \in Injection(1..n, 0..(Lines + 1))
  BY <1>1, <1>3, <1>5 DEF Injection, IsInjective
<1>7. IsFiniteSet(0..(Lines + 1)) /\ Cardinality(0..(Lines + 1)) = Lines + 2
  BY <1>2, FS_Interval
<1>8. Cardinality(1..n) = n
  BY <1>1, FS_Interval
<1> HIDE DEF f
<1>9. Cardinality(1..n) <= Cardinality(0..(Lines + 1))
  BY <1>6, <1>7, FS_Injection
<1> QED
  BY <1>7, <1>8, <1>9 DEF n

Beats(s) == {i \in DOMAIN s : s[i].type = "heartbeat"}

\* A session's buffer holds at most every line and end of stream of every
\* request, besides its heartbeats.
LEMMA SessionFits ==
  ASSUME IsFiniteSet(Reqs), NEW s \in Seq(SessionMsg), \A r \in Reqs : Ascends(s, r)
  PROVE  /\ IsFiniteSet(Beats(s)) /\ Cardinality(Beats(s)) \in Nat
         /\ Len(s) <= Cardinality(Beats(s)) + Cardinality(Reqs) * (Lines + 1)
<1> DEFINE n == Len(s)
           B == Beats(s)
           R == (1..n) \ B
           P == Reqs \X (0..Lines)
           f == [i \in R |-> <<s[i].req, Code(s[i])>>]
<1>1. n \in Nat /\ DOMAIN s = 1..n /\ \A i \in 1..n : s[i] \in SessionMsg
  OBVIOUS
<1>2. Lines \in Nat
  BY WireAssumption
<1>3. /\ \A i \in R : s[i] \in ChatReply
      /\ B \subseteq 1..n
  BY <1>1 DEF Beats, SessionMsg
<1>4. \A m \in ChatReply : /\ m.req \in Reqs /\ Code(m) \in 0..Lines
                           /\ m.type = "chunk" => Code(m) \in 1..Lines /\ Code(m) = m.line
                           /\ m.type = "done" => Code(m) = 0
                           /\ m.type \in {"chunk", "done"}
  BY <1>2 DEF ChatReply, Code
<1>5. ASSUME NEW i \in R, NEW j \in R, i < j, s[i].req = s[j].req
      PROVE  Code(s[i]) # Code(s[j])
  <2>1. s[i] \in ChatReply /\ s[j] \in ChatReply
    BY <1>3
  <2>2. Of(s[i], s[i].req) /\ Of(s[j], s[i].req) /\ s[i].req \in Reqs
    BY <1>4, <1>5, <2>1 DEF Of
  <2>3. i \in DOMAIN s /\ j \in DOMAIN s
    BY <1>1
  <2>4. Before(s[i], s[j])
    BY <1>5, <2>2, <2>3 DEF Ascends
  <2>5. CASE s[j].type = "chunk"
    BY <1>2, <1>4, <2>1, <2>4, <2>5 DEF Before
  <2>6. CASE s[j].type = "done"
    BY <1>2, <1>4, <2>1, <2>4, <2>6 DEF Before
  <2> QED
    BY <1>4, <2>1, <2>5, <2>6
<1>6. ASSUME NEW i \in R, NEW j \in R, f[i] = f[j] PROVE i = j
  <2>1. s[i].req = s[j].req /\ Code(s[i]) = Code(s[j])
    BY <1>6
  <2>2. i = j \/ i < j \/ j < i
    BY <1>1
  <2> QED
    BY <1>5, <2>1, <2>2
<1>7. f \in [R -> P]
  BY <1>3, <1>4
<1>8. IsFiniteSet(P) /\ Cardinality(P) = Cardinality(Reqs) * (Lines + 1)
  <2>1. IsFiniteSet(0..Lines) /\ Cardinality(0..Lines) = Lines + 1
    BY <1>2, FS_Interval
  <2> QED
    BY <2>1, FS_Product
<1> HIDE DEF n, B, R, P, f
<1>9. IsFiniteSet(1..n) /\ Cardinality(1..n) = n
  BY <1>1, FS_Interval
<1>10. f \in Injection(R, P)
  BY <1>6, <1>7 DEF Injection, IsInjective
<1>11. Cardinality(R) <= Cardinality(P)
  BY <1>8, <1>10, FS_Injection
<1>12. IsFiniteSet(B) /\ IsFiniteSet(R) /\ Cardinality(B) \in Nat /\ Cardinality(R) \in Nat
  <2>1. R \in SUBSET (1..n) /\ B \in SUBSET (1..n)
    BY <1>3 DEF R
  <2>2. IsFiniteSet(B) /\ IsFiniteSet(R)
    BY <1>9, <2>1, FS_Subset
  <2> QED
    BY <2>2, FS_CardinalityType
<1>13. n = Cardinality(B) + Cardinality(R)
  <2>1. B \cup R = 1..n /\ B \cap R = {}
    BY <1>3 DEF R
  <2>2. Cardinality(B \cup R) = Cardinality(B) + Cardinality(R) - Cardinality(B \cap R)
    BY <1>12, FS_Union
  <2>3. Cardinality(B \cap R) = 0 /\ Cardinality(B \cup R) = n
    BY <1>9, <2>1, FS_EmptySet
  <2> QED
    BY <1>1, <1>12, <2>2, <2>3
<1>14. Cardinality(P) \in Nat
  BY <1>8, FS_CardinalityType
<1>15. n <= Cardinality(B) + Cardinality(P)
  BY <1>11, <1>12, <1>13, <1>14
<1> QED
  BY <1>8, <1>12, <1>15 DEF n, B

LEMMA BeatsAppend ==
  ASSUME NEW s \in Seq(SessionMsg), NEW m \in SessionMsg, IsFiniteSet(Beats(s))
  PROVE  /\ IsFiniteSet(Beats(Append(s, m)))
         /\ Cardinality(Beats(Append(s, m))) =
              IF m.type = "heartbeat" THEN Cardinality(Beats(s)) + 1
              ELSE Cardinality(Beats(s))
<1> DEFINE t == Append(s, m)
           n == Len(s)
<1>1. /\ n \in Nat /\ DOMAIN s = 1..n /\ DOMAIN t = 1..(n + 1)
      /\ \A i \in 1..n : t[i] = s[i]
      /\ t[n + 1] = m
  OBVIOUS
<1> HIDE DEF t, n
<1>2. \A i : i \in 1..(n + 1) <=> i \in 1..n \/ i = n + 1
  BY <1>1
<1>3. n + 1 \notin Beats(s)
  BY <1>1 DEF Beats
<1>4. CASE m.type = "heartbeat"
  <2>1. Beats(t) = Beats(s) \cup {n + 1}
    BY <1>1, <1>2, <1>4 DEF Beats
  <2> QED
    BY <1>3, <1>4, <2>1, FS_AddElement DEF t
<1>5. CASE m.type # "heartbeat"
  <2>1. Beats(t) = Beats(s)
    BY <1>1, <1>2, <1>5 DEF Beats
  <2> QED
    BY <1>5, <2>1 DEF t
<1> QED
  BY <1>4, <1>5

LEMMA BeatsTail ==
  ASSUME NEW s \in Seq(SessionMsg), s # <<>>, IsFiniteSet(Beats(s))
  PROVE  /\ IsFiniteSet(Beats(Tail(s)))
         /\ Cardinality(Beats(Tail(s))) <= Cardinality(Beats(s))
<1> DEFINE t == Tail(s)
           n == Len(s)
           f == [i \in Beats(t) |-> i + 1]
<1>1. n \in Nat \ {0} /\ DOMAIN s = 1..n
  BY EmptySeq
<1>2. t \in Seq(SessionMsg) /\ Len(t) = n - 1 /\ \A i \in 1..Len(t) : t[i] = s[i + 1]
  BY HeadTailProperties
<1>3. DOMAIN t = 1..Len(t)
  BY <1>2, LenProperties
<1> HIDE DEF t, n
<1>4. /\ DOMAIN t = 1..(n - 1)
      /\ \A i \in 1..(n - 1) : i + 1 \in 1..n /\ t[i] = s[i + 1]
      /\ \A i, j \in 1..(n - 1) : i + 1 = j + 1 => i = j
  BY <1>1, <1>2, <1>3
<1>5. /\ \A i \in Beats(t) : i + 1 \in Beats(s)
      /\ \A i, j \in Beats(t) : i + 1 = j + 1 => i = j
  BY <1>1, <1>4 DEF Beats
<1>6. f \in Injection(Beats(t), Beats(s))
  BY <1>5 DEF Injection, IsInjective
<1> HIDE DEF f
<1> QED
  BY <1>6, FS_Injection DEF t
-----------------------------------------------------------------------------
(* What is kept of a buffer *)

\* A handler is told of a lost worker at most once: it is woken by one cleanup,
\* in one message.
ToldOnce(r) ==
  /\ \A c, d \in Conns : r \in orphans[c] /\ r \in orphans[d] => c = d
  /\ (\E c \in Conns : r \in orphans[c]) => ~Told(ch[r])
  /\ OneLost(ch[r])

FewBeats(c) == /\ IsFiniteSet(Beats(sOut[c]))
               /\ Cardinality(Beats(sOut[c])) <= MaxBeats

LEMMA ToldOnceServe ==
  ASSUME ChannelInv, NEW r \in Reqs, ToldOnce(r), NEW c \in Conns,
         ServeStep(c) \/ WriteOut(c)
  PROVE  ToldOnce(r)'
<1>0. /\ ch \in [Reqs -> Seq(Reply)] /\ toServer \in [Conns -> Seq(ToServerMsg)]
      /\ orphans \in [Conns -> SUBSET Reqs] /\ Channelled(r)
  BY DEF ChannelInv, LostInv, Typed, TypeOK, ServerTypeOK, WireTypeOK, Buffers
<1>1. CASE UNCHANGED <<orphans, ch>>
  BY <1>1 DEF ToldOnce
<1>2. CASE RouteChatReply(c)
  <2> DEFINE m == Head(toServer[c])
  <2>1. /\ UNCHANGED orphans
        /\ ch' = ch \/ (m.req \in pending /\ ch' = [ch EXCEPT ![m.req] = Append(@, m)])
        /\ m.type \in {"chunk", "done"} /\ toServer[c] # <<>>
    BY <1>2 DEF RouteChatReply
  <2>2. m \in ToServerMsg
    BY <1>0, <2>1, HeadTailProperties
  <2>3. m \in Reply /\ m.type # "lost"
    BY <2>1, <2>2 DEF ToServerMsg, SessionMsg, Reply, ChatReply
  <2> HIDE DEF m
  <2>4. CASE ch'[r] = ch[r]
    BY <2>1, <2>4 DEF ToldOnce
  <2>5. CASE ch'[r] = Append(ch[r], m)
    <3>1. ch[r] \in Seq(Reply) /\ OneLost(ch[r])
      BY <1>0 DEF ToldOnce
    <3>2. OneLost(ch'[r]) /\ (Told(ch'[r]) => Told(ch[r]))
      BY <2>3, <2>5, <3>1, OneLostAppend
    <3> QED
      BY <2>1, <3>2 DEF ToldOnce
  <2> QED
    BY <1>0, <2>1, <2>4, <2>5
<1>3. CASE CleanupCollect(c)
  <2>1. ch' = ch /\ orphans' = [orphans EXCEPT ![c] = PendingOf(Owner[c])]
    BY <1>3 DEF CleanupCollect
  <2>2. CASE r \in PendingOf(Owner[c])
    <3>1. ~Told(ch[r]) /\ \A d \in Conns : r \notin orphans[d]
      BY <1>0, <2>2 DEF PendingOf, Channelled
    <3> QED
      BY <1>0, <2>1, <3>1 DEF ToldOnce
  <2>3. CASE r \notin PendingOf(Owner[c])
    <3>1. \A d \in Conns : r \in orphans'[d] => r \in orphans[d]
      BY <1>0, <2>1, <2>3
    <3> QED
      BY <2>1, <3>1 DEF ToldOnce
  <2> QED
    BY <2>2, <2>3
<1>4. ASSUME NEW q \in Reqs, CleanupPush(c, q) PROVE ToldOnce(r)'
  <2>1. /\ q \in orphans[c]
        /\ orphans' = [orphans EXCEPT ![c] = @ \ {q}]
        /\ ch' = ch \/ ch' = [ch EXCEPT ![q] = Append(@, Lost)]
    BY <1>4 DEF CleanupPush
  <2>2. \A d \in Conns : r \in orphans'[d] => r \in orphans[d] /\ ~(d = c /\ q = r)
    BY <1>0, <2>1
  <2>3. CASE ch'[r] = ch[r]
    BY <2>2, <2>3 DEF ToldOnce
  <2>4. CASE q = r /\ ch'[r] = Append(ch[r], Lost)
    <3>1. ch[r] \in Seq(Reply) /\ Lost \in Reply
      BY <1>0 DEF Lost, Reply
    <3>2. ~Told(ch[r]) /\ OneLost(ch[r])
      BY <2>1, <2>4 DEF ToldOnce
    <3>3. OneLost(ch'[r])
      BY <2>4, <3>1, <3>2, OneLostAppend
    <3>4. \A d \in Conns : r \notin orphans'[d]
      BY <2>1, <2>2, <2>4 DEF ToldOnce
    <3> QED
      BY <3>3, <3>4 DEF ToldOnce
  <2> QED
    BY <1>0, <2>1, <2>3, <2>4
<1> QED
  BY <1>1, <1>2, <1>3, <1>4 DEF ServeStep, ReadHello, HelloFails, AddConn, SendWelcome,
     WelcomeFails, ReadHeartbeat, ReadFails, Unlink, RemoveAndClose, WriteOut

LEMMA ToldOnceStep ==
  ASSUME ChannelInv, NEW r \in Reqs, ToldOnce(r), [Next]_vars
  PROVE  ToldOnce(r)'
<1>0. ch \in [Reqs -> Seq(Reply)] /\ Channelled(r) /\ ~Told(<<>>) /\ OneLost(<<>>)
  BY DEF ChannelInv, LostInv, Typed, TypeOK, ServerTypeOK, Buffers, Told, OneLost
<1>1. CASE \E c \in Conns : ServeStep(c) \/ WriteOut(c)
  BY <1>1, ToldOnceServe
<1>2. CASE UNCHANGED <<orphans, ch>>
  BY <1>2 DEF ToldOnce
<1>3. ASSUME NEW q \in Reqs, HandlerStep(q) PROVE ToldOnce(r)'
  <2> USE DEF connVars
  <2>1. CASE ReceiveChunk(q)
    <3>1. orphans' = orphans /\ ch[q] # <<>> /\ ch' = [ch EXCEPT ![q] = Tail(@)]
      BY <2>1 DEF ReceiveChunk
    <3>2. CASE q = r
      <4>1. ch[r] \in Seq(Reply) /\ OneLost(ch[r]) /\ \A i \in DOMAIN ch[r] : Of(ch[r][i], r)
        BY <1>0 DEF ToldOnce, Channelled
      <4>2. ch'[r] = Tail(ch[r])
        BY <1>0, <3>1, <3>2
      <4>3. OneLost(ch'[r]) /\ (Told(ch'[r]) => Told(ch[r]))
        BY <3>1, <3>2, <4>1, <4>2, OneLostTail, OfTail
      <4> QED
        BY <3>1, <4>3 DEF ToldOnce
    <3>3. CASE q # r
      BY <1>0, <3>1, <3>3 DEF ToldOnce
    <3> QED
      BY <3>2, <3>3
  <2>2. ASSUME NEW outcome, ClosePending(q, outcome), UNCHANGED orphans PROVE ToldOnce(r)'
    <3>1. ch'[r] = ch[r] \/ ch'[r] = <<>>
      BY <1>0, <2>2 DEF ClosePending
    <3> QED
      BY <1>0, <2>2, <3>1 DEF ToldOnce
  <2>3. CASE DispatchTimesOut(q) \/ EncodeFails(q) \/ ReceiveDone(q) \/ CancelOnWorker(q)
    BY <2>2, <2>3 DEF DispatchTimesOut, EncodeFails, ReceiveDone, CancelOnWorker
  <2>4. CASE \/ ListCandidates(q) \/ PickWorker(q) \/ NoWorker(q) \/ RegisterPending(q)
             \/ Dispatch(q) \/ ClientGone(q)
    BY <1>2, <2>4 DEF ListCandidates, PickWorker, NoWorker, RegisterPending, Dispatch,
       ClientGone
  <2> QED
    BY <1>3, <2>1, <2>3, <2>4 DEF HandlerStep
<1>4. CASE (\E w \in Workers : Expire(w) \/ ReapOne(w)) \/ ReapScan
  BY <1>2, <1>4 DEF Expire, ReapOne, ReapScan
<1>5. CASE (SessionNext /\ UNCHANGED serverVars) \/ Breaks \/ UNCHANGED vars
  BY <1>2, <1>5 DEF Breaks, vars, serverVars
<1>6. CASE OrchestratorStops
  <2>1. ch'[r] = <<>> /\ \A c \in Conns : orphans'[c] = {}
    BY <1>6 DEF OrchestratorStops
  <2> QED
    BY <1>0, <2>1 DEF ToldOnce
<1> QED
  BY <1>1, <1>3, <1>4, <1>5, <1>6 DEF Next, ServerNext

\* A handler is woken at most once by the loss of its worker, however many of that
\* worker's connections are cleaned up.
THEOREM LostIsToldOnce == Spec => [](\A r \in Reqs : ToldOnce(r))
<1>1. Init => \A r \in Reqs : ToldOnce(r)
  BY DEF Init, ServerInit, ToldOnce, OneLost
<1>2. ChannelInv /\ (\A r \in Reqs : ToldOnce(r)) /\ [Next]_vars
        => (\A r \in Reqs : ToldOnce(r))'
  BY ToldOnceStep
<1>3. StreamInv => ChannelInv
  BY DEF StreamInv, Ground
<1> QED
  BY <1>1, <1>2, <1>3, StreamAlways, PTL DEF Spec

LEMMA FewBeatsStep ==
  ASSUME Typed, NEW c \in Conns, FewBeats(c), [Next]_vars
  PROVE  FewBeats(c)'
<1>0. /\ sOut \in [Conns -> Seq(SessionMsg)] /\ sOut[c] \in Seq(SessionMsg)
      /\ home \in [Reqs -> {None} \union Conns]
      /\ sent \in [Reqs -> 0..Lines]
      /\ IsFiniteSet(Beats(sOut[c])) /\ Cardinality(Beats(sOut[c])) <= MaxBeats
      /\ Cardinality(Beats(sOut[c])) \in Nat /\ MaxBeats \in Nat
  BY SessionAssumption, FS_CardinalityType
     DEF Typed, TypeOK, SessionTypeOK, Buffers, FewBeats
<1>1. CASE sOut'[c] = sOut[c]
  BY <1>1 DEF FewBeats
<1>2. CASE sOut'[c] = <<>>
  <2>1. Beats(sOut'[c]) = {}
    BY <1>2 DEF Beats
  <2> QED
    BY <1>0, <2>1, FS_EmptySet DEF FewBeats
<1>3. ASSUME NEW m \in ChatReply, sOut'[c] = Append(sOut[c], m) PROVE FewBeats(c)'
  <2>1. m \in SessionMsg /\ m.type # "heartbeat"
    BY <1>3 DEF SessionMsg, ChatReply
  <2> QED
    BY <1>0, <1>3, <2>1, BeatsAppend DEF FewBeats
<1>4. ASSUME NEW r \in Reqs, TaskStep(r), home[r] # c PROVE sOut'[c] = sOut[c]
  BY <1>0, <1>4 DEF TaskStep, StartTask, CallFails, CallAnswered, ForwardLine, StreamEnds,
     FinishTask, Send
<1>5. ASSUME NEW r \in Reqs, TaskStep(r), home[r] = c PROVE FewBeats(c)'
  <2>1. ASSUME NEW m \in ChatReply, Send(c, m) PROVE FewBeats(c)'
    BY <1>0, <1>1, <1>3, <2>1 DEF Send
  <2>2. \A ok \in BOOLEAN : Done(r, ok) \in ChatReply
    BY DEF Done, ChatReply
  <2>3. CASE ForwardLine(r)
    <3>1. sent[r] < Lines /\ Send(c, Chunk(r, sent[r] + 1))
      BY <1>5, <2>3 DEF ForwardLine
    <3>2. Chunk(r, sent[r] + 1) \in ChatReply
      BY <1>0, <3>1, WireAssumption DEF Chunk, ChatReply
    <3> QED
      BY <2>1, <3>1, <3>2
  <2>4. ASSUME NEW ok \in BOOLEAN, FinishTask(r, ok) PROVE FewBeats(c)'
    BY <1>5, <2>1, <2>2, <2>4 DEF FinishTask
  <2>5. CASE UNCHANGED sOut
    BY <1>1, <2>5
  <2> QED
    BY <1>5, <2>3, <2>4, <2>5 DEF TaskStep, StartTask, CallFails, CallAnswered, StreamEnds
<1>6. ASSUME NEW d \in Conns, Dial(d) \/ SessionStep(d) PROVE FewBeats(c)'
  <2>1. CASE Dial(d) \/ RecvWelcome(d) \/ RecvRequest(d) \/ RecvCancel(d)
    BY <1>1, <2>1 DEF Dial, RecvWelcome, RecvRequest, RecvCancel
  <2>2. CASE GreetingFails(d) \/ SessionEnds(d)
    BY <1>0, <1>1, <1>2, <2>2 DEF GreetingFails, SessionEnds, EndSession
  <2>3. CASE SessionWrite(d)
    <3>1. sOut[d] # <<>> /\ sOut' = [sOut EXCEPT ![d] = Tail(@)]
      BY <2>3 DEF SessionWrite
    <3>2. CASE d = c
      <4>1. sOut'[c] = Tail(sOut[c]) /\ sOut[c] # <<>>
        BY <1>0, <3>1, <3>2
      <4>2. /\ IsFiniteSet(Beats(sOut'[c]))
            /\ Cardinality(Beats(sOut'[c])) <= Cardinality(Beats(sOut[c]))
        BY <1>0, <4>1, BeatsTail
      <4>3. Cardinality(Beats(sOut'[c])) \in Nat
        BY <4>2, FS_CardinalityType
      <4> QED
        BY <1>0, <4>2, <4>3 DEF FewBeats
    <3> QED
      BY <1>0, <1>1, <3>1, <3>2
  <2>4. CASE HeartbeatTick(d)
    <3>1. PICK m \in [type : {"heartbeat"}, idle : BOOLEAN] :
            sOut' = [sOut EXCEPT ![d] = Append(@, m)]
      BY <2>4 DEF HeartbeatTick
    <3>2. CASE d = c
      <4>1. sOut'[c] = Append(sOut[c], m) /\ m \in SessionMsg /\ m.type = "heartbeat"
        BY <1>0, <3>1, <3>2 DEF SessionMsg
      <4>2. Cardinality(Beats(sOut[c])) < MaxBeats
        BY <2>4, <3>2 DEF HeartbeatTick, Beats
      <4>3. /\ IsFiniteSet(Beats(sOut'[c]))
            /\ Cardinality(Beats(sOut'[c])) = Cardinality(Beats(sOut[c])) + 1
        BY <1>0, <4>1, BeatsAppend
      <4> QED
        BY <1>0, <4>2, <4>3 DEF FewBeats
    <3> QED
      BY <1>0, <1>1, <3>1, <3>2
  <2> QED
    BY <1>6, <2>1, <2>2, <2>3, <2>4 DEF SessionStep
<1>7. CASE (ServerNext /\ UNCHANGED sessionVars) \/ Breaks \/ UNCHANGED vars
  BY <1>1, <1>7 DEF Breaks, vars, sessionVars
<1>8. CASE SessionNext
  BY <1>1, <1>4, <1>5, <1>6, <1>8 DEF SessionNext
<1> QED
  BY <1>7, <1>8 DEF Next

\* No session ever holds more heartbeats than the bound allows.
LEMMA BeatsStayFew == Spec => [](\A c \in Conns : FewBeats(c))
<1>1. Init => \A c \in Conns : FewBeats(c)
  <2> SUFFICES ASSUME Init, NEW c \in Conns PROVE FewBeats(c)
    OBVIOUS
  <2>1. Beats(sOut[c]) = {}
    BY DEF Init, SessionInit, Beats
  <2> QED
    BY <2>1, FS_EmptySet, SessionAssumption DEF FewBeats
<1>2. Typed /\ (\A c \in Conns : FewBeats(c)) /\ [Next]_vars => (\A c \in Conns : FewBeats(c))'
  BY FewBeatsStep
<1>3. StreamInv => Typed
  BY DEF StreamInv, Ground, RouteInv
<1> QED
  BY <1>1, <1>2, <1>3, StreamAlways, PTL DEF Spec
-----------------------------------------------------------------------------
(* Room for every message *)

\* The channel of a handler holds every line of an answer, its end and the news
\* of a lost worker; a session's buffer every line and end of all the answers,
\* and its heartbeats.
Ample == /\ IsFiniteSet(Reqs)
         /\ PendCap >= Lines + 2
         /\ SessOutCap >= MaxBeats + Cardinality(Reqs) * (Lines + 1)

LEMMA ChannelHasRoom ==
  ASSUME Ample, ChannelInv, NEW r \in Reqs, ToldOnce(r), Ascends(ch[r], r),
         NEW m \in Reply, Of(m, r), \A a \in Msgs(ch[r], r) : Before(a, m),
         m.type = "lost" => ~Told(ch[r])
  PROVE  Len(ch[r]) < PendCap
<1>1. /\ ch[r] \in Seq(Reply) /\ OneLost(ch[r]) /\ \A i \in DOMAIN ch[r] : Of(ch[r][i], r)
  BY DEF ChannelInv, LostInv, Typed, TypeOK, ServerTypeOK, Buffers, ToldOnce, Channelled
<1>2. Ascends(Append(ch[r], m), r)
  BY <1>1, MsgsAppend
<1>3. OneLost(Append(ch[r], m))
  BY <1>1, OneLostAppend
<1>4. \A i \in DOMAIN Append(ch[r], m) : Of(Append(ch[r], m)[i], r)
  BY <1>1, OfAppend
<1>5. /\ Append(ch[r], m) \in Seq(Reply) /\ Len(ch[r]) \in Nat
      /\ Len(Append(ch[r], m)) = Len(ch[r]) + 1
  BY <1>1
<1>6. Len(Append(ch[r], m)) <= Lines + 2
  BY <1>2, <1>3, <1>4, <1>5, ChannelFits
<1> QED
  BY <1>5, <1>6, ServerAssumption, WireAssumption DEF Ample

LEMMA SessionHasRoom ==
  ASSUME Ample, Typed, NEW c \in Conns, FewBeats(c), \A r \in Reqs : Ascends(sOut[c], r),
         NEW m \in ChatReply, \A a \in Msgs(sOut[c], m.req) : Before(a, m)
  PROVE  Len(sOut[c]) < SessOutCap
<1> DEFINE t == Append(sOut[c], m)
           N == Cardinality(Reqs) * (Lines + 1)
<1>1. sOut[c] \in Seq(SessionMsg) /\ m \in SessionMsg /\ m.type # "heartbeat"
  BY DEF Typed, TypeOK, SessionTypeOK, Buffers, SessionMsg, ChatReply
<1>2. t \in Seq(SessionMsg) /\ Len(sOut[c]) \in Nat /\ Len(t) = Len(sOut[c]) + 1
  BY <1>1
<1>3. \A r \in Reqs : Ascends(t, r)
  <2>1. \A r : Of(m, r) => r = m.req
    BY DEF Of, ChatReply
  <2> QED
    BY <1>1, <2>1, MsgsAppend
<1>4. Cardinality(Beats(t)) = Cardinality(Beats(sOut[c])) /\ Cardinality(Beats(t)) <= MaxBeats
  BY <1>1, BeatsAppend DEF FewBeats
<1>5. Len(t) <= Cardinality(Beats(t)) + N /\ Cardinality(Beats(t)) \in Nat
  BY <1>2, <1>3, SessionFits DEF Ample
<1>6. N \in Nat
  BY FS_CardinalityType, WireAssumption DEF Ample
<1>7. SessOutCap >= MaxBeats + N
  BY DEF Ample
<1> HIDE DEF t, N
<1> QED
  BY <1>2, <1>4, <1>5, <1>6, <1>7, SessionAssumption

LEMMA NothingDropped ==
  ASSUME Ample, StreamInv, \A r \in Reqs : ToldOnce(r), \A c \in Conns : FewBeats(c),
         [Next]_vars
  PROVE  dropped' = dropped
<1>0. /\ ChannelInv /\ Typed /\ toServer \in [Conns -> Seq(ToServerMsg)]
      /\ orphans \in [Conns -> SUBSET Reqs] /\ pending \subseteq Reqs
      /\ sent \in [Reqs -> 0..Lines]
      /\ \A r \in Reqs : Flow(r) /\ Order(r) /\ Channelled(r)
      /\ \A r \in Reqs : task[r] # "none" => home[r] \in Conns
  BY DEF StreamInv, Ground, Streams, ChannelInv, LostInv, RouteInv, Typed, TypeOK, WireTypeOK,
     ServerTypeOK, SessionTypeOK, Buffers, HoldConns
<1>1. ASSUME NEW c \in Conns, RouteChatReply(c) PROVE dropped' = dropped
  <2> DEFINE m == Head(toServer[c])
  <2>1. /\ m.type \in {"chunk", "done"} /\ toServer[c] # <<>>
        /\ (m.req \in pending /\ ~(Len(ch[m.req]) < PendCap)) \/ dropped' = dropped
    BY <1>1 DEF RouteChatReply
  <2>2. m \in ToServerMsg /\ toServer[c] \in Seq(ToServerMsg)
    BY <1>0, <2>1, HeadTailProperties
  <2>3. m \in Reply /\ Of(m, m.req) /\ m.type # "lost"
    BY <2>1, <2>2 DEF ToServerMsg, SessionMsg, Reply, ChatReply, Of
  <2>4. ASSUME m.req \in pending PROVE Len(ch[m.req]) < PendCap
    <3>1. m \in Msgs(toServer[c], m.req) /\ m.req \in Reqs
      BY <1>0, <2>1, <2>2, <2>3, <2>4, MsgsTail
    <3>2. \A a \in Msgs(ch[m.req], m.req) : Before(a, m)
      BY <1>0, <2>4, <3>1 DEF Order, Precede, Way
    <3>3. Ascends(ch[m.req], m.req) /\ ToldOnce(m.req)
      BY <1>0, <3>1 DEF Order
    <3> HIDE DEF m
    <3> QED
      BY <1>0, <2>3, <3>1, <3>2, <3>3, ChannelHasRoom
  <2> QED
    BY <2>1, <2>4
<1>2. ASSUME NEW c \in Conns, NEW r \in Reqs, CleanupPush(c, r) PROVE dropped' = dropped
  <2>1. r \in orphans[c] /\ (~(Len(ch[r]) < PendCap) \/ dropped' = dropped)
    BY <1>2 DEF CleanupPush
  <2>2. Lost \in Reply /\ Of(Lost, r) /\ \A a : Before(a, Lost)
    BY DEF Lost, Reply, Of, Before
  <2>3. ~Told(ch[r]) /\ Ascends(ch[r], r)
    BY <1>0, <2>1 DEF ToldOnce, Order
  <2>4. Len(ch[r]) < PendCap
    BY <1>0, <2>2, <2>3, ChannelHasRoom
  <2> QED
    BY <2>1, <2>4
<1>3. ASSUME NEW r \in Reqs, TaskStep(r) PROVE dropped' = dropped
  <2> DEFINE c == home[r]
  <2>1. task[r] \in {"spawned"} \union Running /\ c \in Conns
    <3>1. task[r] \in {"spawned"} \union Running
      BY <1>3 DEF TaskStep, StartTask, CallFails, CallAnswered, ForwardLine, StreamEnds,
         Running
    <3> QED
      BY <1>0, <3>1 DEF Running
\* It has sent only lines, and fewer than the one it may send now.
  <2>2. \A a \in Msgs(sOut[c], r) : a.type = "chunk" /\ a.line \in 1..sent[r]
    <3>1. \A a \in Msgs(sOut[c], r) : Fits(a, r) /\ a.type \in {"chunk", "done"}
      BY <1>0, <2>1, WayTyped DEF StreamInv, Ground, Flow, Way
    <3> QED
      BY <2>1, <3>1 DEF Fits, Running
  <2>3. /\ \A q \in Reqs : Ascends(sOut[c], q)
        /\ FewBeats(c) /\ sent[r] \in Nat
    BY <1>0, <2>1 DEF Order
  <2> HIDE DEF c
  <2>4. ASSUME NEW m \in ChatReply, m.req = r, Send(c, m),
               m.type = "chunk" => m.line = sent[r] + 1
        PROVE  dropped' = dropped
    <3>1. ASSUME NEW a \in Msgs(sOut[c], r) PROVE Before(a, m)
      BY <2>2, <2>3, <2>4 DEF Before
    <3>2. Len(sOut[c]) < SessOutCap
      BY <1>0, <2>1, <2>3, <2>4, <3>1, SessionHasRoom
    <3> QED
      BY <2>4, <3>2 DEF Send
  <2>5. ASSUME NEW ok \in BOOLEAN, FinishTask(r, ok) PROVE dropped' = dropped
    <3>1. /\ Done(r, ok) \in ChatReply /\ Done(r, ok).req = r
          /\ Done(r, ok).type = "done"
      BY DEF Done, ChatReply
    <3>2. Send(c, Done(r, ok))
      BY <2>5 DEF FinishTask, c
    <3> QED
      BY <2>4, <3>1, <3>2
  <2>6. CASE ForwardLine(r)
    <3>1. sent[r] < Lines /\ Send(c, Chunk(r, sent[r] + 1))
      BY <2>6 DEF ForwardLine, c
    <3>2. /\ Chunk(r, sent[r] + 1) \in ChatReply /\ Chunk(r, sent[r] + 1).req = r
          /\ Chunk(r, sent[r] + 1).line = sent[r] + 1
      BY <2>3, <3>1, WireAssumption DEF Chunk, ChatReply
    <3> QED
      BY <2>4, <3>1, <3>2
  <2>7. CASE UNCHANGED dropped
    BY <2>7
  <2> QED
    BY <1>3, <2>5, <2>6, <2>7 DEF TaskStep, StartTask, CallFails, CallAnswered, StreamEnds,
       wireVars
<1>4. ASSUME NEW c \in Conns, ServeStep(c) \/ WriteOut(c) PROVE dropped' = dropped
  BY <1>1, <1>2, <1>4 DEF ServeStep, ReadHello, HelloFails, AddConn, SendWelcome,
     WelcomeFails, ReadHeartbeat, ReadFails, Unlink, CleanupCollect, RemoveAndClose,
     WriteOut, wireVars
<1>5. CASE \E r \in Reqs : HandlerStep(r)
  BY <1>5 DEF HandlerStep, ListCandidates, PickWorker, NoWorker, RegisterPending, Dispatch,
     DispatchTimesOut, EncodeFails, ReceiveChunk, ReceiveDone, ClientGone, CancelOnWorker,
     wireVars
<1>6. CASE (\E w \in Workers : Expire(w) \/ ReapOne(w)) \/ ReapScan \/ OrchestratorStops
  BY <1>6 DEF Expire, ReapOne, ReapScan, OrchestratorStops, wireVars
<1>7. CASE \E c \in Conns : Dial(c) \/ SessionStep(c)
  BY <1>7 DEF Dial, SessionStep, RecvWelcome, GreetingFails, SessionEnds, EndSession,
     HeartbeatTick, SessionWrite, RecvRequest, RecvCancel, wireVars
<1>8. CASE Breaks \/ UNCHANGED vars
  BY <1>8 DEF Breaks, LinkFails, vars, wireVars
<1> QED
  BY <1>3, <1>4, <1>5, <1>6, <1>7, <1>8 DEF Next, ServerNext, SessionNext

\* No message is lost in an orchestrator or a session whose buffers have room for
\* the answers, whatever the interleaving of readers and writers.
THEOREM AmpleLosesNothing ==
  ASSUME Ample
  PROVE  Spec => [](dropped = {})
<1>1. Init => dropped = {}
  BY DEF Init, WireInit
<1>2. StreamInv /\ (\A r \in Reqs : ToldOnce(r)) /\ (\A c \in Conns : FewBeats(c))
        /\ dropped = {} /\ [Next]_vars => (dropped = {})'
  BY NothingDropped
<1> QED
  BY <1>1, <1>2, StreamAlways, LostIsToldOnce, BeatsStayFew, PTL DEF Spec

\* A full buffer is the only way a stream that ends without error can miss a line:
\* with room for the answers, every such stream is llama-server's, verbatim.
THEOREM AmpleIsVerbatim ==
  ASSUME Ample
  PROVE  Spec => []Verbatim
<1>1. dropped = {} /\ CleanEndIsWhole => Verbatim
  BY DEF CleanEndIsWhole, Verbatim
<1> QED
  BY <1>1, AmpleLosesNothing, CleanEndStaysWhole, PTL
\* What a streaming handler may wait for when nothing is dropped: the end a cleanup
\* owes it or has pushed, its order, its run, its end of stream, or a cleanup of its
\* broken connection.
AnswerOrEnd(r) ==
  LET c == wc[r]
  IN  IF r \in pending
      THEN \/ link[c] = "down" \/ writer[c] = "failed"
           \/ Carries(wcOut[c], "request", r) \/ Carries(toWorker[c], "request", r)
           \/ task[r] \in {"spawned"} \union Running
           \/ Carries(sOut[c], "done", r) \/ Carries(toServer[c], "done", r)
           \/ Carries(ch[r], "done", r)
      ELSE (\E d \in Conns : r \in orphans[d]) \/ Told(ch[r])

\* With room for the answers, no end of stream is thrown away by either side: a
\* handler that streams has its answer or its end coming, or its connection is
\* broken.
THEOREM AmpleAnswersCome ==
  ASSUME Ample
  PROVE  Spec => [](\A r \in Reqs : h[r] = "streaming" => AnswerOrEnd(r))
<1>1. dropped = {} /\ EndIsComing /\ AnswerIsComing
        => \A r \in Reqs : h[r] = "streaming" => AnswerOrEnd(r)
  <2> SUFFICES ASSUME dropped = {}, EndIsComing, AnswerIsComing,
                      NEW r \in Reqs, h[r] = "streaming"
               PROVE  AnswerOrEnd(r)
    OBVIOUS
  <2>1. CASE r \in pending
    BY <2>1 DEF AnswerIsComing, AnswerOrEnd
  <2>2. CASE r \notin pending
    BY <2>2 DEF EndIsComing, AnswerOrEnd, Told
  <2> QED
    BY <2>1, <2>2
<1> QED
  BY <1>1, AmpleLosesNothing, CleanupTellsHandlers, AnswersKeepComing, PTL
=============================================================================
