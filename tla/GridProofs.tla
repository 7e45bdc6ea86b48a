---------------------------- MODULE GridProofs ----------------------------
(***************************************************************************)
(* Theorems about Grid, for any workers, connections, requests, stream     *)
(* lengths and buffer capacities.                                          *)
(***************************************************************************)
EXTENDS Grid, TLAPS, SequenceTheorems

(* Bounded buffers *)

LEMMA BufferPut ==
  ASSUME NEW K, NEW M, NEW cap \in Nat, NEW q, Buffers(q, K, M, cap),
         NEW k \in K, NEW m \in M, Len(q[k]) < cap
  PROVE  Buffers([q EXCEPT ![k] = Append(@, m)], K, M, cap)
<1> DEFINE p == [q EXCEPT ![k] = Append(@, m)]
<1>1. q \in [K -> Seq(M)] /\ \A j \in K : Len(q[j]) <= cap
  BY DEF Buffers
<1>2. Append(q[k], m) \in Seq(M) /\ Len(Append(q[k], m)) = Len(q[k]) + 1
  BY <1>1, AppendProperties
<1>3. p \in [K -> Seq(M)]
  BY <1>1, <1>2
<1>4. \A j \in K : Len(p[j]) <= cap
  BY <1>1, <1>2, LenProperties
<1> QED
  BY <1>3, <1>4 DEF Buffers

LEMMA BufferTake ==
  ASSUME NEW K, NEW M, NEW cap \in Nat, NEW q, Buffers(q, K, M, cap),
         NEW k \in K, q[k] # <<>>
  PROVE  /\ Buffers([q EXCEPT ![k] = Tail(@)], K, M, cap)
         /\ Head(q[k]) \in M
<1> DEFINE p == [q EXCEPT ![k] = Tail(@)]
<1>1. q \in [K -> Seq(M)] /\ \A j \in K : Len(q[j]) <= cap
  BY DEF Buffers
<1>2. /\ Head(q[k]) \in M
      /\ Tail(q[k]) \in Seq(M)
      /\ Len(Tail(q[k])) = Len(q[k]) - 1
  BY <1>1, HeadTailProperties
<1>3. p \in [K -> Seq(M)]
  BY <1>1, <1>2
<1>4. \A j \in K : Len(p[j]) <= cap
  BY <1>1, <1>2, LenProperties
<1> QED
  BY <1>2, <1>3, <1>4 DEF Buffers

LEMMA BufferClear ==
  ASSUME NEW K, NEW M, NEW cap \in Nat, NEW q, Buffers(q, K, M, cap), NEW k \in K
  PROVE  Buffers([q EXCEPT ![k] = <<>>], K, M, cap)
<1>1. <<>> \in Seq(M) /\ Len(<<>>) = 0
  BY EmptySeq
<1> QED
  BY <1>1 DEF Buffers

LEMMA BufferEmpty ==
  ASSUME NEW K, NEW M, NEW cap \in Nat
  PROVE  Buffers([k \in K |-> <<>>], K, M, cap)
<1>1. <<>> \in Seq(M) /\ Len(<<>>) = 0
  BY EmptySeq
<1> QED
  BY <1>1 DEF Buffers

\* A write that returns leaves the connection's buffer within its capacity.
LEMMA WireWrite ==
  ASSUME NEW M, NEW wire, Buffers(wire, Conns, M, WireCap),
         NEW c \in Conns, NEW m \in M, CanWrite(wire, c)
  PROVE  Buffers(Written(wire, c, m), Conns, M, WireCap)
<1>1. CASE link[c] = "up"
  BY <1>1, BufferPut, WireAssumption DEF CanWrite, Written
<1>2. CASE link[c] # "up"
  BY <1>2 DEF Written
<1> QED
  BY <1>1, <1>2
-----------------------------------------------------------------------------
(* Type correctness *)

\* The requests whose handler has picked a worker hold a connection, and the
\* goroutines of the workers belong to one.
HoldConns == /\ \A r \in Reqs : h[r] \in {"picked"} \union Active => wc[r] \in Conns
             /\ \A r \in Reqs : task[r] # "none" => home[r] \in Conns

Typed == TypeOK /\ HoldConns

ServerTyped == WireTypeOK /\ ServerTypeOK
               /\ \A r \in Reqs : h[r] \in {"picked"} \union Active => wc[r] \in Conns

LEMMA ServeTyped ==
  ASSUME ServerTyped, NEW c \in Conns, ServeStep(c) \/ WriteOut(c)
  PROVE  ServerTyped'
<1> USE OwnerAssumption, WireAssumption, ServerAssumption
    DEF ServerTyped, WireTypeOK, ServerTypeOK, handlerVars, wireVars, serverVars
<1>1. CASE ReadHello(c)
  <2>1. Buffers(toServer', Conns, ToServerMsg, WireCap) /\ Head(toServer[c]) \in ToServerMsg
    BY <1>1, BufferTake DEF ReadHello
  <2>2. CASE Head(toServer[c]).type = "hello"
    <3>1. Head(toServer[c]).model \in BOOLEAN
      BY <2>1, <2>2 DEF ToServerMsg, SessionMsg, ChatReply
    <3>2. registry' \in [Workers -> {None} \union Entry]
      <4>1. [model |-> Head(toServer[c]).model, idle |-> TRUE, fresh |-> TRUE] \in Entry
        BY <3>1 DEF Entry
      <4> QED
        BY <1>1, <2>2, <4>1 DEF ReadHello, Add
    <3> QED
      BY <1>1, <2>1, <2>2, <3>2 DEF ReadHello, SrvState
  <2>3. CASE Head(toServer[c]).type # "hello"
    BY <1>1, <2>1, <2>3 DEF ReadHello, SrvState
  <2> QED
    BY <2>2, <2>3
<1>2. CASE HelloFails(c)
  BY <1>2, BufferClear DEF HelloFails, SrvState
<1>3. CASE AddConn(c)
  BY <1>3 DEF AddConn, SrvState
<1>4. CASE SendWelcome(c)
  <2>1. [type |-> "welcome"] \in ToWorkerMsg
    BY DEF ToWorkerMsg
  <2>2. Buffers(toWorker', Conns, ToWorkerMsg, WireCap)
    BY <1>4, <2>1, WireWrite DEF SendWelcome
  <2> QED
    BY <1>4, <2>2 DEF SendWelcome, SrvState
<1>5. CASE WelcomeFails(c)
  BY <1>5 DEF WelcomeFails, SrvState
<1>6. CASE ReadHeartbeat(c)
  <2>1. Buffers(toServer', Conns, ToServerMsg, WireCap) /\ Head(toServer[c]) \in ToServerMsg
    BY <1>6, BufferTake DEF ReadHeartbeat
  <2>2. Head(toServer[c]).idle \in BOOLEAN
    BY <1>6, <2>1 DEF ReadHeartbeat, ToServerMsg, SessionMsg, ChatReply
  <2>3. registry' \in [Workers -> {None} \union Entry]
    BY <1>6, <2>2 DEF ReadHeartbeat, Heartbeat, Entry
  <2>4. srv' \in [Conns -> SrvState]
    BY <1>6 DEF ReadHeartbeat, AfterRead, SrvState
  <2> QED
    BY <1>6, <2>1, <2>3, <2>4 DEF ReadHeartbeat
<1>7. CASE RouteChatReply(c)
  <2> DEFINE m == Head(toServer[c])
  <2>1. Buffers(toServer', Conns, ToServerMsg, WireCap) /\ m \in ToServerMsg
    BY <1>7, BufferTake DEF RouteChatReply
  <2>2. m \in ChatReply /\ m.req \in Reqs /\ m.type \in {"chunk", "done"}
    BY <1>7, <2>1 DEF RouteChatReply, ToServerMsg, SessionMsg, ChatReply
  <2>3. srv' \in [Conns -> SrvState]
    BY <1>7 DEF RouteChatReply, AfterRead, SrvState
  <2>4. Buffers(ch', Reqs, Reply, PendCap)
    <3>1. CASE m.req \in pending /\ Len(ch[m.req]) < PendCap
      <4>1. m \in Reply
        BY <2>2 DEF Reply
      <4>2. Buffers([ch EXCEPT ![m.req] = Append(@, m)], Reqs, Reply, PendCap)
        BY <2>2, <3>1, <4>1, BufferPut
      <4> QED
        BY <1>7, <3>1, <4>2 DEF RouteChatReply
    <3>2. CASE ~(m.req \in pending /\ Len(ch[m.req]) < PendCap)
      BY <1>7, <3>2 DEF RouteChatReply
    <3> QED
      BY <3>1, <3>2
  <2>5. dropped' \subseteq Reqs \X {"chunk", "done"}
    BY <1>7, <2>2 DEF RouteChatReply
  <2> QED
    BY <1>7, <2>1, <2>3, <2>4, <2>5 DEF RouteChatReply
<1>8. CASE ReadFails(c)
  BY <1>8 DEF ReadFails, SrvState
<1>9. CASE Unlink(c)
  BY <1>9 DEF Unlink, SrvState
<1>10. CASE CleanupCollect(c)
  BY <1>10 DEF CleanupCollect, SrvState, PendingOf
<1>11. CASE \E r \in Reqs : CleanupPush(c, r)
  <2> PICK r \in Reqs : CleanupPush(c, r)
    BY <1>11
  <2>1. Lost \in Reply
    BY DEF Reply
  <2>2. Buffers(ch', Reqs, Reply, PendCap)
    <3>1. CASE h[r] \in Active /\ Len(ch[r]) < PendCap
      <4>1. Buffers([ch EXCEPT ![r] = Append(@, Lost)], Reqs, Reply, PendCap)
        BY <2>1, <3>1, BufferPut
      <4> QED
        BY <3>1, <4>1 DEF CleanupPush
    <3>2. CASE ~(h[r] \in Active /\ Len(ch[r]) < PendCap)
      BY <3>2 DEF CleanupPush
    <3> QED
      BY <3>1, <3>2
  <2>3. dropped' \subseteq Reqs \X {"chunk", "done"}
    BY DEF CleanupPush
  <2> QED
    BY <2>2, <2>3 DEF CleanupPush
<1>12. CASE RemoveAndClose(c)
  BY <1>12, BufferClear DEF RemoveAndClose, SrvState, Remove
<1>13. CASE WriteOut(c)
  <2>1. Buffers(wcOut', Conns, ChatOrder, ConnOutCap) /\ Head(wcOut[c]) \in ChatOrder
    BY <1>13, BufferTake DEF WriteOut
  <2>2. Buffers(toWorker', Conns, ToWorkerMsg, WireCap)
    BY <1>13, <2>1, WireWrite DEF WriteOut, ToWorkerMsg
  <2> QED
    BY <1>13, <2>1, <2>2 DEF WriteOut
<1> QED
  BY <1>1, <1>2, <1>3, <1>4, <1>5, <1>6, <1>7, <1>8, <1>9, <1>10, <1>11, <1>12,
     <1>13 DEF ServeStep

LEMMA ReaperTyped ==
  ASSUME ServerTyped, NEW w \in Workers, Expire(w) \/ ReapOne(w) \/ ReapScan
  PROVE  ServerTyped'
<1> USE DEF ServerTyped, WireTypeOK, ServerTypeOK, handlerVars, wireVars
<1>1. CASE Expire(w)
  <2>1. registry[w] \in Entry
    BY <1>1 DEF Expire
  <2>2. [registry[w] EXCEPT !.fresh = FALSE] \in Entry
    BY <2>1 DEF Entry
  <2>3. registry' \in [Workers -> {None} \union Entry]
    BY <1>1, <2>2 DEF Expire
  <2> QED
    BY <1>1, <2>3 DEF Expire
<1>2. CASE ReapOne(w)
  BY <1>2 DEF ReapOne, Remove
<1>3. CASE ReapScan
  BY <1>3 DEF ReapScan
<1> QED
  BY <1>1, <1>2, <1>3

\* Every return of a handler leaves it with an empty channel.
LEMMA ClosePendingTyped ==
  ASSUME ServerTyped, NEW r \in Reqs, NEW outcome \in Ended,
         ClosePending(r, outcome)
  PROVE  /\ h' \in [Reqs -> HandlerState]
         /\ pending' \subseteq Reqs
         /\ Buffers(ch', Reqs, Reply, PendCap)
         /\ \A q \in Reqs : h'[q] \in {"picked"} \union Active => h[q] = h'[q]
<1>1. Buffers(ch', Reqs, Reply, PendCap)
  BY BufferClear, ServerAssumption DEF ServerTyped, ServerTypeOK, ClosePending
<1> QED
  BY <1>1 DEF ServerTyped, ServerTypeOK, ClosePending, HandlerState, Active, Ended

LEMMA HandlerTyped ==
  ASSUME ServerTyped, NEW r \in Reqs, HandlerStep(r)
  PROVE  ServerTyped'
<1> USE ServerAssumption
    DEF ServerTyped, WireTypeOK, ServerTypeOK, connVars, wireVars
<1>1. CASE ListCandidates(r)
  BY <1>1 DEF ListCandidates, HandlerState, Active
<1>2. CASE PickWorker(r)
  <2> PICK w \in cand[r] : conns[w] # None /\ wc' = [wc EXCEPT ![r] = conns[w]]
    BY <1>2 DEF PickWorker
  <2>1. conns[w] \in Conns
    OBVIOUS
  <2> QED
    BY <1>2, <2>1 DEF PickWorker, HandlerState, Active
<1>3. CASE NoWorker(r)
  BY <1>3 DEF NoWorker, HandlerState, Active, Ended
<1>4. CASE RegisterPending(r)
  BY <1>4 DEF RegisterPending, HandlerState, Active
<1>5. CASE Dispatch(r)
  <2>1. wc[r] \in Conns /\ Len(wcOut[wc[r]]) < ConnOutCap
    BY <1>5 DEF Dispatch, CanSend, Active
  <2>2. [type |-> "request", req |-> r] \in ChatOrder
    BY DEF ChatOrder
  <2>3. Buffers(Queued(wc[r], "request", r), Conns, ChatOrder, ConnOutCap)
    BY <2>1, <2>2, BufferPut DEF Queued
  <2> QED
    BY <1>5, <2>3 DEF Dispatch, HandlerState, Active
<1>6. CASE DispatchTimesOut(r)
  BY <1>6, ClosePendingTyped DEF DispatchTimesOut, Ended
<1>7. CASE EncodeFails(r)
  BY <1>7, ClosePendingTyped DEF EncodeFails, Ended
<1>8. CASE ReceiveChunk(r)
  <2>1. Buffers(ch', Reqs, Reply, PendCap) /\ Head(ch[r]) \in Reply
    BY <1>8, BufferTake DEF ReceiveChunk
  <2>2. Head(ch[r]).line \in 1..Lines
    BY <1>8, <2>1 DEF ReceiveChunk, Reply, ChatReply, Lost
  <2>3. Append(got[r], Head(ch[r]).line) \in Seq(1..Lines)
    BY <2>2, AppendProperties
  <2>4. got' \in [Reqs -> Seq(1..Lines)]
    BY <1>8, <2>3 DEF ReceiveChunk
  <2> QED
    BY <1>8, <2>1, <2>4 DEF ReceiveChunk
<1>9. CASE ReceiveDone(r)
  <2>1. PICK outcome \in Ended : ClosePending(r, outcome)
    BY <1>9 DEF ReceiveDone, Ended
  <2> QED
    BY <1>9, <2>1, ClosePendingTyped DEF ReceiveDone
<1>10. CASE ClientGone(r)
  BY <1>10 DEF ClientGone, HandlerState, Active
<1>11. CASE CancelOnWorker(r)
  <2>1. wc[r] \in Conns
    BY <1>11 DEF CancelOnWorker, Active
  <2>2. [type |-> "cancel", req |-> r] \in ChatOrder
    BY DEF ChatOrder
  <2>3. Buffers(wcOut', Conns, ChatOrder, ConnOutCap)
    <3>1. CASE CanSend(wc[r])
      <4>1. Buffers(Queued(wc[r], "cancel", r), Conns, ChatOrder, ConnOutCap)
        BY <2>1, <2>2, <3>1, BufferPut DEF Queued, CanSend
      <4> QED
        BY <1>11, <3>1, <4>1 DEF CancelOnWorker
    <3>2. CASE ~CanSend(wc[r])
      BY <1>11, <3>2 DEF CancelOnWorker
    <3> QED
      BY <3>1, <3>2
  <2> QED
    BY <1>11, <2>3, ClosePendingTyped DEF CancelOnWorker, Ended
<1> QED
  BY <1>1, <1>2, <1>3, <1>4, <1>5, <1>6, <1>7, <1>8, <1>9, <1>10, <1>11
     DEF HandlerStep

LEMMA StopTyped ==
  ASSUME ServerTyped, OrchestratorStops
  PROVE  ServerTyped'
<1> USE DEF ServerTyped, WireTypeOK, ServerTypeOK, OrchestratorStops
<1>1. /\ Buffers(wcOut', Conns, ChatOrder, ConnOutCap)
      /\ Buffers(ch', Reqs, Reply, PendCap)
      /\ Buffers(toServer', Conns, ToServerMsg, WireCap)
  BY BufferEmpty, ServerAssumption, WireAssumption
<1>2. srv' \in [Conns -> SrvState] /\ h' \in [Reqs -> HandlerState]
  BY DEF SrvState, HandlerState, Ended
<1>3. \A r \in Reqs : h'[r] \in {"picked"} \union Active => h[r] = h'[r]
  BY DEF Active, Ended
<1> QED
  BY <1>1, <1>2, <1>3

SessionTyped == WireTypeOK /\ SessionTypeOK
                /\ \A r \in Reqs : task[r] # "none" => home[r] \in Conns

\* session.send keeps the buffer within its capacity.
LEMMA SendTyped ==
  ASSUME SessionTyped, NEW c \in Conns, NEW m \in ChatReply, Send(c, m)
  PROVE  /\ Buffers(sOut', Conns, SessionMsg, SessOutCap)
         /\ dropped' \subseteq Reqs \X {"chunk", "done"}
<1> USE SessionAssumption DEF SessionTyped, WireTypeOK, SessionTypeOK
<1>1. m \in SessionMsg /\ m.req \in Reqs /\ m.type \in {"chunk", "done"}
  BY DEF ChatReply, SessionMsg
<1>2. CASE sess[c] = "live" /\ Len(sOut[c]) < SessOutCap
  <2>1. Buffers([sOut EXCEPT ![c] = Append(@, m)], Conns, SessionMsg, SessOutCap)
    BY <1>1, <1>2, BufferPut
  <2> QED
    BY <1>2, <2>1 DEF Send
<1>3. CASE ~(sess[c] = "live" /\ Len(sOut[c]) < SessOutCap)
  BY <1>1, <1>3 DEF Send
<1> QED
  BY <1>2, <1>3

LEMMA LoopsTyped ==
  ASSUME SessionTyped, NEW c \in Conns, Dial(c) \/ SessionStep(c)
  PROVE  SessionTyped'
<1> USE WireAssumption, SessionAssumption
    DEF SessionTyped, WireTypeOK, SessionTypeOK, taskVars, wireVars
<1>1. CASE Dial(c)
  <2>1. [type |-> "hello", model |-> Owner[c] \in Loaded] \in ToServerMsg
    BY DEF ToServerMsg
  <2>2. /\ <<[type |-> "hello", model |-> Owner[c] \in Loaded]>> \in Seq(ToServerMsg)
        /\ Len(<<[type |-> "hello", model |-> Owner[c] \in Loaded]>>) = 1
    BY <2>1
  <2>3. Buffers(toServer', Conns, ToServerMsg, WireCap)
    BY <1>1, <2>2 DEF Dial, Buffers
  <2> QED
    BY <1>1, <2>3 DEF Dial
<1>2. CASE RecvWelcome(c)
  <2>1. Buffers(toWorker', Conns, ToWorkerMsg, WireCap)
    BY <1>2, BufferTake DEF RecvWelcome
  <2> QED
    BY <1>2, <2>1 DEF RecvWelcome
<1>3. CASE GreetingFails(c) \/ SessionEnds(c)
  <2>1. EndSession(c)
    BY <1>3 DEF GreetingFails, SessionEnds
  <2>2. /\ Buffers(toWorker', Conns, ToWorkerMsg, WireCap)
        /\ Buffers(sOut', Conns, SessionMsg, SessOutCap)
    BY <2>1, BufferClear DEF EndSession
  <2> QED
    BY <2>1, <2>2 DEF EndSession
<1>4. CASE HeartbeatTick(c)
  <2> PICK idle \in BOOLEAN :
        sOut' = [sOut EXCEPT ![c] = Append(@, [type |-> "heartbeat", idle |-> idle])]
    BY <1>4 DEF HeartbeatTick
  <2>1. [type |-> "heartbeat", idle |-> idle] \in SessionMsg
    BY DEF SessionMsg
  <2>2. Buffers(sOut', Conns, SessionMsg, SessOutCap)
    BY <1>4, <2>1, BufferPut DEF HeartbeatTick
  <2> QED
    BY <1>4, <2>2 DEF HeartbeatTick
<1>5. CASE SessionWrite(c)
  <2>1. Buffers(sOut', Conns, SessionMsg, SessOutCap) /\ Head(sOut[c]) \in SessionMsg
    BY <1>5, BufferTake DEF SessionWrite
  <2>2. Buffers(toServer', Conns, ToServerMsg, WireCap)
    BY <1>5, <2>1, WireWrite DEF SessionWrite, ToServerMsg
  <2> QED
    BY <1>5, <2>1, <2>2 DEF SessionWrite
<1>6. CASE RecvRequest(c)
  <2> DEFINE m == Head(toWorker[c])
  <2>1. Buffers(toWorker', Conns, ToWorkerMsg, WireCap) /\ m \in ToWorkerMsg
    BY <1>6, BufferTake DEF RecvRequest
  <2>2. m.req \in Reqs
    BY <1>6, <2>1 DEF RecvRequest, ToWorkerMsg, ChatOrder
  <2> QED
    BY <1>6, <2>1, <2>2 DEF RecvRequest, TaskState
<1>7. CASE RecvCancel(c)
  <2> DEFINE m == Head(toWorker[c])
  <2>1. Buffers(toWorker', Conns, ToWorkerMsg, WireCap) /\ m \in ToWorkerMsg
    BY <1>7, BufferTake DEF RecvCancel
  <2> QED
    BY <1>7, <2>1 DEF RecvCancel
<1> QED
  BY <1>1, <1>2, <1>3, <1>4, <1>5, <1>6, <1>7 DEF SessionStep

LEMMA TaskTyped ==
  ASSUME SessionTyped, NEW r \in Reqs, TaskStep(r)
  PROVE  SessionTyped'
<1> USE WireAssumption DEF SessionTyped, WireTypeOK, SessionTypeOK, wireVars
<1>1. ASSUME NEW ok \in BOOLEAN, FinishTask(r, ok), task[r] # "none"
      PROVE  SessionTyped'
  <2>1. Done(r, ok) \in ChatReply /\ home[r] \in Conns
    BY <1>1 DEF Done, ChatReply
  <2>2. /\ Buffers(sOut', Conns, SessionMsg, SessOutCap)
        /\ dropped' \subseteq Reqs \X {"chunk", "done"}
    BY <1>1, <2>1, SendTyped DEF FinishTask
  <2> QED
    BY <1>1, <2>2 DEF FinishTask, TaskState, Finished
<1>2. CASE StartTask(r)
  <2>1. CASE Owner[home[r]] \in Loaded
    BY <1>2, <2>1 DEF StartTask, TaskState, Running
  <2>2. CASE Owner[home[r]] \notin Loaded
    BY <1>1, <1>2, <2>2 DEF StartTask
  <2> QED
    BY <2>1, <2>2
<1>3. CASE CallFails(r)
  BY <1>1, <1>3 DEF CallFails
<1>4. CASE CallAnswered(r)
  BY <1>4 DEF CallAnswered, TaskState, Running
<1>5. CASE ForwardLine(r)
  <2>1. sent[r] + 1 \in 1..Lines
    BY <1>5 DEF ForwardLine
  <2>2. Chunk(r, sent[r] + 1) \in ChatReply /\ home[r] \in Conns
    BY <1>5, <2>1 DEF ForwardLine, Chunk, ChatReply
  <2>3. /\ Buffers(sOut', Conns, SessionMsg, SessOutCap)
        /\ dropped' \subseteq Reqs \X {"chunk", "done"}
    BY <1>5, <2>2, SendTyped DEF ForwardLine
  <2> QED
    BY <1>5, <2>1, <2>3 DEF ForwardLine
<1>6. CASE StreamEnds(r)
  BY <1>1, <1>6 DEF StreamEnds
<1> QED
  BY <1>2, <1>3, <1>4, <1>5, <1>6 DEF TaskStep

LEMMA TypedInit == Init => Typed
<1> SUFFICES ASSUME Init PROVE Typed
  OBVIOUS
<1> USE DEF Init
<1>1. WireTypeOK
  BY BufferEmpty, WireAssumption DEF WireInit, WireTypeOK
<1>2. ServerTypeOK
  <2>1. /\ Buffers(wcOut, Conns, ChatOrder, ConnOutCap)
        /\ Buffers(ch, Reqs, Reply, PendCap)
    BY BufferEmpty, ServerAssumption DEF ServerInit
  <2>2. <<>> \in Seq(1..Lines)
    BY EmptySeq
  <2> QED
    BY <2>1, <2>2 DEF ServerInit, ServerTypeOK, SrvState, HandlerState
<1>3. SessionTypeOK
  <2>1. Buffers(sOut, Conns, SessionMsg, SessOutCap)
    BY BufferEmpty, SessionAssumption DEF SessionInit
  <2> QED
    BY <2>1, WireAssumption DEF SessionInit, SessionTypeOK, TaskState
<1>4. HoldConns
  BY DEF ServerInit, SessionInit, HoldConns, Active
<1> QED
  BY <1>1, <1>2, <1>3, <1>4 DEF Typed, TypeOK

LEMMA TypedStep == Typed /\ [Next]_vars => Typed'
<1> SUFFICES ASSUME Typed, [Next]_vars PROVE Typed'
  OBVIOUS
<1>1. ServerTyped /\ SessionTyped
  BY DEF Typed, TypeOK, HoldConns, ServerTyped, SessionTyped
<1>2. CASE ServerNext /\ UNCHANGED sessionVars
  <2>1. ServerTyped'
    <3>1. CASE \E c \in Conns : ServeStep(c) \/ WriteOut(c)
      BY <1>1, <3>1, ServeTyped
    <3>2. CASE \E r \in Reqs : HandlerStep(r)
      BY <1>1, <3>2, HandlerTyped
    <3>3. CASE \E w \in Workers : Expire(w) \/ ReapOne(w)
      BY <1>1, <3>3, ReaperTyped
    <3>4. CASE ReapScan
      BY <1>1, <3>4, ReaperTyped DEF ReapScan
    <3>5. CASE OrchestratorStops
      BY <1>1, <3>5, StopTyped
    <3> QED
      BY <1>2, <3>1, <3>2, <3>3, <3>4, <3>5 DEF ServerNext
  <2> QED
    BY <1>1, <1>2, <2>1
       DEF Typed, TypeOK, HoldConns, ServerTyped, SessionTyped, SessionTypeOK,
           sessionVars
<1>3. CASE SessionNext /\ UNCHANGED serverVars
  <2>1. SessionTyped'
    BY <1>1, <1>3, LoopsTyped, TaskTyped DEF SessionNext
  <2> QED
    BY <1>1, <1>3, <2>1
       DEF Typed, TypeOK, HoldConns, ServerTyped, SessionTyped, ServerTypeOK,
           serverVars
<1>4. CASE Breaks
  BY <1>4 DEF Typed, TypeOK, HoldConns, Breaks, LinkFails, WireTypeOK,
              ServerTypeOK, SessionTypeOK, serverVars, sessionVars
<1>5. CASE UNCHANGED vars
  BY <1>5 DEF Typed, TypeOK, HoldConns, vars, WireTypeOK, ServerTypeOK,
              SessionTypeOK, wireVars, serverVars, sessionVars
<1> QED
  BY <1>2, <1>3, <1>4, <1>5 DEF Next

\* In every reachable state each variable has its type, and no buffer exceeds
\* its capacity: the channels of 64 and 256 messages and the kernel's buffers
\* never grow past what send, routeChatReply and the write loops allow.
THEOREM TypeCorrect == Spec => []TypeOK
<1>1. Init => Typed
  BY TypedInit
<1>2. Typed /\ [Next]_vars => Typed'
  BY TypedStep
<1>3. Typed => TypeOK
  BY DEF Typed
<1> QED
  BY <1>1, <1>2, <1>3, PTL DEF Spec
============================================================================
