------------------------- MODULE GridSafetyProofs -------------------------
(***************************************************************************)
(* Safety theorems about Grid: the maps of the orchestrator, the cleanup   *)
(* of a lost connection and the greeting.                                  *)
(***************************************************************************)
EXTENDS GridProofs

(* The map of connections *)

Served == {"listed", "serving", "closing"}

\* What a step can do to conns, srv and registry, whoever takes it.
Quiet == UNCHANGED <<conns, srv>>

Progress(c) ==
  /\ conns' = conns
  /\ \/ srv[c] \in {"hello"} /\ srv' = [srv EXCEPT ![c] = "added"]
     \/ srv[c] \in {"hello"} /\ srv' = [srv EXCEPT ![c] = "gone"]
     \/ srv[c] = "listed" /\ srv' = [srv EXCEPT ![c] = "serving"]
     \/ srv[c] \in {"listed", "serving"} /\ srv' = [srv EXCEPT ![c] = "closing"]
     \/ srv[c] = "unlinked" /\ srv' = [srv EXCEPT ![c] = "sweeping"]
     \/ srv[c] = "sweeping" /\ srv' = [srv EXCEPT ![c] = "gone"]

\* Only serveWorker moves a connection along, and only AddConn and Unlink touch
\* conns, as long as the orchestrator runs.
LEMMA ConnSteps ==
  ASSUME Typed, Next
  PROVE  \/ Quiet
         \/ \E c \in Conns : Progress(c) \/ AddConn(c) \/ Unlink(c)
         \/ OrchestratorStops
<1> USE DEF Quiet
<1>1. CASE SessionNext /\ UNCHANGED serverVars
  BY <1>1 DEF serverVars
<1>2. CASE Breaks
  BY <1>2 DEF Breaks, serverVars
<1>3. CASE \E r \in Reqs : HandlerStep(r)
  BY <1>3 DEF HandlerStep, connVars, ListCandidates, PickWorker, NoWorker,
     RegisterPending, Dispatch, DispatchTimesOut, EncodeFails, ReceiveChunk,
     ReceiveDone, ClientGone, CancelOnWorker
<1>4. CASE \E w \in Workers : Expire(w) \/ ReapOne(w)
  BY <1>4 DEF Expire, ReapOne
<1>5. CASE ReapScan \/ OrchestratorStops
  BY <1>5 DEF ReapScan
<1>6. ASSUME NEW c \in Conns, ServeStep(c) \/ WriteOut(c)
      PROVE  Quiet \/ Progress(c) \/ AddConn(c) \/ Unlink(c)
  <2> srv \in [Conns -> SrvState]
    BY DEF Typed, TypeOK, ServerTypeOK
  <2>1. CASE ReadHello(c) \/ HelloFails(c)
    BY <2>1 DEF ReadHello, HelloFails, Progress
  <2>2. CASE SendWelcome(c) \/ WelcomeFails(c) \/ ReadFails(c)
    BY <2>2 DEF SendWelcome, WelcomeFails, ReadFails, Progress
  <2>3. CASE ReadHeartbeat(c) \/ RouteChatReply(c)
    <3>1. conns' = conns /\ srv' = AfterRead(c) /\ srv[c] = "serving"
      BY <2>3 DEF ReadHeartbeat, RouteChatReply
    <3> QED
      BY <3>1 DEF AfterRead, Progress
  <2>4. CASE CleanupCollect(c) \/ RemoveAndClose(c)
    BY <2>4 DEF CleanupCollect, RemoveAndClose, Progress
  <2>5. CASE (\E r \in Reqs : CleanupPush(c, r)) \/ WriteOut(c)
    BY <2>5 DEF CleanupPush, WriteOut
  <2>6. CASE AddConn(c) \/ Unlink(c)
    BY <2>6
  <2> QED
    BY <1>6, <2>1, <2>2, <2>3, <2>4, <2>5, <2>6 DEF ServeStep
<1> QED
  BY <1>1, <1>2, <1>3, <1>4, <1>5, <1>6 DEF Next, ServerNext

\* pickWorker never hands out a connection that serveWorker has left.
THEOREM ConnsStayAlive == Spec => []ConnsAlive
<1> DEFINE Inv == Typed /\ ConnsAlive
<1>1. Init => Inv
  BY TypedInit DEF Init, ServerInit, ConnsAlive
<1>2. Inv /\ [Next]_vars => Inv'
  <2> SUFFICES ASSUME Inv, [Next]_vars PROVE ConnsAlive'
    BY TypedStep
  <2> USE NoneAssumption, OwnerAssumption DEF ConnsAlive
  <2>0. srv \in [Conns -> SrvState] /\ conns \in [Workers -> {None} \union Conns]
    BY DEF Typed, TypeOK, ServerTypeOK
  <2>1. CASE Quiet
    BY <2>1 DEF Quiet
  <2>2. ASSUME NEW c \in Conns, Progress(c) PROVE ConnsAlive'
    BY <2>0, <2>2 DEF Progress
  <2>3. ASSUME NEW c \in Conns, AddConn(c) PROVE ConnsAlive'
    BY <2>0, <2>3 DEF AddConn
  <2>4. ASSUME NEW c \in Conns, Unlink(c) PROVE ConnsAlive'
    BY <2>0, <2>4 DEF Unlink
  <2>5. CASE OrchestratorStops
    BY <2>0, <2>5 DEF OrchestratorStops
  <2>6. CASE UNCHANGED vars
    BY <2>6 DEF vars, serverVars
  <2> QED
    BY <2>1, <2>2, <2>3, <2>4, <2>5, <2>6, ConnSteps
<1>3. Inv => ConnsAlive
  OBVIOUS
<1> QED
  BY <1>1, <1>2, <1>3, PTL DEF Spec

\* A served connection leaves conns only by the doing of a namesake: a worker
\* that never redials is never forgotten while it is served.
THEOREM LostOnlyByNamesake == Spec => []LostOnlyToNamesake
<1> DEFINE Inv == Typed /\ LostOnlyToNamesake
<1>1. Init => Inv
  BY TypedInit DEF Init, ServerInit, LostOnlyToNamesake
<1>2. Inv /\ [Next]_vars => Inv'
  <2> SUFFICES ASSUME Inv, [Next]_vars PROVE LostOnlyToNamesake'
    BY TypedStep
  <2> USE OwnerAssumption DEF LostOnlyToNamesake, Namesakes, Past
  <2>0. srv \in [Conns -> SrvState] /\ conns \in [Workers -> {None} \union Conns]
    BY DEF Typed, TypeOK, ServerTypeOK
  <2>1. CASE Quiet
    BY <2>1 DEF Quiet
  <2>2. ASSUME NEW c \in Conns, Progress(c) PROVE LostOnlyToNamesake'
    BY <2>0, <2>2 DEF Progress
  <2>3. ASSUME NEW c \in Conns, AddConn(c) PROVE LostOnlyToNamesake'
    BY <2>0, <2>3 DEF AddConn
  <2>4. ASSUME NEW c \in Conns, Unlink(c) PROVE LostOnlyToNamesake'
    BY <2>0, <2>4 DEF Unlink
  <2>5. CASE OrchestratorStops
    BY <2>0, <2>5 DEF OrchestratorStops
  <2>6. CASE UNCHANGED vars
    BY <2>6 DEF vars, serverVars
  <2> QED
    BY <2>1, <2>2, <2>3, <2>4, <2>5, <2>6, ConnSteps
<1>3. Inv => LostOnlyToNamesake
  OBVIOUS
<1> QED
  BY <1>1, <1>2, <1>3, PTL DEF Spec

\* A worker that never dials a second connection is in the map as long as it is
\* served: redialling is the only way a live worker disappears from it.
THEOREM UnlessRedialled ==
  ASSUME \A c, d \in Conns : Owner[c] = Owner[d] => c = d
  PROVE  Spec => []LiveIsListed
<1>1. LostOnlyToNamesake => LiveIsListed
  BY DEF LostOnlyToNamesake, LiveIsListed, Namesakes
<1> QED
  BY <1>1, LostOnlyByNamesake, PTL
-----------------------------------------------------------------------------
(* The registry *)

\* A registry entry outlives no connection of its worker.
THEOREM RegistryStaysOwned == Spec => []RegistryOwned
<1> DEFINE Inv == Typed /\ RegistryOwned
<1>1. Init => Inv
  BY TypedInit DEF Init, ServerInit, RegistryOwned
<1>2. Inv /\ [Next]_vars => Inv'
  <2> SUFFICES ASSUME Inv, [Next]_vars PROVE RegistryOwned'
    BY TypedStep
  <2> USE OwnerAssumption DEF RegistryOwned
  <2>0. /\ srv \in [Conns -> SrvState]
        /\ registry \in [Workers -> {None} \union Entry]
    BY DEF Typed, TypeOK, ServerTypeOK
  <2>1. ASSUME UNCHANGED srv,
               \A w \in Workers : registry[w] = None => registry'[w] = None
        PROVE  RegistryOwned'
    BY <2>1
  <2>2. CASE SessionNext /\ UNCHANGED serverVars
    BY <2>1, <2>2 DEF serverVars
  <2>3. CASE Breaks
    BY <2>1, <2>3 DEF Breaks, serverVars
  <2>4. CASE UNCHANGED vars
    BY <2>1, <2>4 DEF vars, serverVars
  <2>5. CASE \E r \in Reqs : HandlerStep(r)
    BY <2>1, <2>5 DEF HandlerStep, connVars, ListCandidates, PickWorker, NoWorker,
       RegisterPending, Dispatch, DispatchTimesOut, EncodeFails, ReceiveChunk,
       ReceiveDone, ClientGone, CancelOnWorker
  <2>6. CASE (\E w \in Workers : Expire(w) \/ ReapOne(w)) \/ ReapScan
    BY <2>0, <2>1, <2>6 DEF Expire, ReapOne, ReapScan, Remove
  <2>7. ASSUME NEW c \in Conns, ServeStep(c) \/ WriteOut(c)
        PROVE  RegistryOwned'
    <3>1. CASE ReadHello(c)
      BY <2>0, <3>1 DEF ReadHello, Add
    <3>2. CASE HelloFails(c)
      BY <2>0, <3>2 DEF HelloFails
    <3>3. CASE AddConn(c) \/ Unlink(c) \/ CleanupCollect(c)
      BY <2>0, <3>3 DEF AddConn, Unlink, CleanupCollect
    <3>4. CASE SendWelcome(c) \/ WelcomeFails(c) \/ ReadFails(c)
      BY <2>0, <3>4 DEF SendWelcome, WelcomeFails, ReadFails
    <3>5. CASE ReadHeartbeat(c)
      BY <2>0, <3>5 DEF ReadHeartbeat, AfterRead, Heartbeat
    <3>6. CASE RouteChatReply(c)
      BY <2>0, <3>6 DEF RouteChatReply, AfterRead
    <3>7. CASE (\E r \in Reqs : CleanupPush(c, r)) \/ WriteOut(c)
      BY <2>1, <3>7 DEF CleanupPush, WriteOut
    <3>8. CASE RemoveAndClose(c)
      BY <2>0, <3>8 DEF RemoveAndClose, Remove
    <3> QED
      BY <2>7, <3>1, <3>2, <3>3, <3>4, <3>5, <3>6, <3>7, <3>8 DEF ServeStep
  <2>8. CASE OrchestratorStops
    BY <2>8 DEF OrchestratorStops
  <2> QED
    BY <2>2, <2>3, <2>4, <2>5, <2>6, <2>7, <2>8 DEF Next, ServerNext
<1>3. Inv => RegistryOwned
  OBVIOUS
<1> QED
  BY <1>1, <1>2, <1>3, PTL DEF Spec
-----------------------------------------------------------------------------
(* Pending requests *)

\* What a serveWorker or writer goroutine can do to the handlers' state.
LEMMA HandlersUntouched ==
  ASSUME NEW c \in Conns, ServeStep(c) \/ WriteOut(c)
  PROVE  h' = h /\ pending' \subseteq pending
BY DEF ServeStep, handlerVars, ReadHello, HelloFails, AddConn, SendWelcome,
   WelcomeFails, ReadHeartbeat, RouteChatReply, ReadFails, Unlink,
   CleanupCollect, CleanupPush, RemoveAndClose, WriteOut

LEMMA PendingStep == Typed /\ PendingActive /\ [Next]_vars => PendingActive'
<1> SUFFICES ASSUME Typed, PendingActive, [Next]_vars PROVE PendingActive'
  OBVIOUS
<1> USE DEF PendingActive
<1>1. ASSUME h' = h, pending' \subseteq pending PROVE PendingActive'
  BY <1>1
<1>2. CASE (SessionNext /\ UNCHANGED serverVars) \/ Breaks \/ UNCHANGED vars
  BY <1>1, <1>2 DEF Breaks, vars, serverVars
<1>3. CASE \E c \in Conns : ServeStep(c) \/ WriteOut(c)
  BY <1>1, <1>3, HandlersUntouched
<1>4. CASE (\E w \in Workers : Expire(w) \/ ReapOne(w)) \/ ReapScan
  BY <1>1, <1>4 DEF Expire, ReapOne, ReapScan, handlerVars
<1>5. ASSUME NEW r \in Reqs, HandlerStep(r) PROVE PendingActive'
  <2>1. h \in [Reqs -> HandlerState] /\ pending \subseteq Reqs
    BY DEF Typed, TypeOK, ServerTypeOK
  <2>2. CASE ListCandidates(r) \/ PickWorker(r) \/ NoWorker(r)
    BY <2>1, <2>2 DEF ListCandidates, PickWorker, NoWorker, Active
  <2>3. CASE RegisterPending(r) \/ Dispatch(r) \/ ClientGone(r)
    BY <2>1, <2>3 DEF RegisterPending, Dispatch, ClientGone, Active
  <2>4. CASE ReceiveChunk(r)
    BY <2>4 DEF ReceiveChunk
  <2>5. CASE \E outcome \in Ended : ClosePending(r, outcome)
    BY <2>1, <2>5 DEF ClosePending
  <2> QED
    BY <1>5, <2>2, <2>3, <2>4, <2>5
       DEF HandlerStep, DispatchTimesOut, EncodeFails, ReceiveDone,
           CancelOnWorker, Ended
<1>6. CASE OrchestratorStops
  BY <1>6 DEF OrchestratorStops
<1> QED
  BY <1>2, <1>3, <1>4, <1>5, <1>6 DEF Next, ServerNext

\* The pending map holds no request whose handler has returned.
THEOREM PendingStaysActive == Spec => []PendingActive
<1>1. Init => Typed /\ PendingActive
  BY TypedInit DEF Init, ServerInit, PendingActive
<1>2. Typed /\ PendingActive /\ [Next]_vars => (Typed /\ PendingActive)'
  BY TypedStep, PendingStep
<1> QED
  BY <1>1, <1>2, PTL DEF Spec
-----------------------------------------------------------------------------
(* A cleanup wakes every handler it unregisters *)

Told(s) == \E i \in DOMAIN s : s[i].type = "lost"

LEMMA ToldAppend ==
  ASSUME NEW s \in Seq(Reply), NEW m \in Reply
  PROVE  /\ Told(s) => Told(Append(s, m))
         /\ m.type = "lost" => Told(Append(s, m))
<1>1. /\ Append(s, m) \in Seq(Reply)
      /\ Len(Append(s, m)) = Len(s) + 1
      /\ \A i \in 1..Len(s) : Append(s, m)[i] = s[i]
      /\ Append(s, m)[Len(s) + 1] = m
  BY AppendProperties
<1>2. DOMAIN s = 1..Len(s) /\ DOMAIN Append(s, m) = 1..(Len(s) + 1) /\ Len(s) \in Nat
  BY <1>1, LenProperties
<1> QED
  BY <1>1, <1>2 DEF Told

LEMMA ToldTail ==
  ASSUME NEW s \in Seq(Reply), s # <<>>, Head(s).type # "lost", Told(s)
  PROVE  Told(Tail(s))
<1>1. /\ Tail(s) \in Seq(Reply)
      /\ Len(Tail(s)) = Len(s) - 1
      /\ \A i \in 1..Len(Tail(s)) : Tail(s)[i] = s[i + 1]
  BY HeadTailProperties
<1>2. DOMAIN s = 1..Len(s) /\ DOMAIN Tail(s) = 1..(Len(s) - 1) /\ Len(s) \in Nat
  BY <1>1, LenProperties
<1>3. PICK i \in DOMAIN s : s[i].type = "lost"
  BY DEF Told
<1>4. i # 1
  BY <1>3
<1>5. i - 1 \in 1..Len(Tail(s)) /\ Tail(s)[i - 1] = s[i]
  BY <1>1, <1>2, <1>3, <1>4
<1> QED
  BY <1>1, <1>2, <1>3, <1>5 DEF Told

\* Only between its collection and its last push does a cleanup owe anything.
OrphansOwed == \A c \in Conns : srv[c] # "sweeping" => orphans[c] = {}

EndKnown(r) == \/ \E c \in Conns : r \in orphans[c]
               \/ Told(ch[r])
               \/ <<r, "done">> \in dropped

Waiting(r) == h[r] \in {"pended", "streaming"} /\ r \notin pending

EndInv == Typed /\ OrphansOwed /\ \A r \in Reqs : Waiting(r) => EndKnown(r)

LEMMA EndInvInit == Init => EndInv
<1> SUFFICES ASSUME Init PROVE EndInv
  OBVIOUS
<1>1. Typed
  BY TypedInit
<1>2. OrphansOwed /\ \A r \in Reqs : ~Waiting(r)
  BY DEF Init, ServerInit, OrphansOwed, Waiting
<1> QED
  BY <1>1, <1>2 DEF EndInv

LEMMA EndInvServe ==
  ASSUME EndInv, NEW c \in Conns, ServeStep(c) \/ WriteOut(c)
  PROVE  OrphansOwed' /\ \A r \in Reqs : Waiting(r)' => EndKnown(r)'
<1> USE DEF EndInv, OrphansOwed, Waiting, EndKnown, handlerVars, wireVars
<1>0. /\ srv \in [Conns -> SrvState]
      /\ orphans \in [Conns -> SUBSET Reqs]
      /\ ch \in [Reqs -> Seq(Reply)]
  BY DEF Typed, TypeOK, ServerTypeOK, Buffers
<1>1. CASE ReadHello(c) \/ HelloFails(c) \/ AddConn(c) \/ SendWelcome(c)
  BY <1>0, <1>1 DEF ReadHello, HelloFails, AddConn, SendWelcome
<1>2. CASE WelcomeFails(c) \/ ReadFails(c) \/ Unlink(c) \/ WriteOut(c)
  BY <1>0, <1>2 DEF WelcomeFails, ReadFails, Unlink, WriteOut
<1>3. CASE ReadHeartbeat(c)
  BY <1>0, <1>3 DEF ReadHeartbeat, AfterRead
<1>4. CASE RouteChatReply(c)
  <2>1. OrphansOwed'
    BY <1>0, <1>4 DEF RouteChatReply, AfterRead
  <2>2. ASSUME NEW r \in Reqs, Waiting(r)' PROVE EndKnown(r)'
    <3>1. Waiting(r) /\ dropped \subseteq dropped' /\ orphans' = orphans
      BY <1>4, <2>2 DEF RouteChatReply
    <3>2. ch'[r] = ch[r]
      BY <1>0, <1>4, <3>1 DEF RouteChatReply
    <3> QED
      BY <3>1, <3>2
  <2> QED
    BY <2>1, <2>2
<1>5. CASE CleanupCollect(c)
  <2>1. OrphansOwed'
    BY <1>0, <1>5 DEF CleanupCollect
  <2>2. ASSUME NEW r \in Reqs, Waiting(r)' PROVE EndKnown(r)'
    <3>1. CASE r \in PendingOf(Owner[c])
      BY <1>0, <1>5, <3>1 DEF CleanupCollect
    <3>2. CASE r \notin PendingOf(Owner[c])
      BY <1>0, <1>5, <2>2, <3>2 DEF CleanupCollect
    <3> QED
      BY <3>1, <3>2
  <2> QED
    BY <2>1, <2>2
<1>6. ASSUME NEW q \in Reqs, CleanupPush(c, q)
      PROVE  OrphansOwed' /\ \A r \in Reqs : Waiting(r)' => EndKnown(r)'
  <2>1. OrphansOwed'
    BY <1>0, <1>6 DEF CleanupPush
  <2>2. ASSUME NEW r \in Reqs, Waiting(r)' PROVE EndKnown(r)'
    <3>1. Waiting(r) /\ dropped \subseteq dropped'
      BY <1>6, <2>2 DEF CleanupPush
    <3>2. CASE r = q
      <4>1. h[r] \in Active
        BY <3>1 DEF Active
      <4>2. CASE Len(ch[r]) < PendCap
        <5>1. ch'[r] = Append(ch[r], Lost)
          BY <1>0, <1>6, <3>2, <4>1, <4>2 DEF CleanupPush
        <5>2. Told(Append(ch[r], Lost))
          BY <1>0, ToldAppend DEF Lost, Reply
        <5> QED
          BY <5>1, <5>2
      <4>3. CASE ~(Len(ch[r]) < PendCap)
        BY <1>6, <3>2, <4>1, <4>3 DEF CleanupPush
      <4> QED
        BY <4>2, <4>3
    <3>3. CASE r # q
      <4>1. ch'[r] = ch[r] /\ \A d \in Conns : r \in orphans[d] => r \in orphans'[d]
        BY <1>0, <1>6, <3>3 DEF CleanupPush
      <4> QED
        BY <3>1, <4>1
    <3> QED
      BY <3>2, <3>3
  <2> QED
    BY <2>1, <2>2
<1>7. CASE RemoveAndClose(c)
  BY <1>0, <1>7 DEF RemoveAndClose
<1> QED
  BY <1>1, <1>2, <1>3, <1>4, <1>5, <1>6, <1>7 DEF ServeStep

LEMMA EndInvHandler ==
  ASSUME EndInv, NEW q \in Reqs, HandlerStep(q)
  PROVE  OrphansOwed' /\ \A r \in Reqs : Waiting(r)' => EndKnown(r)'
<1> USE DEF EndInv, OrphansOwed, Waiting, EndKnown, connVars, wireVars
<1>0. /\ h \in [Reqs -> HandlerState]
      /\ ch \in [Reqs -> Seq(Reply)]
  BY DEF Typed, TypeOK, ServerTypeOK, Buffers
<1>1. CASE ListCandidates(q) \/ PickWorker(q) \/ NoWorker(q) \/ RegisterPending(q)
  BY <1>0, <1>1 DEF ListCandidates, PickWorker, NoWorker, RegisterPending
<1>2. CASE Dispatch(q) \/ ClientGone(q)
  BY <1>0, <1>2 DEF Dispatch, ClientGone
<1>3. CASE ReceiveChunk(q)
  <2>1. ASSUME Told(ch[q]) PROVE Told(ch[q])'
    <3>1. Told(Tail(ch[q]))
      BY <1>0, <1>3, <2>1, ToldTail DEF ReceiveChunk
    <3>2. ch'[q] = Tail(ch[q])
      BY <1>0, <1>3 DEF ReceiveChunk
    <3> QED
      BY <3>1, <3>2 DEF Told
  <2>2. \A r \in Reqs : r # q => ch'[r] = ch[r]
    BY <1>0, <1>3 DEF ReceiveChunk
  <2>3. \A r \in Reqs : Told(ch[r]) => Told(ch[r])'
    BY <2>1, <2>2 DEF Told
  <2> QED
    BY <1>3, <2>3 DEF ReceiveChunk
<1>4. ASSUME NEW outcome \in Ended, ClosePending(q, outcome),
             UNCHANGED <<orphans, srv, dropped>>
      PROVE  OrphansOwed' /\ \A r \in Reqs : Waiting(r)' => EndKnown(r)'
  BY <1>0, <1>4 DEF ClosePending, Ended
<1> QED
  BY <1>1, <1>2, <1>3, <1>4
     DEF HandlerStep, DispatchTimesOut, EncodeFails, ReceiveDone, CancelOnWorker,
         Ended

\* Every handler that a cleanup takes out of the pending map is told, unless its
\* channel is full: none is left waiting without an end of stream to come.
THEOREM CleanupTellsHandlers == Spec => []EndIsComing
<1>1. Init => EndInv
  BY EndInvInit
<1>2. EndInv /\ [Next]_vars => EndInv'
  <2> SUFFICES ASSUME EndInv, [Next]_vars
               PROVE  OrphansOwed' /\ \A r \in Reqs : Waiting(r)' => EndKnown(r)'
    BY TypedStep DEF EndInv
  <2>1. ASSUME UNCHANGED <<srv, orphans, ch, h, pending>>, dropped \subseteq dropped'
        PROVE  OrphansOwed' /\ \A r \in Reqs : Waiting(r)' => EndKnown(r)'
    BY <2>1 DEF EndInv, OrphansOwed, Waiting, EndKnown, Told
  <2>2. CASE SessionNext /\ UNCHANGED serverVars
    <3>1. dropped \subseteq dropped'
      BY <2>2 DEF SessionNext, SessionStep, TaskStep, Dial, RecvWelcome,
         GreetingFails, SessionEnds, EndSession, HeartbeatTick, SessionWrite,
         RecvRequest, RecvCancel, StartTask, CallFails, CallAnswered,
         ForwardLine, StreamEnds, FinishTask, Send, wireVars
    <3> QED
      BY <2>1, <2>2, <3>1 DEF serverVars
  <2>3. CASE Breaks \/ UNCHANGED vars
    BY <2>1, <2>3 DEF Breaks, LinkFails, vars, serverVars, wireVars
  <2>4. CASE \E c \in Conns : ServeStep(c) \/ WriteOut(c)
    BY <2>4, EndInvServe
  <2>5. CASE \E r \in Reqs : HandlerStep(r)
    BY <2>5, EndInvHandler
  <2>6. CASE (\E w \in Workers : Expire(w) \/ ReapOne(w)) \/ ReapScan
    BY <2>1, <2>6 DEF Expire, ReapOne, ReapScan, handlerVars, wireVars
  <2>7. CASE OrchestratorStops
    <3>1. h \in [Reqs -> HandlerState]
      BY DEF EndInv, Typed, TypeOK, ServerTypeOK
    <3>2. \A r \in Reqs : h'[r] \notin {"pended", "streaming"}
      BY <2>7, <3>1 DEF OrchestratorStops, Ended
    <3> QED
      BY <2>7, <3>2 DEF OrchestratorStops, OrphansOwed, Waiting
  <2> QED
    BY <2>2, <2>3, <2>4, <2>5, <2>6, <2>7 DEF Next, ServerNext
<1>3. EndInv => EndIsComing
  BY DEF EndInv, EndIsComing, Waiting, EndKnown, Told
<1> QED
  BY <1>1, <1>2, <1>3, PTL DEF Spec
-----------------------------------------------------------------------------
(* The greeting *)

Fresh == {"hello", "added", "listed"}

\* A connection nobody dialled is untouched; nothing is written to one before
\* its Welcome, and the Welcome stays first until it is read.
Greeting(c) ==
  /\ sess[c] = "none" <=> link[c] = "none"
  /\ sess[c] = "none" => srv[c] = "hello" /\ toServer[c] = <<>>
  /\ srv[c] \in Fresh => writer[c] = "off" /\ toWorker[c] = <<>>
  /\ sess[c] = "greeting" /\ toWorker[c] # <<>> =>
       Head(toWorker[c]).type = "welcome"
  /\ sess[c] = "greeting" /\ srv[c] \notin Fresh /\ toWorker[c] = <<>> =>
       link[c] = "down"
  /\ srv[c] = "gone" => writer[c] = "off"

GreetInv == Typed /\ \A c \in Conns : Greeting(c)

LEMMA HeadAppend ==
  ASSUME NEW M, NEW s \in Seq(M), s # <<>>, NEW m \in M
  PROVE  Head(Append(s, m)) = Head(s) /\ Append(s, m) # <<>>
<1>1. Len(s) \in Nat \ {0}
  BY EmptySeq
<1>2. /\ Append(s, m) \in Seq(M) /\ Append(s, m) # <<>>
      /\ \A i \in 1..Len(s) : Append(s, m)[i] = s[i]
  BY AppendProperties
<1> QED
  BY <1>1, <1>2

LEMMA GreetServe ==
  ASSUME GreetInv, NEW c \in Conns, ServeStep(c) \/ WriteOut(c), UNCHANGED sess
  PROVE  \A d \in Conns : Greeting(d)'
<1> USE DEF GreetInv, Greeting, Fresh, handlerVars, wireVars
<1>0. /\ srv \in [Conns -> SrvState]
      /\ writer \in [Conns -> {"off", "on", "failed"}]
      /\ link \in [Conns -> {"none", "up", "down"}]
      /\ toServer \in [Conns -> Seq(ToServerMsg)]
      /\ toWorker \in [Conns -> Seq(ToWorkerMsg)]
      /\ Buffers(wcOut, Conns, ChatOrder, ConnOutCap)
  BY DEF Typed, TypeOK, ServerTypeOK, WireTypeOK, Buffers
<1>1. CASE ReadHello(c)
  BY <1>0, <1>1 DEF ReadHello
<1>2. CASE HelloFails(c)
  BY <1>0, <1>2 DEF HelloFails
<1>3. CASE AddConn(c)
  BY <1>0, <1>3 DEF AddConn
<1>4. CASE SendWelcome(c)
  <2>1. CASE link[c] = "up"
    <3>1. toWorker'[c] = Append(<<>>, [type |-> "welcome"])
      BY <1>0, <1>4, <2>1 DEF SendWelcome, Written
    <3>2. Append(<<>>, [type |-> "welcome"]) = <<[type |-> "welcome"]>>
      OBVIOUS
    <3>3. toWorker'[c] # <<>> /\ Head(toWorker'[c]).type = "welcome"
      BY <3>1, <3>2
    <3>4. \A d \in Conns : d # c => toWorker'[d] = toWorker[d]
      BY <1>0, <1>4, <2>1 DEF SendWelcome, Written
    <3> QED
      BY <1>0, <1>4, <3>3, <3>4 DEF SendWelcome
  <2>2. CASE link[c] # "up"
    BY <1>0, <1>4, <2>2 DEF SendWelcome, Written
  <2> QED
    BY <2>1, <2>2
<1>5. CASE WelcomeFails(c)
  <2>1. link[c] # "up"
    <3>1. toWorker[c] = <<>> /\ Len(<<>>) = 0
      BY <1>5, EmptySeq DEF WelcomeFails
    <3>2. link[c] = "up" => Len(toWorker[c]) >= WireCap
      BY <1>5 DEF WelcomeFails, CanFailWrite
    <3> QED
      BY <3>1, <3>2, WireAssumption
  <2> QED
    BY <1>0, <1>5, <2>1 DEF WelcomeFails
<1>6. CASE ReadHeartbeat(c)
  BY <1>0, <1>6 DEF ReadHeartbeat, AfterRead
<1>7. CASE RouteChatReply(c)
  BY <1>0, <1>7 DEF RouteChatReply, AfterRead
<1>8. CASE ReadFails(c) \/ Unlink(c) \/ CleanupCollect(c)
  BY <1>0, <1>8 DEF ReadFails, Unlink, CleanupCollect
<1>9. CASE \E r \in Reqs : CleanupPush(c, r)
  BY <1>0, <1>9 DEF CleanupPush
<1>10. CASE RemoveAndClose(c)
  BY <1>0, <1>10 DEF RemoveAndClose
<1>11. CASE WriteOut(c)
  <2>1. writer[c] = "on" /\ srv[c] \notin Fresh /\ srv[c] # "gone"
    BY <1>11 DEF WriteOut
  <2>2. Head(wcOut[c]) \in ToWorkerMsg
    BY <1>0, <1>11, BufferTake, ServerAssumption DEF WriteOut, ToWorkerMsg
  <2>3. CASE link[c] = "up" /\ toWorker' = Written(toWorker, c, Head(wcOut[c]))
             /\ writer' = writer
    <3>1. toWorker'[c] = Append(toWorker[c], Head(wcOut[c]))
      BY <1>0, <2>3 DEF Written
    <3>2. \A d \in Conns : d # c => toWorker'[d] = toWorker[d]
      BY <1>0, <2>3 DEF Written
    <3>3. sess[c] = "greeting" => /\ toWorker'[c] # <<>>
                                  /\ Head(toWorker'[c]).type = "welcome"
      <4>1. sess[c] = "greeting" => /\ toWorker[c] # <<>>
                                    /\ Head(toWorker[c]).type = "welcome"
        BY <2>1, <2>3
      <4>2. toWorker[c] # <<>> => /\ toWorker'[c] # <<>>
                                  /\ Head(toWorker'[c]) = Head(toWorker[c])
        BY <1>0, <2>2, <3>1, HeadAppend
      <4> QED
        BY <4>1, <4>2
    <3>4. sess[c] # "none"
      BY <2>1
    <3> QED
      BY <1>0, <1>11, <2>1, <2>3, <3>2, <3>3, <3>4 DEF WriteOut
  <2>4. CASE toWorker' = toWorker
    BY <1>0, <1>11, <2>1, <2>4 DEF WriteOut
  <2> QED
    BY <1>11, <2>3, <2>4 DEF WriteOut, Written
<1> QED
  BY <1>1, <1>2, <1>3, <1>4, <1>5, <1>6, <1>7, <1>8, <1>9, <1>10, <1>11
     DEF ServeStep

LEMMA GreetSession ==
  ASSUME GreetInv, SessionNext, UNCHANGED serverVars
  PROVE  \A d \in Conns : Greeting(d)'
<1> USE DEF GreetInv, Greeting, Fresh, serverVars, wireVars
<1>0. /\ sess \in [Conns -> {"none", "greeting", "live", "over"}]
      /\ link \in [Conns -> {"none", "up", "down"}]
      /\ toServer \in [Conns -> Seq(ToServerMsg)]
      /\ toWorker \in [Conns -> Seq(ToWorkerMsg)]
  BY DEF Typed, TypeOK, SessionTypeOK, WireTypeOK, Buffers
<1>1. ASSUME NEW r \in Reqs, TaskStep(r) PROVE \A d \in Conns : Greeting(d)'
  BY <1>1 DEF TaskStep, StartTask, CallFails, CallAnswered, ForwardLine,
     StreamEnds, FinishTask
<1>2. ASSUME NEW c \in Conns, Dial(c) PROVE \A d \in Conns : Greeting(d)'
  BY <1>0, <1>2 DEF Dial
<1>3. ASSUME NEW c \in Conns, SessionStep(c) PROVE \A d \in Conns : Greeting(d)'
  <2>1. CASE RecvWelcome(c)
    BY <1>0, <2>1 DEF RecvWelcome
  <2>2. CASE GreetingFails(c) \/ SessionEnds(c)
    BY <1>0, <2>2 DEF GreetingFails, SessionEnds, EndSession
  <2>3. CASE HeartbeatTick(c)
    BY <1>0, <2>3 DEF HeartbeatTick
  <2>4. CASE SessionWrite(c)
    BY <1>0, <2>4 DEF SessionWrite, Written
  <2>5. CASE RecvRequest(c) \/ RecvCancel(c)
    BY <1>0, <2>5 DEF RecvRequest, RecvCancel
  <2> QED
    BY <1>3, <2>1, <2>2, <2>3, <2>4, <2>5 DEF SessionStep
<1> QED
  BY <1>1, <1>2, <1>3 DEF SessionNext

LEMMA GreetInit == Init => GreetInv
<1>1. Init => Typed
  BY TypedInit
<1> QED
  BY <1>1 DEF Init, WireInit, ServerInit, SessionInit, GreetInv, Greeting, Fresh

LEMMA GreetStep == GreetInv /\ [Next]_vars => GreetInv'
<1> SUFFICES ASSUME GreetInv, [Next]_vars
             PROVE  \A c \in Conns : Greeting(c)'
  BY TypedStep DEF GreetInv
<1>1. CASE SessionNext /\ UNCHANGED serverVars
  BY <1>1, GreetSession
<1>2. CASE Breaks
  BY <1>2 DEF GreetInv, Greeting, Breaks, LinkFails, Typed, TypeOK, WireTypeOK,
     serverVars, sessionVars
<1>3. CASE UNCHANGED vars
  BY <1>3 DEF GreetInv, Greeting, vars, serverVars, sessionVars, wireVars
<1>4. ASSUME NEW c \in Conns, ServeStep(c) \/ WriteOut(c), UNCHANGED sessionVars
      PROVE  \A d \in Conns : Greeting(d)'
  BY <1>4, GreetServe DEF sessionVars
<1>5. ASSUME UNCHANGED <<wireVars, srv, writer, sess>>
      PROVE  \A d \in Conns : Greeting(d)'
  BY <1>5 DEF GreetInv, Greeting, wireVars
<1>6. CASE (\E r \in Reqs : HandlerStep(r)) /\ UNCHANGED sessionVars
  BY <1>5, <1>6 DEF HandlerStep, connVars, ListCandidates, PickWorker, NoWorker,
     RegisterPending, Dispatch, DispatchTimesOut, EncodeFails, ReceiveChunk,
     ReceiveDone, ClientGone, CancelOnWorker, sessionVars
<1>7. CASE ((\E w \in Workers : Expire(w) \/ ReapOne(w)) \/ ReapScan)
           /\ UNCHANGED sessionVars
  BY <1>5, <1>7 DEF Expire, ReapOne, ReapScan, sessionVars
<1>8. CASE OrchestratorStops /\ UNCHANGED sessionVars
  BY <1>8 DEF GreetInv, Greeting, Fresh, Typed, TypeOK, WireTypeOK, ServerTypeOK,
     OrchestratorStops, sessionVars
<1> QED
  BY <1>1, <1>2, <1>3, <1>4, <1>6, <1>7, <1>8 DEF Next, ServerNext

\* The first message a worker reads on a connection is the Welcome, whatever the
\* chat handlers have queued for it in the meantime.
THEOREM WelcomeComesFirst == Spec => []WelcomeFirst
<1>1. GreetInv => WelcomeFirst
  BY DEF GreetInv, Greeting, WelcomeFirst
<1> QED
  BY <1>1, GreetInit, GreetStep, PTL DEF Spec
-----------------------------------------------------------------------------
(* Nobody is told "worker disconnected" without a reason *)

Started == Active \union Ended

\* A cleanup owes an end only to requests sent to its worker ID, and a channel
\* is used only while its handler is active.
OrphansOfWorker ==
  \A c \in Conns : \A r \in orphans[c] :
     /\ srv[c] = "sweeping"
     /\ Owner[wc[r]] = Owner[c]
     /\ h[r] \in Started

ChannelActive == \A r \in Reqs : ch[r] # <<>> => h[r] \in Active

Swept == {"sweeping", "gone"}

Justified(r) == \/ srv[wc[r]] \in Past
                \/ \E d \in Namesakes(wc[r]) : srv[d] \in Swept

LostInv == /\ Typed
           /\ PendingActive
           /\ OrphansOfWorker
           /\ ChannelActive
           /\ \A r \in Reqs : Told(ch[r]) => Justified(r)

\* What serveWorker has left behind it stays behind.
LEMMA PastStays ==
  ASSUME Typed, Next, NEW c \in Conns
  PROVE  (srv[c] \in Past => srv'[c] \in Past) /\ (srv[c] \in Swept => srv'[c] \in Swept)
<1> USE DEF Past, Swept
<1>0. srv \in [Conns -> SrvState]
  BY DEF Typed, TypeOK, ServerTypeOK
<1>1. CASE Quiet
  BY <1>1 DEF Quiet
<1>2. ASSUME NEW d \in Conns, Progress(d) \/ AddConn(d) \/ Unlink(d)
      PROVE  (srv[c] \in Past => srv'[c] \in Past) /\ (srv[c] \in Swept => srv'[c] \in Swept)
  BY <1>0, <1>2 DEF Progress, AddConn, Unlink
<1>3. CASE OrchestratorStops
  BY <1>3 DEF OrchestratorStops
<1> QED
  BY <1>1, <1>2, <1>3, ConnSteps

LEMMA JustifiedStays ==
  ASSUME Typed, Next, NEW r \in Reqs, wc[r] \in Conns, wc'[r] = wc[r], Justified(r)
  PROVE  Justified(r)'
BY PastStays DEF Justified, Namesakes

\* A step of a serveWorker or a writer.
LEMMA LostServe ==
  ASSUME LostInv, Next, NEW c \in Conns, ServeStep(c) \/ WriteOut(c)
  PROVE  /\ OrphansOfWorker' /\ ChannelActive'
         /\ \A r \in Reqs : Told(ch[r])' => Justified(r)'
<1> USE DEF handlerVars
<1>0. /\ srv \in [Conns -> SrvState] /\ orphans \in [Conns -> SUBSET Reqs]
      /\ ch \in [Reqs -> Seq(Reply)] /\ pending \subseteq Reqs
      /\ \A r \in Reqs : h[r] \in Active => wc[r] \in Conns
      /\ Typed /\ OrphansOfWorker /\ ChannelActive /\ PendingActive
      /\ \A r \in Reqs : Told(ch[r]) => Justified(r)
  BY DEF LostInv, Typed, TypeOK, ServerTypeOK, Buffers, HoldConns
<1>1. h' = h /\ wc' = wc
  BY DEF ServeStep, ReadHello, HelloFails, AddConn, SendWelcome, WelcomeFails,
     ReadHeartbeat, RouteChatReply, ReadFails, Unlink, CleanupCollect,
     CleanupPush, RemoveAndClose, WriteOut
<1>2. \A r \in Reqs : ch[r] # <<>> => wc[r] \in Conns
  BY <1>0 DEF ChannelActive
<1>3. \A r \in Reqs : Told(ch[r]) => ch[r] # <<>>
  BY DEF Told
<1>4. \A r \in Reqs : Told(ch[r]) => Justified(r)'
  BY <1>0, <1>1, <1>2, <1>3, JustifiedStays
<1>5. ASSUME ch' = ch, \A d \in Conns : orphans'[d] = orphans[d],
             \A d \in Conns : srv[d] = "sweeping" /\ orphans[d] # {} => srv'[d] = "sweeping"
      PROVE  /\ OrphansOfWorker' /\ ChannelActive'
             /\ \A r \in Reqs : Told(ch[r])' => Justified(r)'
  BY <1>0, <1>1, <1>4, <1>5 DEF OrphansOfWorker, ChannelActive, Told
<1>6. CASE ReadHello(c) \/ HelloFails(c) \/ AddConn(c) \/ SendWelcome(c)
  BY <1>0, <1>5, <1>6 DEF ReadHello, HelloFails, AddConn, SendWelcome
<1>7. CASE WelcomeFails(c) \/ ReadFails(c) \/ Unlink(c) \/ WriteOut(c)
  BY <1>0, <1>5, <1>7 DEF WelcomeFails, ReadFails, Unlink, WriteOut
<1>8. CASE ReadHeartbeat(c) \/ RemoveAndClose(c)
  BY <1>0, <1>5, <1>8 DEF ReadHeartbeat, AfterRead, RemoveAndClose
<1>9. CASE RouteChatReply(c)
  <2> DEFINE m == Head(toServer[c])
  <2>1. /\ \A d \in Conns : orphans'[d] = orphans[d]
        /\ \A d \in Conns : srv[d] = "sweeping" => srv'[d] = "sweeping"
    BY <1>0, <1>9 DEF RouteChatReply, AfterRead
  <2>2. CASE ch' = ch
    BY <1>5, <2>1, <2>2
  <2>3. CASE m.req \in pending /\ ch' = [ch EXCEPT ![m.req] = Append(@, m)]
    <3>1. OrphansOfWorker'
      BY <1>0, <1>1, <2>1 DEF OrphansOfWorker
    <3>2. m.req \in Reqs /\ h[m.req] \in Active
      BY <1>0, <2>3 DEF PendingActive
    <3>3. ChannelActive'
      BY <1>0, <1>1, <2>3, <3>2 DEF ChannelActive
    <3>4. ASSUME NEW r \in Reqs, Told(ch[r])' PROVE Told(ch[r])
      <4>1. CASE r = m.req
        <5>1. m.type # "lost" /\ ch'[r] = Append(ch[r], m)
          BY <1>0, <1>9, <2>3, <3>2, <4>1 DEF RouteChatReply
        <5>2. /\ DOMAIN Append(ch[r], m) = 1..(Len(ch[r]) + 1)
              /\ DOMAIN ch[r] = 1..Len(ch[r]) /\ Len(ch[r]) \in Nat
              /\ \A i \in 1..Len(ch[r]) : Append(ch[r], m)[i] = ch[r][i]
              /\ Append(ch[r], m)[Len(ch[r]) + 1] = m
          BY <1>0
        <5> QED
          BY <3>4, <5>1, <5>2 DEF Told
      <4>2. CASE r # m.req
        BY <1>0, <2>3, <3>4, <4>2 DEF Told
      <4> QED
        BY <4>1, <4>2
    <3> QED
      BY <1>4, <3>1, <3>3, <3>4
  <2> QED
    BY <1>9, <2>2, <2>3 DEF RouteChatReply
<1>10. CASE CleanupCollect(c)
  <2>1. OrphansOfWorker'
    BY <1>0, <1>1, <1>10
       DEF OrphansOfWorker, CleanupCollect, PendingOf, PendingActive, Started
  <2> QED
    BY <1>0, <1>1, <1>4, <1>10, <2>1 DEF CleanupCollect, ChannelActive, Told
<1>11. ASSUME NEW q \in Reqs, CleanupPush(c, q)
       PROVE  /\ OrphansOfWorker' /\ ChannelActive'
              /\ \A r \in Reqs : Told(ch[r])' => Justified(r)'
  <2>1. OrphansOfWorker'
    BY <1>0, <1>1, <1>11 DEF OrphansOfWorker, CleanupPush
  <2>2. \A r \in Reqs : r # q => ch'[r] = ch[r]
    BY <1>0, <1>11 DEF CleanupPush
  <2>3. ChannelActive'
    BY <1>0, <1>1, <1>11, <2>2 DEF CleanupPush, ChannelActive
  <2>4. ch'[q] # ch[q] => Justified(q)'
    <3> SUFFICES ASSUME ch'[q] # ch[q] PROVE Justified(q)'
      OBVIOUS
    <3>1. srv' = srv /\ srv[c] = "sweeping" /\ Owner[wc[q]] = Owner[c]
      BY <1>0, <1>11 DEF CleanupPush, OrphansOfWorker
    <3>2. wc[q] \in Conns
      BY <1>0, <1>11 DEF CleanupPush
    <3> QED
      BY <1>1, <3>1, <3>2 DEF Justified, Namesakes, Past, Swept
  <2> QED
    BY <1>4, <2>1, <2>2, <2>3, <2>4 DEF Told
<1> QED
  BY <1>6, <1>7, <1>8, <1>9, <1>10, <1>11 DEF ServeStep

\* A step of a handler.
LEMMA LostHandler ==
  ASSUME LostInv, Next, NEW q \in Reqs, HandlerStep(q)
  PROVE  /\ OrphansOfWorker' /\ ChannelActive'
         /\ \A r \in Reqs : Told(ch[r])' => Justified(r)'
<1> USE DEF connVars
<1>0. /\ h \in [Reqs -> HandlerState]
      /\ ch \in [Reqs -> Seq(Reply)] /\ wc \in [Reqs -> {None} \union Conns]
      /\ orphans \in [Conns -> SUBSET Reqs]
      /\ \A r \in Reqs : h[r] \in Active => wc[r] \in Conns
      /\ Typed /\ OrphansOfWorker /\ ChannelActive
      /\ \A r \in Reqs : Told(ch[r]) => Justified(r)
  BY DEF LostInv, Typed, TypeOK, ServerTypeOK, Buffers, HoldConns
<1>1. \A r \in Reqs : Told(ch[r]) => ch[r] # <<>> /\ h[r] \in Active /\ wc[r] \in Conns
  BY <1>0 DEF Told, ChannelActive
<1>2. ASSUME UNCHANGED <<srv, orphans>>,
             \A r \in Reqs : h[r] \in Started => h'[r] \in Started /\ wc'[r] = wc[r],
             \A r \in Reqs : ch'[r] # <<>> => h'[r] \in Active /\ h[r] \in Started,
             \A r \in Reqs : Told(ch'[r]) => Told(ch[r])
      PROVE  /\ OrphansOfWorker' /\ ChannelActive'
             /\ \A r \in Reqs : Told(ch[r])' => Justified(r)'
  <2>1. OrphansOfWorker'
    BY <1>0, <1>2 DEF OrphansOfWorker
  <2>2. ChannelActive'
    BY <1>2 DEF ChannelActive
  <2>3. ASSUME NEW r \in Reqs, Told(ch'[r]) PROVE Justified(r)'
    <3>1. Told(ch[r]) /\ wc[r] \in Conns /\ wc'[r] = wc[r]
      BY <1>1, <1>2, <2>3 DEF Started
    <3> QED
      BY <1>0, <3>1, JustifiedStays
  <2> QED
    BY <2>1, <2>2, <2>3 DEF Told
<1>3. CASE ListCandidates(q) \/ PickWorker(q) \/ NoWorker(q) \/ RegisterPending(q)
  BY <1>0, <1>2, <1>3 DEF ListCandidates, PickWorker, NoWorker, RegisterPending,
     ChannelActive, Started, Active, Ended
<1>4. CASE Dispatch(q) \/ ClientGone(q)
  BY <1>0, <1>2, <1>4 DEF Dispatch, ClientGone, ChannelActive, Started, Active
<1>5. CASE ReceiveChunk(q)
  <2>1. /\ Tail(ch[q]) \in Seq(Reply)
        /\ Len(Tail(ch[q])) = Len(ch[q]) - 1
        /\ \A i \in 1..Len(Tail(ch[q])) : Tail(ch[q])[i] = ch[q][i + 1]
        /\ Len(ch[q]) \in Nat /\ DOMAIN ch[q] = 1..Len(ch[q])
        /\ DOMAIN Tail(ch[q]) = 1..Len(Tail(ch[q]))
    BY <1>0, <1>5, HeadTailProperties, LenProperties DEF ReceiveChunk
  <2>2. Told(Tail(ch[q])) => Told(ch[q])
    <3> SUFFICES ASSUME NEW i \in DOMAIN Tail(ch[q]), Tail(ch[q])[i].type = "lost"
                 PROVE  Told(ch[q])
      BY DEF Told
    <3>1. i + 1 \in DOMAIN ch[q] /\ ch[q][i + 1].type = "lost"
      BY <2>1
    <3> QED
      BY <3>1 DEF Told
  <2>3. \A r \in Reqs : Told(ch'[r]) => Told(ch[r])
    BY <1>0, <1>5, <2>2 DEF ReceiveChunk
  <2>4. \A r \in Reqs : ch'[r] # <<>> => h[r] \in Active
    BY <1>0, <1>5 DEF ReceiveChunk, ChannelActive, Active
  <2> QED
    BY <1>2, <1>5, <2>3, <2>4 DEF ReceiveChunk, Started
<1>6. ASSUME NEW outcome \in Ended, ClosePending(q, outcome), h[q] \in Active,
             UNCHANGED <<orphans, srv, wc>>
      PROVE  /\ OrphansOfWorker' /\ ChannelActive'
             /\ \A r \in Reqs : Told(ch[r])' => Justified(r)'
  <2>1. \A r \in Reqs : ch'[r] = IF r = q THEN <<>> ELSE ch[r]
    BY <1>0, <1>6 DEF ClosePending
  <2>2. ~Told(<<>>)
    BY DEF Told
  <2>3. \A r \in Reqs : h'[r] = IF r = q THEN outcome ELSE h[r]
    BY <1>0, <1>6 DEF ClosePending
  <2>4. \A r \in Reqs : ch'[r] # <<>> => h'[r] \in Active /\ h[r] \in Started
    BY <1>0, <2>1, <2>3 DEF ChannelActive, Started
  <2>5. \A r \in Reqs : Told(ch'[r]) => Told(ch[r])
    BY <2>1, <2>2
  <2> QED
    BY <1>2, <1>6, <2>3, <2>4, <2>5 DEF Started
<1> QED
  BY <1>3, <1>4, <1>5, <1>6
     DEF HandlerStep, DispatchTimesOut, EncodeFails, ReceiveDone, CancelOnWorker,
         Ended, Active

LEMMA LostInit == Init => LostInv
<1>1. Init => Typed
  BY TypedInit
<1> QED
  BY <1>1 DEF Init, ServerInit, LostInv, PendingActive, OrphansOfWorker, ChannelActive,
     Told

LEMMA LostStep == LostInv /\ [Next]_vars => LostInv'
<1> SUFFICES ASSUME LostInv, [Next]_vars, PendingActive'
             PROVE  /\ OrphansOfWorker' /\ ChannelActive'
                    /\ \A r \in Reqs : Told(ch[r])' => Justified(r)'
  BY TypedStep, PendingStep DEF LostInv
<1>1. ASSUME UNCHANGED <<srv, orphans, h, wc, ch>>
      PROVE  /\ OrphansOfWorker' /\ ChannelActive'
             /\ \A r \in Reqs : Told(ch[r])' => Justified(r)'
  BY <1>1 DEF LostInv, OrphansOfWorker, ChannelActive, Told, Justified
<1>2. CASE (SessionNext /\ UNCHANGED serverVars) \/ Breaks \/ UNCHANGED vars
  BY <1>1, <1>2 DEF Breaks, vars, serverVars
<1>3. CASE \E c \in Conns : Next /\ (ServeStep(c) \/ WriteOut(c))
  BY <1>3, LostServe
<1>4. CASE \E r \in Reqs : Next /\ HandlerStep(r)
  BY <1>4, LostHandler
<1>5. CASE (\E w \in Workers : Expire(w) \/ ReapOne(w)) \/ ReapScan
  BY <1>1, <1>5 DEF Expire, ReapOne, ReapScan, handlerVars
<1>6. CASE OrchestratorStops
  BY <1>6 DEF OrchestratorStops, OrphansOfWorker, ChannelActive, Told
<1> QED
  BY <1>2, <1>3, <1>4, <1>5, <1>6 DEF Next, ServerNext

\* A handler is told "worker disconnected" only after its own connection was
\* unlinked, or by the cleanup of another connection of the same worker ID.
THEOREM LostIsJustified == Spec => []LostWhileServed
<1>1. LostInv => LostWhileServed
  BY DEF LostInv, LostWhileServed, Told, Justified, Swept
<1> QED
  BY <1>1, LostInit, LostStep, PTL DEF Spec
-----------------------------------------------------------------------------
(* Only a late registration is missed by a cleanup *)

\* A handler picks a connection that has said Hello.
PicksKnown == \A r \in Reqs : wc[r] # None => srv[wc[r]] # "hello"

\* Who has said Hello never goes back.
LEMMA HelloOnce ==
  ASSUME Typed, Next, NEW c \in Conns, srv[c] # "hello"
  PROVE  srv'[c] # "hello"
<1>0. srv \in [Conns -> SrvState]
  BY DEF Typed, TypeOK, ServerTypeOK
<1>1. ASSUME NEW d \in Conns, Progress(d) \/ AddConn(d) \/ Unlink(d)
      PROVE  srv'[c] # "hello"
  BY <1>0, <1>1 DEF Progress, AddConn, Unlink
<1>2. CASE OrchestratorStops
  BY <1>2 DEF OrchestratorStops
<1> QED
  BY <1>1, <1>2, ConnSteps DEF Quiet

LEMMA PicksStep == Typed /\ ConnsAlive /\ PicksKnown /\ [Next]_vars => PicksKnown'
<1> SUFFICES ASSUME Typed, ConnsAlive, PicksKnown, [Next]_vars PROVE PicksKnown'
  OBVIOUS
<1>0. wc \in [Reqs -> {None} \union Conns] /\ conns \in [Workers -> {None} \union Conns]
      /\ cand \in [Reqs -> SUBSET Workers]
  BY DEF Typed, TypeOK, ServerTypeOK
<1>1. CASE UNCHANGED vars
  BY <1>1 DEF PicksKnown, vars, serverVars
<1>2. CASE Next /\ UNCHANGED wc
  BY <1>0, <1>2, HelloOnce DEF PicksKnown
<1>3. ASSUME NEW q \in Reqs, PickWorker(q) PROVE PicksKnown'
  <2>1. PICK w \in cand[q] : conns[w] # None /\ wc' = [wc EXCEPT ![q] = conns[w]]
    BY <1>3 DEF PickWorker
  <2>2. srv[conns[w]] # "hello" /\ srv' = srv
    BY <1>0, <1>3, <2>1 DEF ConnsAlive, PickWorker, connVars
  <2> QED
    BY <1>0, <2>1, <2>2 DEF PicksKnown
<1>4. ASSUME NEW q \in Reqs, HandlerStep(q), ~PickWorker(q) PROVE UNCHANGED wc
  BY <1>4 DEF HandlerStep, ListCandidates, NoWorker, RegisterPending, Dispatch,
     DispatchTimesOut, EncodeFails, ReceiveChunk, ReceiveDone, ClientGone, CancelOnWorker
<1>5. CASE \E c \in Conns : ServeStep(c) \/ WriteOut(c)
  <2>1. UNCHANGED wc
    BY <1>5 DEF ServeStep, handlerVars, ReadHello, HelloFails, AddConn, SendWelcome,
       WelcomeFails, ReadHeartbeat, RouteChatReply, ReadFails, Unlink, CleanupCollect,
       CleanupPush, RemoveAndClose, WriteOut
  <2> QED
    BY <1>1, <1>2, <2>1
<1>6. CASE \/ (\E w \in Workers : Expire(w) \/ ReapOne(w)) \/ ReapScan
           \/ OrchestratorStops \/ (SessionNext /\ UNCHANGED serverVars) \/ Breaks
  <2>1. UNCHANGED wc
    BY <1>6 DEF Expire, ReapOne, ReapScan, OrchestratorStops, Breaks, serverVars,
       handlerVars
  <2> QED
    BY <1>1, <1>2, <2>1
<1> QED
  BY <1>1, <1>2, <1>3, <1>4, <1>5, <1>6 DEF Next, ServerNext

LEMMA PicksAreKnown == Spec => []PicksKnown
<1>1. Init => PicksKnown
  BY DEF Init, ServerInit, PicksKnown
<1> QED
  BY <1>1, TypedInit, TypedStep, PicksStep, ConnsStayAlive, PTL DEF Spec

LateInv == Typed /\ PendingActive /\ PicksKnown

\* A cleanup collects every handler that is pending on its worker, and no handler
\* is pending on a connection that ends without one.
LEMMA LateStep ==
  ASSUME LateInv, [Next]_vars, NEW r \in Reqs, ~Stranded(r), Stranded(r)'
  PROVE  h[r] = "picked"
<1>0. /\ PicksKnown /\ PendingActive
      /\ srv \in [Conns -> SrvState] /\ pending \subseteq Reqs
      /\ h \in [Reqs -> HandlerState] /\ wc \in [Reqs -> {None} \union Conns]
      /\ \A q \in Reqs : h[q] \in Active => wc[q] \in Conns /\ wc[q] # None
  BY NoneAssumption DEF LateInv, Typed, TypeOK, ServerTypeOK, HoldConns
<1>1. r \in pending' /\ srv'[wc'[r]] \in Swept
  BY DEF Stranded, Swept
<1>2. r \in pending => srv[wc[r]] \notin Swept
  BY DEF Stranded, Swept
<1>3. CASE UNCHANGED <<srv, pending, wc>>
  BY <1>1, <1>2, <1>3
<1>4. CASE (SessionNext /\ UNCHANGED serverVars) \/ Breaks \/ UNCHANGED vars
  BY <1>3, <1>4 DEF Breaks, vars, serverVars
<1>5. CASE (\E w \in Workers : Expire(w) \/ ReapOne(w)) \/ ReapScan
  BY <1>3, <1>5 DEF Expire, ReapOne, ReapScan, handlerVars
<1>6. CASE OrchestratorStops
  BY <1>1, <1>6 DEF OrchestratorStops
<1>7. ASSUME NEW q \in Reqs, HandlerStep(q) PROVE h[r] = "picked"
  <2>1. CASE RegisterPending(q)
    BY <1>0, <1>1, <1>2, <2>1 DEF RegisterPending, connVars
  <2>2. CASE PickWorker(q)
    <3>1. h[q] = "listed" /\ srv' = srv /\ pending' = pending
          /\ \A p \in Reqs : p # q => wc'[p] = wc[p]
      BY <1>0, <2>2 DEF PickWorker, connVars
    <3>2. r # q
      BY <1>0, <1>1, <3>1 DEF PendingActive, Active
    <3> QED
      BY <1>1, <1>2, <3>1, <3>2
  <2>3. CASE srv' = srv /\ wc' = wc /\ pending' \subseteq pending
    BY <1>1, <1>2, <2>3
  <2> QED
    BY <1>7, <2>1, <2>2, <2>3 DEF HandlerStep, connVars, ListCandidates, NoWorker,
       Dispatch, DispatchTimesOut, EncodeFails, ReceiveChunk, ReceiveDone, ClientGone,
       CancelOnWorker, ClosePending
<1>8. ASSUME NEW c \in Conns, ServeStep(c) \/ WriteOut(c) PROVE h[r] = "picked"
  <2>1. wc' = wc /\ pending' \subseteq pending
    BY <1>8 DEF ServeStep, handlerVars, ReadHello, HelloFails, AddConn, SendWelcome,
       WelcomeFails, ReadHeartbeat, RouteChatReply, ReadFails, Unlink, CleanupCollect,
       CleanupPush, RemoveAndClose, WriteOut
  <2>2. r \in pending /\ wc[r] \in Conns /\ srv[wc[r]] \notin Swept /\ srv[wc[r]] # "hello"
    BY <1>0, <1>1, <1>2, <2>1 DEF PendingActive, PicksKnown
  <2>3. CASE CleanupCollect(c)
    <3>1. srv' = [srv EXCEPT ![c] = "sweeping"] /\ pending' = pending \ PendingOf(Owner[c])
      BY <2>3 DEF CleanupCollect
    <3>2. wc[r] = c
      BY <1>0, <1>1, <2>1, <2>2, <3>1
    <3> QED
      BY <1>1, <2>2, <3>1, <3>2 DEF PendingOf
  <2>4. CASE ReadHello(c) \/ HelloFails(c) \/ RemoveAndClose(c)
    BY <1>0, <1>1, <2>1, <2>2, <2>4 DEF ReadHello, HelloFails, RemoveAndClose, Swept
  <2>5. CASE AddConn(c) \/ SendWelcome(c) \/ WelcomeFails(c) \/ ReadFails(c) \/ Unlink(c)
    BY <1>0, <1>1, <2>1, <2>2, <2>5 DEF AddConn, SendWelcome, WelcomeFails, ReadFails,
       Unlink, Swept
  <2>6. CASE ReadHeartbeat(c) \/ RouteChatReply(c)
    BY <1>0, <1>1, <2>1, <2>2, <2>6 DEF ReadHeartbeat, RouteChatReply, AfterRead, Swept
  <2>7. CASE (\E q \in Reqs : CleanupPush(c, q)) \/ WriteOut(c)
    BY <1>1, <2>1, <2>2, <2>7 DEF CleanupPush, WriteOut
  <2> QED
    BY <1>8, <2>3, <2>4, <2>5, <2>6, <2>7 DEF ServeStep
<1> QED
  BY <1>4, <1>5, <1>6, <1>7, <1>8 DEF Next, ServerNext

\* A handler is left waiting on a connection that is gone only if it registered
\* after that connection's cleanup: every handler pending in time is collected,
\* and no connection ends without its cleanup once a handler can have picked it.
THEOREM OnlyLateAreStranded == Spec => OnlyLateStrands
<1>1. Init => PendingActive
  BY DEF Init, ServerInit, PendingActive
<1>2. Typed /\ PendingActive /\ PicksKnown /\ [Next]_vars =>
         [\A r \in Reqs : ~Stranded(r) /\ Stranded(r)' => h[r] = "picked"]_vars
  BY LateStep DEF LateInv
<1> QED
  BY <1>1, <1>2, TypedInit, TypedStep, PendingStep, PicksAreKnown, PTL
     DEF Spec, OnlyLateStrands
=============================================================================
