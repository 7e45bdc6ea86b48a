-------------------------- MODULE GridRouteProofs --------------------------
(***************************************************************************)
(* Theorems about Grid: where a chat request goes.  It reaches one worker, *)
(* once, over the connection its handler holds, and that worker has a      *)
(* model; the inflight map says which requests run.                        *)
(***************************************************************************)
EXTENDS GridSafetyProofs

(* Orders in a buffer *)

Asks(m, r) == m.type = "request" /\ m.req = r

Asked(s, r) == \E i \in DOMAIN s : Asks(s[i], r)

Once(s, r) == \A i, j \in DOMAIN s : Asks(s[i], r) /\ Asks(s[j], r) => i = j

LEMMA AskedAppend ==
  ASSUME NEW M, NEW s \in Seq(M), NEW m \in M, NEW r
  PROVE  /\ Asked(Append(s, m), r) <=> Asked(s, r) \/ Asks(m, r)
         /\ Once(s, r) /\ (Asks(m, r) => ~Asked(s, r)) => Once(Append(s, m), r)
<1> DEFINE t == Append(s, m)
           n == Len(s)
<1>1. /\ n \in Nat /\ DOMAIN s = 1..n /\ DOMAIN t = 1..(n + 1)
      /\ \A i \in 1..n : t[i] = s[i]
      /\ t[n + 1] = m
  OBVIOUS
<1> HIDE DEF t, n
<1>2. \A i : i \in 1..(n + 1) <=> i \in 1..n \/ i = n + 1
  BY <1>1
<1>3. Asked(t, r) <=> Asked(s, r) \/ Asks(m, r)
  BY <1>1, <1>2 DEF Asked
<1>4. Once(s, r) /\ (Asks(m, r) => ~Asked(s, r)) => Once(t, r)
  BY <1>1, <1>2 DEF Asked, Once
<1> QED
  BY <1>3, <1>4 DEF t

LEMMA AskedTail ==
  ASSUME NEW M, NEW s \in Seq(M), s # <<>>, NEW r
  PROVE  /\ Asked(s, r) <=> Asks(Head(s), r) \/ Asked(Tail(s), r)
         /\ Once(s, r) => Once(Tail(s), r)
         /\ Once(s, r) /\ Asks(Head(s), r) => ~Asked(Tail(s), r)
<1> DEFINE t == Tail(s)
           n == Len(s)
<1>1. n \in Nat \ {0} /\ Head(s) = s[1] /\ DOMAIN s = 1..n
  BY EmptySeq
<1>2. t \in Seq(M) /\ Len(t) = n - 1 /\ \A i \in 1..Len(t) : t[i] = s[i + 1]
  BY HeadTailProperties
<1>3. DOMAIN t = 1..Len(t)
  BY <1>2, LenProperties
<1> HIDE DEF t, n
<1>4. DOMAIN t = 1..(n - 1) /\ \A i \in 1..(n - 1) : t[i] = s[i + 1]
  BY <1>2, <1>3
<1>5. /\ 1 \in 1..n
      /\ \A i \in 1..n : i = 1 \/ (i - 1 \in 1..(n - 1) /\ t[i - 1] = s[i])
      /\ \A i \in 1..(n - 1) : i + 1 \in 1..n /\ i + 1 # 1
      /\ \A i, j \in 1..(n - 1) : i + 1 = j + 1 => i = j
  BY <1>1, <1>4
<1>6. Asked(t, r) => Asked(s, r)
  BY <1>1, <1>4, <1>5 DEF Asked
<1>7. Asked(s, r) => Asks(Head(s), r) \/ Asked(t, r)
  BY <1>1, <1>4, <1>5 DEF Asked
<1>8. Asks(Head(s), r) => Asked(s, r)
  BY <1>1, <1>4, <1>5 DEF Asked
<1>9. ASSUME Once(s, r), NEW i \in DOMAIN t, NEW j \in DOMAIN t,
             Asks(t[i], r), Asks(t[j], r)
      PROVE  i = j
  <2>1. i + 1 \in DOMAIN s /\ j + 1 \in DOMAIN s /\ s[i + 1] = t[i] /\ s[j + 1] = t[j]
    BY <1>1, <1>4, <1>5
  <2>2. i + 1 = j + 1
    BY <1>9, <2>1 DEF Once
  <2> QED
    BY <1>4, <1>5, <2>2
<1>10. Once(s, r) /\ Asks(Head(s), r) => ~Asked(t, r)
  BY <1>1, <1>4, <1>5 DEF Once, Asked
<1> QED
  BY <1>6, <1>7, <1>8, <1>9, <1>10 DEF t, Once

LEMMA AskedEmpty ==
  ASSUME NEW r
  PROVE  ~Asked(<<>>, r) /\ Once(<<>>, r)
BY DEF Asked, Once
-----------------------------------------------------------------------------
(* The way of a request *)

\* The handler has handed its request to the write loop of its connection.
Dispatched == {"streaming", "leaving", "done", "errored", "left", "cut"}

\* An order that is under way was dispatched on that connection, is there once,
\* and nobody runs it yet.
OrderedOnce(c, r) ==
  /\ Asked(wcOut[c], r) \/ Asked(toWorker[c], r) =>
       h[r] \in Dispatched /\ wc[r] = c /\ task[r] = "none"
  /\ Once(wcOut[c], r) /\ Once(toWorker[c], r)
  /\ ~(Asked(wcOut[c], r) /\ Asked(toWorker[c], r))

\* What runs was dispatched, and runs where its handler sent it.
RunsAtHome(r) == task[r] # "none" => h[r] \in Dispatched /\ home[r] = wc[r]

RouteInv == /\ Typed
            /\ \A r \in Reqs : RunsAtHome(r)
            /\ \A c \in Conns, r \in Reqs : OrderedOnce(c, r)

Routed == /\ \A r \in Reqs : RunsAtHome(r)
          /\ \A c \in Conns, r \in Reqs : OrderedOnce(c, r)

\* The buffers whose content a step changes hold fewer orders than before.
LEMMA RouteKept ==
  ASSUME RouteInv,
         \A r \in Reqs : h[r] \in Dispatched => h'[r] \in Dispatched /\ wc'[r] = wc[r],
         \A r \in Reqs : task'[r] = "none" <=> task[r] = "none",
         \A r \in Reqs : task[r] # "none" => home'[r] = home[r],
         \A c \in Conns, r \in Reqs : Asked(wcOut'[c], r) => Asked(wcOut[c], r),
         \A c \in Conns, r \in Reqs : Asked(toWorker'[c], r) => Asked(toWorker[c], r),
         \A c \in Conns, r \in Reqs : Once(wcOut'[c], r) /\ Once(toWorker'[c], r)
  PROVE  Routed'
<1>1. ASSUME NEW r \in Reqs PROVE RunsAtHome(r)'
  BY DEF RouteInv, RunsAtHome
<1>2. ASSUME NEW c \in Conns, NEW r \in Reqs PROVE OrderedOnce(c, r)'
  BY DEF RouteInv, OrderedOnce
<1> QED
  BY <1>1, <1>2 DEF Routed

LEMMA RouteServe ==
  ASSUME RouteInv, NEW c \in Conns, ServeStep(c) \/ WriteOut(c), UNCHANGED sessionVars
  PROVE  Routed'
<1> USE DEF handlerVars, sessionVars, taskVars, wireVars
<1>0. /\ wcOut \in [Conns -> Seq(ChatOrder)] /\ toWorker \in [Conns -> Seq(ToWorkerMsg)]
      /\ \A d \in Conns, r \in Reqs : Once(wcOut[d], r) /\ Once(toWorker[d], r)
  BY DEF RouteInv, OrderedOnce, Typed, TypeOK, ServerTypeOK, WireTypeOK, Buffers
<1>1. CASE UNCHANGED <<wcOut, toWorker, h, wc>>
  BY <1>0, <1>1, RouteKept
<1>2. CASE SendWelcome(c)
  <2> DEFINE m == [type |-> "welcome"]
  <2>1. m \in ToWorkerMsg /\ \A r \in Reqs : ~Asks(m, r)
    BY DEF ToWorkerMsg, Asks
  <2>2. \A d \in Conns : toWorker'[d] = toWorker[d] \/ toWorker'[d] = Append(toWorker[d], m)
    BY <1>0, <1>2 DEF SendWelcome, Written
  <2>3. ASSUME NEW d \in Conns, NEW r \in Reqs
        PROVE  (Asked(toWorker'[d], r) => Asked(toWorker[d], r)) /\ Once(toWorker'[d], r)
    <3>1. toWorker[d] \in Seq(ToWorkerMsg)
      BY <1>0
    <3> HIDE DEF m
    <3>2. /\ Asked(Append(toWorker[d], m), r) <=> Asked(toWorker[d], r) \/ Asks(m, r)
          /\ Once(toWorker[d], r) /\ (Asks(m, r) => ~Asked(toWorker[d], r))
               => Once(Append(toWorker[d], m), r)
      BY <2>1, <3>1, AskedAppend
    <3> QED
      BY <1>0, <2>1, <2>2, <3>2
  <2>4. UNCHANGED <<wcOut, h, wc, task, home>>
    BY <1>2 DEF SendWelcome
  <2> QED
    BY <1>0, <2>3, <2>4, RouteKept
<1>3. CASE WriteOut(c)
  <2> DEFINE m == Head(wcOut[c])
             old == wcOut[c]
             wire == toWorker[c]
  <2>1. /\ old # <<>> /\ wcOut' = [wcOut EXCEPT ![c] = Tail(old)]
        /\ \A d \in Conns : d # c => toWorker'[d] = toWorker[d]
        /\ toWorker'[c] = wire \/ toWorker'[c] = Append(wire, m)
        /\ UNCHANGED <<h, wc, task, home>>
    BY <1>0, <1>3 DEF WriteOut, Written
  <2>2. old \in Seq(ChatOrder) /\ wire \in Seq(ToWorkerMsg)
    BY <1>0
  <2>3. m \in ToWorkerMsg
    BY <2>1, <2>2, HeadTailProperties DEF ToWorkerMsg
  <2> HIDE DEF m
  <2>4. ASSUME NEW r \in Reqs
        PROVE  /\ Asked(old, r) <=> Asks(m, r) \/ Asked(Tail(old), r)
               /\ Once(Tail(old), r)
               /\ Asks(m, r) => ~Asked(Tail(old), r)
               /\ Asked(Append(wire, m), r) <=> Asked(wire, r) \/ Asks(m, r)
               /\ (Asks(m, r) => ~Asked(wire, r)) => Once(Append(wire, m), r)
    <3>1. Once(old, r) /\ Once(wire, r)
      BY <1>0
    <3>2. /\ Asked(old, r) <=> Asks(m, r) \/ Asked(Tail(old), r)
          /\ Once(old, r) => Once(Tail(old), r)
          /\ Once(old, r) /\ Asks(m, r) => ~Asked(Tail(old), r)
      BY <2>1, <2>2, AskedTail DEF m
    <3>3. /\ Asked(Append(wire, m), r) <=> Asked(wire, r) \/ Asks(m, r)
          /\ Once(wire, r) /\ (Asks(m, r) => ~Asked(wire, r)) => Once(Append(wire, m), r)
      BY <2>2, <2>3, AskedAppend
    <3> QED
      BY <3>1, <3>2, <3>3
  <2>5. wcOut'[c] = Tail(old) /\ \A d \in Conns : d # c => wcOut'[d] = wcOut[d]
    BY <1>0, <2>1
  <2> HIDE DEF old, wire
  <2>6. ASSUME NEW r \in Reqs PROVE OrderedOnce(c, r)'
    <3>1. OrderedOnce(c, r) /\ (Asked(old, r) \/ Asked(wire, r) => h[r] \in Dispatched /\ wc[r] = c /\ task[r] = "none")
          /\ Once(wire, r) /\ ~(Asked(old, r) /\ Asked(wire, r))
      BY DEF RouteInv, OrderedOnce, old, wire
    <3>2. CASE toWorker'[c] = wire
      BY <2>1, <2>4, <2>5, <3>1, <3>2 DEF OrderedOnce
    <3>3. CASE toWorker'[c] = Append(wire, m)
      BY <2>1, <2>4, <2>5, <3>1, <3>3 DEF OrderedOnce
    <3> QED
      BY <2>1, <3>2, <3>3
  <2>7. ASSUME NEW d \in Conns, d # c, NEW r \in Reqs PROVE OrderedOnce(d, r)'
    BY <2>1, <2>5, <2>7 DEF RouteInv, OrderedOnce
  <2>8. \A r \in Reqs : RunsAtHome(r)'
    BY <2>1 DEF RouteInv, RunsAtHome
  <2> QED
    BY <2>6, <2>7, <2>8 DEF Routed
<1> QED
  BY <1>1, <1>2, <1>3 DEF ServeStep, ReadHello, HelloFails, AddConn, WelcomeFails,
     ReadHeartbeat, RouteChatReply, ReadFails, Unlink, CleanupCollect, CleanupPush,
     RemoveAndClose

LEMMA RouteHandler ==
  ASSUME RouteInv, NEW q \in Reqs, HandlerStep(q), UNCHANGED sessionVars
  PROVE  Routed'
<1> USE DEF connVars, sessionVars, taskVars, wireVars
<1>0. /\ wcOut \in [Conns -> Seq(ChatOrder)] /\ h \in [Reqs -> HandlerState]
      /\ wc \in [Reqs -> {None} \union Conns]
      /\ \A d \in Conns, r \in Reqs : Once(wcOut[d], r) /\ Once(toWorker[d], r)
      /\ \A r \in Reqs : h[r] \in Active => wc[r] \in Conns
  BY DEF RouteInv, OrderedOnce, Typed, TypeOK, ServerTypeOK, Buffers, HoldConns
<1>1. CASE ListCandidates(q) \/ PickWorker(q) \/ NoWorker(q) \/ RegisterPending(q)
  <2>1. /\ \A r \in Reqs : h[r] \in Dispatched => h'[r] \in Dispatched /\ wc'[r] = wc[r]
        /\ UNCHANGED <<wcOut, toWorker, task, home>>
    BY <1>0, <1>1 DEF ListCandidates, PickWorker, NoWorker, RegisterPending, Dispatched
  <2> QED
    BY <1>0, <2>1, RouteKept
<1>2. CASE DispatchTimesOut(q) \/ EncodeFails(q) \/ ReceiveChunk(q) \/ ReceiveDone(q)
           \/ ClientGone(q)
  <2>1. /\ \A r \in Reqs : h[r] \in Dispatched => h'[r] \in Dispatched /\ wc'[r] = wc[r]
        /\ UNCHANGED <<wcOut, toWorker, task, home>>
    BY <1>0, <1>2 DEF DispatchTimesOut, EncodeFails, ReceiveChunk, ReceiveDone, ClientGone,
       ClosePending, Dispatched
  <2> QED
    BY <1>0, <2>1, RouteKept
<1>3. CASE Dispatch(q)
  <2> DEFINE m == [type |-> "request", req |-> q]
             c == wc[q]
             old == wcOut[c]
  <2>1. /\ h[q] = "pended" /\ h' = [h EXCEPT ![q] = "streaming"]
        /\ wcOut' = [wcOut EXCEPT ![c] = Append(old, m)]
        /\ UNCHANGED <<toWorker, wc, task, home>>
    BY <1>3 DEF Dispatch, Queued
  <2>2. c \in Conns /\ old \in Seq(ChatOrder) /\ m \in ChatOrder
    BY <1>0, <2>1 DEF Active, ChatOrder
  <2>3. \A r \in Reqs : Asks(m, r) <=> r = q
    BY DEF Asks
  <2>4. \A d \in Conns : ~Asked(wcOut[d], q) /\ ~Asked(toWorker[d], q)
    BY <2>1 DEF RouteInv, OrderedOnce, Dispatched
  <2>5. task[q] = "none"
    BY <2>1 DEF RouteInv, RunsAtHome, Dispatched
  <2>6. wcOut'[c] = Append(old, m) /\ \A d \in Conns : d # c => wcOut'[d] = wcOut[d]
    BY <1>0, <2>1, <2>2
  <2>7. h'[q] = "streaming" /\ \A r \in Reqs : r # q => h'[r] = h[r]
    BY <1>0, <2>1
  <2> HIDE DEF m
  <2>8. ASSUME NEW r \in Reqs
        PROVE  /\ Asked(Append(old, m), r) <=> Asked(old, r) \/ r = q
               /\ Once(Append(old, m), r)
    <3>1. /\ Asked(Append(old, m), r) <=> Asked(old, r) \/ Asks(m, r)
          /\ Once(old, r) /\ (Asks(m, r) => ~Asked(old, r)) => Once(Append(old, m), r)
      BY <2>2, AskedAppend
    <3> QED
      BY <1>0, <2>2, <2>3, <2>4, <3>1
  <2>9. ASSUME NEW d \in Conns, NEW r \in Reqs PROVE OrderedOnce(d, r)'
    <3>1. /\ Asked(wcOut'[d], r) <=> Asked(wcOut[d], r) \/ (d = c /\ r = q)
          /\ Once(wcOut'[d], r)
      BY <1>0, <2>6, <2>8
    <3>2. OrderedOnce(d, r)
      BY DEF RouteInv
    <3> QED
      BY <2>1, <2>4, <2>5, <2>7, <3>1, <3>2 DEF OrderedOnce, Dispatched
  <2>10. \A r \in Reqs : RunsAtHome(r)'
    BY <2>1, <2>7 DEF RouteInv, RunsAtHome, Dispatched
  <2> QED
    BY <2>9, <2>10 DEF Routed
<1>4. CASE CancelOnWorker(q)
  <2> DEFINE m == [type |-> "cancel", req |-> q]
             c == wc[q]
  <2>1. /\ h[q] = "leaving" /\ h' = [h EXCEPT ![q] = "left"]
        /\ wcOut' = [wcOut EXCEPT ![c] = Append(wcOut[c], m)] \/ wcOut' = wcOut
        /\ UNCHANGED <<toWorker, wc, task, home>>
    BY <1>4 DEF CancelOnWorker, Queued, ClosePending
  <2>2. c \in Conns /\ m \in ChatOrder /\ \A r \in Reqs : ~Asks(m, r)
    BY <1>0, <2>1 DEF Active, ChatOrder, Asks
  <2>3. \A r \in Reqs : h[r] \in Dispatched => h'[r] \in Dispatched
    BY <1>0, <2>1 DEF Dispatched
  <2>4. \A d \in Conns : wcOut'[d] = wcOut[d] \/ wcOut'[d] = Append(wcOut[d], m)
    BY <1>0, <2>1, <2>2
  <2> HIDE DEF m
  <2>5. ASSUME NEW d \in Conns, NEW r \in Reqs
        PROVE  (Asked(wcOut'[d], r) => Asked(wcOut[d], r)) /\ Once(wcOut'[d], r)
    <3>1. wcOut[d] \in Seq(ChatOrder)
      BY <1>0
    <3>2. /\ Asked(Append(wcOut[d], m), r) <=> Asked(wcOut[d], r) \/ Asks(m, r)
          /\ Once(wcOut[d], r) /\ (Asks(m, r) => ~Asked(wcOut[d], r))
               => Once(Append(wcOut[d], m), r)
      BY <2>2, <3>1, AskedAppend
    <3> QED
      BY <1>0, <2>2, <2>4, <3>2
  <2> QED
    BY <1>0, <2>1, <2>3, <2>5, RouteKept
<1> QED
  BY <1>1, <1>2, <1>3, <1>4 DEF HandlerStep

LEMMA RouteSession ==
  ASSUME RouteInv, SessionNext, UNCHANGED serverVars
  PROVE  Routed'
<1> USE DEF serverVars, wireVars, taskVars
<1>0. /\ toWorker \in [Conns -> Seq(ToWorkerMsg)] /\ task \in [Reqs -> TaskState]
      /\ home \in [Reqs -> {None} \union Conns]
      /\ \A d \in Conns, r \in Reqs : Once(wcOut[d], r) /\ Once(toWorker[d], r)
  BY DEF RouteInv, OrderedOnce, Typed, TypeOK, SessionTypeOK, WireTypeOK, Buffers
<1>1. ASSUME \A d \in Conns : \/ toWorker'[d] = toWorker[d]
                              \/ toWorker'[d] = <<>>
                              \/ toWorker[d] # <<>> /\ toWorker'[d] = Tail(toWorker[d])
      PROVE  \A d \in Conns, r \in Reqs :
                (Asked(toWorker'[d], r) => Asked(toWorker[d], r)) /\ Once(toWorker'[d], r)
  <2> TAKE d \in Conns, r \in Reqs
  <2>1. toWorker[d] \in Seq(ToWorkerMsg) /\ Once(toWorker[d], r)
    BY <1>0
  <2>2. CASE toWorker'[d] = toWorker[d]
    BY <2>1, <2>2
  <2>3. CASE toWorker'[d] = <<>>
    BY <2>3, AskedEmpty
  <2>4. CASE toWorker[d] # <<>> /\ toWorker'[d] = Tail(toWorker[d])
    <3>1. /\ Asked(Tail(toWorker[d]), r) => Asked(toWorker[d], r)
          /\ Once(Tail(toWorker[d]), r)
      BY <2>1, <2>4, AskedTail
    <3> QED
      BY <2>4, <3>1
  <2> QED
    BY <1>1, <2>2, <2>3, <2>4
<1>2. ASSUME NEW r \in Reqs, TaskStep(r) PROVE Routed'
  <2>1. /\ \A q \in Reqs : task'[q] = "none" <=> task[q] = "none"
        /\ UNCHANGED <<toWorker, home>>
    <3> USE <1>0 DEF TaskStep
    <3>1. CASE StartTask(r)
      BY <3>1 DEF StartTask, FinishTask
    <3>2. CASE CallFails(r)
      BY <3>2 DEF CallFails, FinishTask
    <3>3. CASE CallAnswered(r)
      BY <3>3 DEF CallAnswered
    <3>4. CASE ForwardLine(r)
      BY <3>4 DEF ForwardLine
    <3>5. CASE StreamEnds(r)
      BY <3>5 DEF StreamEnds, FinishTask
    <3> QED
      BY <1>2, <3>1, <3>2, <3>3, <3>4, <3>5
  <2> QED
    BY <1>0, <2>1, RouteKept
<1>3. ASSUME NEW c \in Conns, Dial(c) \/ HeartbeatTick(c) \/ SessionWrite(c) PROVE Routed'
  <2>1. UNCHANGED <<toWorker, task, home>>
    BY <1>3 DEF Dial, HeartbeatTick, SessionWrite
  <2> QED
    BY <1>0, <2>1, RouteKept
<1>4. ASSUME NEW c \in Conns,
             RecvWelcome(c) \/ GreetingFails(c) \/ SessionEnds(c) \/ RecvCancel(c)
      PROVE  Routed'
  <2>1. /\ \A d \in Conns : \/ toWorker'[d] = toWorker[d]
                            \/ toWorker'[d] = <<>>
                            \/ toWorker[d] # <<>> /\ toWorker'[d] = Tail(toWorker[d])
        /\ UNCHANGED <<task, home>>
    BY <1>0, <1>4 DEF RecvWelcome, GreetingFails, SessionEnds, EndSession, RecvCancel
  <2> QED
    BY <1>0, <1>1, <2>1, RouteKept
<1>5. ASSUME NEW c \in Conns, RecvRequest(c) PROVE Routed'
  <2> DEFINE m == Head(toWorker[c])
             q == m.req
             old == toWorker[c]
  <2>1. /\ old # <<>> /\ m.type = "request"
        /\ task' = [task EXCEPT ![q] = "spawned"]
        /\ home' = [home EXCEPT ![q] = c]
        /\ toWorker' = [toWorker EXCEPT ![c] = Tail(old)]
    BY <1>5 DEF RecvRequest
  <2>2. m \in ToWorkerMsg /\ old \in Seq(ToWorkerMsg)
    BY <1>0, <2>1, HeadTailProperties
  <2>3. q \in Reqs
    BY <2>1, <2>2 DEF ToWorkerMsg, ChatOrder
  <2>4. Asks(m, q)
    BY <2>1 DEF Asks
  <2> HIDE DEF m, q
  <2>5. \A r \in Reqs : /\ Asked(old, r) <=> Asks(m, r) \/ Asked(Tail(old), r)
                        /\ Once(Tail(old), r)
                        /\ Asks(m, r) => ~Asked(Tail(old), r)
    BY <1>0, <2>1, <2>2, AskedTail DEF m
  <2>6. toWorker'[c] = Tail(old) /\ \A d \in Conns : d # c => toWorker'[d] = toWorker[d]
    BY <1>0, <2>1
  <2>7. h[q] \in Dispatched /\ wc[q] = c /\ task[q] = "none" /\ ~Asked(wcOut[c], q)
    BY <2>3, <2>4, <2>5 DEF RouteInv, OrderedOnce
  <2>8. \A r \in Reqs : RunsAtHome(r)'
    BY <1>0, <2>1, <2>3, <2>7 DEF RouteInv, RunsAtHome
  <2>9. \A r \in Reqs : r # q => task'[r] = task[r]
    BY <1>0, <2>1
  <2>10. ASSUME NEW d \in Conns PROVE ~Asked(wcOut[d], q) /\ ~Asked(toWorker'[d], q)
    <3>1. CASE d = c
      BY <2>3, <2>4, <2>5, <2>6, <2>7, <3>1
    <3>2. CASE d # c
      BY <2>3, <2>6, <2>7, <3>2 DEF RouteInv, OrderedOnce
    <3> QED
      BY <3>1, <3>2
  <2>11. ASSUME NEW d \in Conns, NEW r \in Reqs PROVE OrderedOnce(d, r)'
    <3>1. (Asked(toWorker'[d], r) => Asked(toWorker[d], r)) /\ Once(toWorker'[d], r)
      BY <1>0, <2>5, <2>6
    <3>2. OrderedOnce(d, r)
      BY DEF RouteInv
    <3> QED
      BY <2>9, <2>10, <3>1, <3>2 DEF OrderedOnce
  <2> QED
    BY <2>8, <2>11 DEF Routed
<1> QED
  BY <1>2, <1>3, <1>4, <1>5 DEF SessionNext, SessionStep

LEMMA RouteInit == Init => RouteInv
<1>1. Init => Typed
  BY TypedInit
<1> QED
  BY <1>1, AskedEmpty DEF Init, WireInit, ServerInit, SessionInit, RouteInv, RunsAtHome,
     OrderedOnce

LEMMA RouteStep == RouteInv /\ [Next]_vars => RouteInv'
<1> SUFFICES ASSUME RouteInv, [Next]_vars PROVE Routed'
  BY TypedStep DEF RouteInv, Routed
<1>0. /\ \A d \in Conns, r \in Reqs : Once(wcOut[d], r) /\ Once(toWorker[d], r)
      /\ h \in [Reqs -> HandlerState]
  BY DEF RouteInv, OrderedOnce, Typed, TypeOK, ServerTypeOK
<1>1. CASE SessionNext /\ UNCHANGED serverVars
  BY <1>1, RouteSession
<1>2. CASE UNCHANGED <<wcOut, toWorker, h, wc, task, home>>
  BY <1>0, <1>2, RouteKept
<1>3. CASE Breaks \/ UNCHANGED vars
  BY <1>2, <1>3 DEF Breaks, LinkFails, serverVars, sessionVars, vars, wireVars
<1>4. CASE (\E c \in Conns : ServeStep(c) \/ WriteOut(c)) /\ UNCHANGED sessionVars
  BY <1>4, RouteServe
<1>5. CASE (\E r \in Reqs : HandlerStep(r)) /\ UNCHANGED sessionVars
  BY <1>5, RouteHandler
<1>6. CASE ((\E w \in Workers : Expire(w) \/ ReapOne(w)) \/ ReapScan) /\ UNCHANGED sessionVars
  BY <1>2, <1>6 DEF Expire, ReapOne, ReapScan, handlerVars, wireVars, sessionVars
<1>7. CASE OrchestratorStops /\ UNCHANGED sessionVars
  <2>1. /\ \A c \in Conns : wcOut'[c] = <<>>
        /\ \A r \in Reqs : h[r] \in Dispatched => h'[r] \in Dispatched
        /\ UNCHANGED <<wc, toWorker, task, home>>
    BY <1>0, <1>7 DEF OrchestratorStops, Dispatched, sessionVars
  <2> QED
    BY <1>0, <2>1, AskedEmpty, RouteKept
<1> QED
  BY <1>1, <1>3, <1>4, <1>5, <1>6, <1>7 DEF Next, ServerNext
-----------------------------------------------------------------------------
(* The inflight map *)

\* A cancel function is called only after its request was started.
CancelledRan == \A r \in cancelled : task[r] \in Running \union Finished

InflightInv == RouteInv /\ InflightExact /\ CancelledRan

\* The end of a goroutine, wherever it was.
LEMMA FinishExact ==
  ASSUME InflightInv, NEW r \in Reqs, NEW ok \in BOOLEAN, FinishTask(r, ok),
         task[r] \in {"spawned"} \union Running
  PROVE  InflightExact' /\ CancelledRan'
<1>1. /\ \A q \in Reqs : q # r => task'[q] = task[q]
      /\ task'[r] \in Finished
  BY DEF FinishTask, Finished, InflightInv, RouteInv, Typed, TypeOK, SessionTypeOK
<1>2. inflight' = inflight \ {r} /\ cancelled' = cancelled /\ r \notin inflight'
  BY DEF FinishTask
<1>3. task'[r] \notin Running
  BY <1>1 DEF Finished, Running
<1>4. cancelled \subseteq Reqs
  BY DEF InflightInv, RouteInv, Typed, TypeOK, SessionTypeOK
<1> QED
  BY <1>1, <1>2, <1>3, <1>4 DEF InflightInv, InflightExact, CancelledRan

LEMMA InflightTask ==
  ASSUME InflightInv, NEW r \in Reqs, TaskStep(r)
  PROVE  InflightExact' /\ CancelledRan'
<1>0. /\ task \in [Reqs -> TaskState] /\ cancelled \subseteq Reqs /\ inflight \subseteq Reqs
      /\ InflightExact /\ CancelledRan
  BY DEF InflightInv, RouteInv, Typed, TypeOK, SessionTypeOK
<1>1. CASE StartTask(r)
  <2>1. CASE Owner[home[r]] \in Loaded
    <3>1. task' = [task EXCEPT ![r] = "calling"] /\ inflight' = inflight \union {r}
          /\ cancelled' = cancelled /\ task[r] = "spawned"
      BY <1>1, <2>1 DEF StartTask
    <3>2. r \notin cancelled
      BY <1>0, <3>1 DEF CancelledRan, Running, Finished
    <3> QED
      BY <1>0, <3>1, <3>2 DEF InflightExact, CancelledRan, Running, Finished
  <2>2. CASE Owner[home[r]] \notin Loaded
    BY <1>1, <2>2, FinishExact DEF StartTask
  <2> QED
    BY <2>1, <2>2
<1>2. CASE CallFails(r)
  BY <1>2, FinishExact DEF CallFails, Running
<1>3. CASE CallAnswered(r)
  <2>1. /\ task[r] = "calling" /\ task' = [task EXCEPT ![r] = "streaming"]
        /\ UNCHANGED <<inflight, cancelled>>
    BY <1>3 DEF CallAnswered
  <2> QED
    BY <1>0, <2>1 DEF InflightExact, CancelledRan, Running, Finished
<1>4. CASE ForwardLine(r)
  BY <1>0, <1>4 DEF ForwardLine, InflightExact, CancelledRan
<1>5. CASE StreamEnds(r)
  BY <1>5, FinishExact DEF StreamEnds, Running
<1> QED
  BY <1>1, <1>2, <1>3, <1>4, <1>5 DEF TaskStep

LEMMA InflightStep == InflightInv /\ [Next]_vars => InflightInv'
<1> SUFFICES ASSUME InflightInv, [Next]_vars PROVE InflightExact' /\ CancelledRan'
  BY RouteStep DEF InflightInv
<1>0. /\ task \in [Reqs -> TaskState] /\ cancelled \subseteq Reqs /\ inflight \subseteq Reqs
      /\ toWorker \in [Conns -> Seq(ToWorkerMsg)]
      /\ InflightExact /\ CancelledRan
  BY DEF InflightInv, RouteInv, Typed, TypeOK, SessionTypeOK, WireTypeOK, Buffers
<1>1. CASE UNCHANGED <<task, inflight, cancelled>>
  BY <1>0, <1>1 DEF InflightExact, CancelledRan
<1>2. CASE (ServerNext /\ UNCHANGED sessionVars) \/ Breaks \/ UNCHANGED vars
  BY <1>1, <1>2 DEF Breaks, vars, sessionVars
<1>3. ASSUME NEW c \in Conns, RecvRequest(c) PROVE InflightExact' /\ CancelledRan'
  <2> DEFINE m == Head(toWorker[c])
  <2>1. /\ toWorker[c] # <<>> /\ m.type = "request"
        /\ task' = [task EXCEPT ![m.req] = "spawned"]
        /\ UNCHANGED <<inflight, cancelled>>
    BY <1>3 DEF RecvRequest
  <2>2. m \in ToWorkerMsg
    BY <1>0, <2>1, HeadTailProperties
  <2>3. m.req \in Reqs /\ Asks(m, m.req)
    BY <2>1, <2>2 DEF ToWorkerMsg, ChatOrder, Asks
  <2>4. Asked(toWorker[c], m.req)
    BY <1>0, <2>1, <2>3, AskedTail
  <2>5. task[m.req] = "none"
    BY <2>3, <2>4 DEF InflightInv, RouteInv, OrderedOnce
  <2> HIDE DEF m
  <2> QED
    BY <1>0, <2>1, <2>3, <2>5 DEF InflightExact, CancelledRan, Running, Finished
<1>4. ASSUME NEW c \in Conns, RecvCancel(c) PROVE InflightExact' /\ CancelledRan'
  <2> DEFINE q == Head(toWorker[c]).req
  <2>1. /\ cancelled' = IF q \in inflight THEN cancelled \union {q} ELSE cancelled
        /\ inflight' = inflight \ {q} /\ task' = task
    BY <1>4 DEF RecvCancel
  <2> HIDE DEF q
  <2> QED
    BY <1>0, <2>1 DEF InflightExact, CancelledRan
<1>5. ASSUME NEW c \in Conns,
             Dial(c) \/ RecvWelcome(c) \/ GreetingFails(c) \/ SessionEnds(c)
               \/ HeartbeatTick(c) \/ SessionWrite(c)
      PROVE  InflightExact' /\ CancelledRan'
  BY <1>1, <1>5 DEF Dial, RecvWelcome, GreetingFails, SessionEnds, EndSession,
     HeartbeatTick, SessionWrite, taskVars
<1>6. CASE SessionNext
  BY <1>3, <1>4, <1>5, <1>6, InflightTask DEF SessionNext, SessionStep
<1> QED
  BY <1>2, <1>6 DEF Next

\* The inflight map holds exactly the running requests that can still be
\* cancelled: no Cancel ever meets the cancel function of another request, and
\* none is left behind.
THEOREM InflightStaysExact == Spec => []InflightExact
<1>1. Init => InflightInv
  BY RouteInit DEF Init, SessionInit, InflightInv, InflightExact, CancelledRan, Running
<1>2. InflightInv /\ [Next]_vars => InflightInv'
  BY InflightStep
<1>3. InflightInv => InflightExact
  BY DEF InflightInv
<1> QED
  BY <1>1, <1>2, <1>3, PTL DEF Spec
-----------------------------------------------------------------------------
(* Only workers with a model are asked *)

\* The Hello of a connection tells the truth about its worker, ...
HelloTrue == \A c \in Conns : \A i \in DOMAIN toServer[c] :
   toServer[c][i].type = "hello" => toServer[c][i].model = (Owner[c] \in Loaded)

\* ... so does the registry, ...
ModelsTrue == \A w \in Workers : registry[w] # None /\ registry[w].model => w \in Loaded

\* ... and what is taken from it.
ChoiceTrue == \A r \in Reqs :
   /\ cand[r] \subseteq Loaded
   /\ h[r] \in {"picked", "pended"} \union Dispatched => Owner[wc[r]] \in Loaded

LoadedInv == RouteInv /\ HelloTrue /\ ModelsTrue /\ ChoiceTrue

LEMMA HelloKept ==
  ASSUME NEW s \in Seq(ToServerMsg), NEW m \in ToServerMsg, NEW b \in BOOLEAN,
         \A i \in DOMAIN s : s[i].type = "hello" => s[i].model = b
  PROVE  /\ s # <<>> => \A i \in DOMAIN Tail(s) :
                           Tail(s)[i].type = "hello" => Tail(s)[i].model = b
         /\ s # <<>> /\ Head(s).type = "hello" => Head(s).model = b
         /\ m.type # "hello" => \A i \in DOMAIN Append(s, m) :
              Append(s, m)[i].type = "hello" => Append(s, m)[i].model = b
<1>1. ASSUME s # <<>>
      PROVE  /\ \A i \in DOMAIN Tail(s) : Tail(s)[i].type = "hello" => Tail(s)[i].model = b
             /\ Head(s).type = "hello" => Head(s).model = b
  <2>1. \A i \in DOMAIN Tail(s) : i + 1 \in DOMAIN s /\ Tail(s)[i] = s[i + 1]
    BY <1>1
  <2>2. Head(s) = s[1] /\ 1 \in DOMAIN s
    BY <1>1
  <2> QED
    BY <2>1, <2>2
<1>2. ASSUME m.type # "hello", NEW i \in DOMAIN Append(s, m)
      PROVE  Append(s, m)[i].type = "hello" => Append(s, m)[i].model = b
  <2>1. (i \in DOMAIN s /\ Append(s, m)[i] = s[i]) \/ Append(s, m)[i] = m
    OBVIOUS
  <2> QED
    BY <1>2, <2>1
<1> QED
  BY <1>1, <1>2

\* What is read from or written to a connection behind its Hello.
LEMMA HelloStep ==
  ASSUME LoadedInv, [Next]_vars
  PROVE  HelloTrue'
<1>0. /\ toServer \in [Conns -> Seq(ToServerMsg)] /\ sOut \in [Conns -> Seq(SessionMsg)]
      /\ HelloTrue
  BY DEF LoadedInv, RouteInv, Typed, TypeOK, SessionTypeOK, WireTypeOK, Buffers
<1>1. \A d \in Conns : toServer[d] # <<>> =>
         \A i \in DOMAIN Tail(toServer[d]) : Tail(toServer[d])[i].type = "hello" =>
            Tail(toServer[d])[i].model = (Owner[d] \in Loaded)
  <2>1. [type |-> "heartbeat", idle |-> TRUE] \in ToServerMsg
    BY DEF ToServerMsg, SessionMsg
  <2> QED
    BY <1>0, <2>1, HelloKept DEF HelloTrue
<1>2. ASSUME \A d \in Conns : \/ toServer'[d] = toServer[d] \/ toServer'[d] = <<>>
                              \/ toServer[d] # <<>> /\ toServer'[d] = Tail(toServer[d])
      PROVE  HelloTrue'
  <2>1. DOMAIN <<>> = {}
    OBVIOUS
  <2> QED
    BY <1>0, <1>1, <1>2, <2>1 DEF HelloTrue
<1>3. CASE UNCHANGED toServer
  BY <1>2, <1>3
<1>4. ASSUME NEW c \in Conns, ServeStep(c) \/ WriteOut(c) PROVE HelloTrue'
  <2>1. CASE ReadHello(c) \/ HelloFails(c)
    BY <1>0, <1>2, <2>1 DEF ReadHello, HelloFails
  <2>2. CASE ReadHeartbeat(c) \/ RouteChatReply(c) \/ RemoveAndClose(c)
    BY <1>0, <1>2, <2>2 DEF ReadHeartbeat, RouteChatReply, RemoveAndClose
  <2>3. CASE \/ AddConn(c) \/ SendWelcome(c) \/ WelcomeFails(c) \/ ReadFails(c)
             \/ Unlink(c) \/ CleanupCollect(c) \/ \E r \in Reqs : CleanupPush(c, r)
             \/ WriteOut(c)
    BY <1>3, <2>3 DEF AddConn, SendWelcome, WelcomeFails, ReadFails, Unlink,
       CleanupCollect, CleanupPush, WriteOut, wireVars
  <2> QED
    BY <1>4, <2>1, <2>2, <2>3 DEF ServeStep
<1>5. CASE \E r \in Reqs : HandlerStep(r)
  BY <1>3, <1>5 DEF HandlerStep, ListCandidates, PickWorker, NoWorker, RegisterPending,
     Dispatch, DispatchTimesOut, EncodeFails, ReceiveChunk, ReceiveDone, ClientGone,
     CancelOnWorker, wireVars
<1>6. CASE ((\E w \in Workers : Expire(w) \/ ReapOne(w)) \/ ReapScan)
  BY <1>3, <1>6 DEF Expire, ReapOne, ReapScan, wireVars
<1>7. CASE OrchestratorStops
  BY <1>2, <1>7 DEF OrchestratorStops
<1>8. CASE Breaks \/ UNCHANGED vars
  BY <1>3, <1>8 DEF Breaks, LinkFails, vars, wireVars
<1>9. ASSUME NEW c \in Conns, Dial(c) PROVE HelloTrue'
  <2> DEFINE m == [type |-> "hello", model |-> Owner[c] \in Loaded]
  <2>1. toServer' = [toServer EXCEPT ![c] = <<m>>]
    BY <1>9 DEF Dial
  <2>2. \A i \in DOMAIN <<m>> : <<m>>[i].model = (Owner[c] \in Loaded)
    OBVIOUS
  <2>3. toServer'[c] = <<m>> /\ \A d \in Conns : d # c => toServer'[d] = toServer[d]
    BY <1>0, <2>1
  <2> HIDE DEF m
  <2> QED
    BY <1>0, <2>2, <2>3 DEF HelloTrue
<1>10. ASSUME NEW c \in Conns, SessionWrite(c) PROVE HelloTrue'
  <2> DEFINE m == Head(sOut[c])
  <2>1. m \in SessionMsg
    BY <1>0, <1>10, HeadTailProperties DEF SessionWrite
  <2>2. m \in ToServerMsg /\ m.type # "hello"
    BY <2>1 DEF ToServerMsg, SessionMsg, ChatReply
  <2>3. \A d \in Conns : \/ toServer'[d] = toServer[d]
                         \/ toServer'[d] = Append(toServer[d], m)
    BY <1>0, <1>10 DEF SessionWrite, Written
  <2> HIDE DEF m
  <2>4. \A d \in Conns : \A i \in DOMAIN Append(toServer[d], m) :
           Append(toServer[d], m)[i].type = "hello" =>
              Append(toServer[d], m)[i].model = (Owner[d] \in Loaded)
    BY <1>0, <2>2, HelloKept DEF HelloTrue
  <2> QED
    BY <1>0, <2>3, <2>4 DEF HelloTrue
<1>11. ASSUME NEW c \in Conns,
              RecvWelcome(c) \/ GreetingFails(c) \/ SessionEnds(c) \/ HeartbeatTick(c)
                \/ RecvRequest(c) \/ RecvCancel(c)
       PROVE  HelloTrue'
  BY <1>3, <1>11 DEF RecvWelcome, GreetingFails, SessionEnds, EndSession, HeartbeatTick,
     RecvRequest, RecvCancel, wireVars
<1>12. ASSUME NEW r \in Reqs, TaskStep(r) PROVE HelloTrue'
  BY <1>3, <1>12 DEF TaskStep, StartTask, CallFails, CallAnswered, ForwardLine,
     StreamEnds, FinishTask, wireVars
<1> QED
  BY <1>4, <1>5, <1>6, <1>7, <1>8, <1>9, <1>10, <1>11, <1>12
     DEF Next, ServerNext, SessionNext, SessionStep

LEMMA ModelsStep ==
  ASSUME LoadedInv, ServerNext
  PROVE  ModelsTrue'
<1>0. /\ registry \in [Workers -> {None} \union Entry] /\ ModelsTrue
      /\ toServer \in [Conns -> Seq(ToServerMsg)]
  BY DEF LoadedInv, RouteInv, Typed, TypeOK, ServerTypeOK, WireTypeOK, Buffers
<1> USE OwnerAssumption
<1>1. CASE UNCHANGED registry
  BY <1>0, <1>1 DEF ModelsTrue
<1>2. ASSUME NEW c \in Conns, ReadHello(c) PROVE ModelsTrue'
  <2> DEFINE m == Head(toServer[c])
  <2>1. CASE m.type = "hello"
    <3>1. m.model = (Owner[c] \in Loaded)
      BY <1>0, <1>2, <2>1 DEF ReadHello, LoadedInv, HelloTrue
    <3>2. registry' = [registry EXCEPT ![Owner[c]] =
                         [model |-> m.model, idle |-> TRUE, fresh |-> TRUE]]
      BY <1>2, <2>1 DEF ReadHello, Add
    <3> HIDE DEF m
    <3> QED
      BY <1>0, <3>1, <3>2 DEF ModelsTrue
  <2>2. CASE m.type # "hello"
    BY <1>1, <1>2, <2>2 DEF ReadHello
  <2> QED
    BY <2>1, <2>2
<1>3. ASSUME NEW c \in Conns, ReadHeartbeat(c) \/ RemoveAndClose(c) PROVE ModelsTrue'
  BY <1>0, <1>3 DEF ReadHeartbeat, RemoveAndClose, Heartbeat, Remove, ModelsTrue, Entry
<1>4. ASSUME NEW w \in Workers, Expire(w) \/ ReapOne(w) PROVE ModelsTrue'
  <2>1. CASE Expire(w)
    <3>1. registry[w] # None /\ registry' = [registry EXCEPT ![w].fresh = FALSE]
      BY <2>1 DEF Expire
    <3>2. registry[w] \in Entry
      BY <1>0, <3>1
    <3>3. registry'[w].model = registry[w].model
      BY <1>0, <3>1, <3>2 DEF Entry
    <3>4. registry'[w] # None => registry[w] # None
      BY <3>1
    <3>5. \A v \in Workers : v # w => registry'[v] = registry[v]
      BY <1>0, <3>1
    <3> QED
      BY <1>0, <3>3, <3>4, <3>5 DEF ModelsTrue
  <2>2. CASE ReapOne(w)
    BY <1>0, <2>2 DEF ReapOne, Remove, ModelsTrue
  <2> QED
    BY <1>4, <2>1, <2>2
<1>5. ASSUME NEW c \in Conns,
             \/ HelloFails(c) \/ AddConn(c) \/ SendWelcome(c) \/ WelcomeFails(c)
             \/ RouteChatReply(c) \/ ReadFails(c) \/ Unlink(c) \/ CleanupCollect(c)
             \/ \E r \in Reqs : CleanupPush(c, r)
             \/ WriteOut(c)
      PROVE  ModelsTrue'
  BY <1>1, <1>5 DEF HelloFails, AddConn, SendWelcome, WelcomeFails, RouteChatReply,
     ReadFails, Unlink, CleanupCollect, CleanupPush, WriteOut
<1>6. CASE (\E r \in Reqs : HandlerStep(r)) \/ ReapScan
  BY <1>1, <1>6 DEF HandlerStep, ListCandidates, PickWorker, NoWorker, RegisterPending,
     Dispatch, DispatchTimesOut, EncodeFails, ReceiveChunk, ReceiveDone, ClientGone,
     CancelOnWorker, connVars, ReapScan
<1>7. CASE OrchestratorStops
  BY <1>7 DEF OrchestratorStops, ModelsTrue
<1> QED
  BY <1>2, <1>3, <1>4, <1>5, <1>6, <1>7 DEF ServerNext, ServeStep

LEMMA ChoiceStep ==
  ASSUME LoadedInv, ConnsAlive, ServerNext
  PROVE  ChoiceTrue'
<1>0. /\ h \in [Reqs -> HandlerState] /\ wc \in [Reqs -> {None} \union Conns]
      /\ cand \in [Reqs -> SUBSET Workers]
      /\ ChoiceTrue /\ ModelsTrue
  BY DEF LoadedInv, RouteInv, Typed, TypeOK, ServerTypeOK
<1>1. CASE UNCHANGED handlerVars
  BY <1>0, <1>1 DEF ChoiceTrue, handlerVars
<1>2. ASSUME NEW r \in Reqs, HandlerStep(r) PROVE ChoiceTrue'
  <2>1. CASE ListCandidates(r)
    BY <1>0, <2>1 DEF ListCandidates, ChoiceTrue, ModelsTrue, Dispatched
  <2>2. CASE PickWorker(r)
    <3>1. PICK w \in cand[r] : conns[w] # None /\ wc' = [wc EXCEPT ![r] = conns[w]]
      BY <2>2 DEF PickWorker
    <3>2. Owner[conns[w]] = w /\ w \in Loaded
      BY <1>0, <3>1 DEF ConnsAlive, ChoiceTrue
    <3> QED
      BY <1>0, <2>2, <3>1, <3>2 DEF PickWorker, ChoiceTrue
  <2>3. CASE NoWorker(r) \/ RegisterPending(r) \/ Dispatch(r) \/ ClientGone(r)
    BY <1>0, <2>3 DEF NoWorker, RegisterPending, Dispatch, ClientGone, ChoiceTrue, Dispatched
  <2>4. CASE \/ DispatchTimesOut(r) \/ EncodeFails(r) \/ ReceiveChunk(r) \/ ReceiveDone(r)
             \/ CancelOnWorker(r)
    BY <1>0, <2>4 DEF DispatchTimesOut, EncodeFails, ReceiveChunk, ReceiveDone,
       CancelOnWorker, ClosePending, ChoiceTrue, Dispatched
  <2> QED
    BY <1>2, <2>1, <2>2, <2>3, <2>4 DEF HandlerStep
<1>3. CASE \E c \in Conns : ServeStep(c) \/ WriteOut(c)
  BY <1>1, <1>3 DEF ServeStep, ReadHello, HelloFails, AddConn, SendWelcome, WelcomeFails,
     ReadHeartbeat, RouteChatReply, ReadFails, Unlink, CleanupCollect, CleanupPush,
     RemoveAndClose, WriteOut
<1>4. CASE (\E w \in Workers : Expire(w) \/ ReapOne(w)) \/ ReapScan
  BY <1>1, <1>4 DEF Expire, ReapOne, ReapScan
<1>5. CASE OrchestratorStops
  BY <1>0, <1>5 DEF OrchestratorStops, ChoiceTrue, Dispatched
<1> QED
  BY <1>2, <1>3, <1>4, <1>5 DEF ServerNext

LEMMA LoadedStep == LoadedInv /\ ConnsAlive /\ [Next]_vars => LoadedInv'
<1> SUFFICES ASSUME LoadedInv, ConnsAlive, [Next]_vars PROVE ModelsTrue' /\ ChoiceTrue'
  BY RouteStep, HelloStep DEF LoadedInv
<1>1. CASE ServerNext
  BY <1>1, ModelsStep, ChoiceStep
<1>2. CASE UNCHANGED <<registry, handlerVars>>
  BY <1>2 DEF LoadedInv, ModelsTrue, ChoiceTrue, handlerVars
<1> QED
  BY <1>1, <1>2 DEF Next, Breaks, vars, serverVars, handlerVars

\* A request is run only by a worker with a model, and by the one its handler
\* picked: handleChat never answers "worker has no model loaded".
THEOREM OnlyLoadedAsked == Spec => []AskedOnlyLoaded
<1>1. Init => LoadedInv
  BY RouteInit DEF Init, WireInit, ServerInit, LoadedInv, HelloTrue, ModelsTrue,
     ChoiceTrue, Dispatched
<1>2. LoadedInv /\ ConnsAlive /\ [Next]_vars => LoadedInv'
  BY LoadedStep
<1>3. LoadedInv => AskedOnlyLoaded
  BY DEF LoadedInv, RouteInv, RunsAtHome, ChoiceTrue, AskedOnlyLoaded
<1> QED
  BY <1>1, <1>2, <1>3, ConnsStayAlive, PTL DEF Spec
-----------------------------------------------------------------------------
(* A Cancel comes after its request, once *)

Revokes(m, r) == m.type = "cancel" /\ m.req = r

Revoked(s, r) == \E i \in DOMAIN s : Revokes(s[i], r)

\* A Cancel is the last word about its request.
LastWord(s, r) == \A i, j \in DOMAIN s :
                     Revokes(s[i], r) /\ i < j => ~Asks(s[j], r) /\ ~Revokes(s[j], r)

LEMMA RevokedAppend ==
  ASSUME NEW M, NEW s \in Seq(M), NEW m \in M, NEW r
  PROVE  /\ Revoked(Append(s, m), r) <=> Revoked(s, r) \/ Revokes(m, r)
         /\ LastWord(s, r) /\ (Asks(m, r) \/ Revokes(m, r) => ~Revoked(s, r))
              => LastWord(Append(s, m), r)
<1> DEFINE t == Append(s, m)
           n == Len(s)
<1>1. /\ n \in Nat /\ DOMAIN s = 1..n /\ DOMAIN t = 1..(n + 1)
      /\ \A i \in 1..n : t[i] = s[i]
      /\ t[n + 1] = m
  OBVIOUS
<1> HIDE DEF t, n
<1>2. /\ \A i : i \in 1..(n + 1) <=> i \in 1..n \/ i = n + 1
      /\ \A i \in 1..n : ~(n + 1 < i)
      /\ ~(n + 1 < n + 1)
  BY <1>1
<1>3. Revoked(t, r) <=> Revoked(s, r) \/ Revokes(m, r)
  BY <1>1, <1>2 DEF Revoked
<1>4. ASSUME LastWord(s, r), Asks(m, r) \/ Revokes(m, r) => ~Revoked(s, r),
             NEW i \in DOMAIN t, NEW j \in DOMAIN t, Revokes(t[i], r), i < j
      PROVE  ~Asks(t[j], r) /\ ~Revokes(t[j], r)
  <2>1. i \in 1..n
    BY <1>1, <1>2, <1>4
  <2>2. CASE j \in 1..n
    BY <1>1, <1>4, <2>1, <2>2 DEF LastWord
  <2>3. CASE j = n + 1
    BY <1>1, <1>4, <2>1, <2>3 DEF Revoked
  <2> QED
    BY <1>1, <1>2, <2>2, <2>3
<1> QED
  BY <1>3, <1>4 DEF t, LastWord

LEMMA RevokedTail ==
  ASSUME NEW M, NEW s \in Seq(M), s # <<>>, NEW r
  PROVE  /\ Revoked(s, r) <=> Revokes(Head(s), r) \/ Revoked(Tail(s), r)
         /\ LastWord(s, r) => LastWord(Tail(s), r)
         /\ LastWord(s, r) /\ Revokes(Head(s), r) => ~Revoked(Tail(s), r) /\ ~Asked(s, r)
<1> DEFINE t == Tail(s)
           n == Len(s)
<1>1. n \in Nat \ {0} /\ Head(s) = s[1] /\ DOMAIN s = 1..n
  BY EmptySeq
<1>2. t \in Seq(M) /\ Len(t) = n - 1 /\ \A i \in 1..Len(t) : t[i] = s[i + 1]
  BY HeadTailProperties
<1>3. DOMAIN t = 1..Len(t)
  BY <1>2, LenProperties
<1> HIDE DEF t, n
<1>4. DOMAIN t = 1..(n - 1) /\ \A i \in 1..(n - 1) : t[i] = s[i + 1]
  BY <1>2, <1>3
<1>5. /\ 1 \in 1..n
      /\ \A i \in 1..n : i = 1 \/ (1 < i /\ i - 1 \in 1..(n - 1) /\ t[i - 1] = s[i])
      /\ \A i \in 1..(n - 1) : i + 1 \in 1..n /\ 1 < i + 1
      /\ \A i, j \in 1..(n - 1) : i < j => i + 1 < j + 1
  BY <1>1, <1>4
<1>6. Revoked(s, r) <=> Revokes(Head(s), r) \/ Revoked(t, r)
  BY <1>1, <1>4, <1>5 DEF Revoked
<1>7. ASSUME LastWord(s, r), NEW i \in DOMAIN t, NEW j \in DOMAIN t,
             Revokes(t[i], r), i < j
      PROVE  ~Asks(t[j], r) /\ ~Revokes(t[j], r)
  <2>1. /\ i + 1 \in DOMAIN s /\ j + 1 \in DOMAIN s /\ i + 1 < j + 1
        /\ s[i + 1] = t[i] /\ s[j + 1] = t[j]
    BY <1>1, <1>4, <1>5, <1>7
  <2> QED
    BY <1>7, <2>1 DEF LastWord
<1>8. ASSUME LastWord(s, r), Revokes(Head(s), r) PROVE ~Revoked(t, r) /\ ~Asked(s, r)
  <2>0. ASSUME NEW i \in 1..(n - 1), Revokes(t[i], r) PROVE FALSE
    <3>1. i + 1 \in 1..n /\ 1 < i + 1 /\ s[i + 1] = t[i] /\ 1 \in 1..n
      BY <1>4, <1>5
    <3> QED
      BY <1>1, <1>8, <2>0, <3>1 DEF LastWord
  <2>1. ~Revoked(t, r)
    BY <1>4, <2>0 DEF Revoked
  <2>2. ~Asks(s[1], r)
    BY <1>1, <1>8 DEF Revokes, Asks
  <2>3. ASSUME NEW j \in 1..n, Asks(s[j], r) PROVE FALSE
    <3>1. j # 1 /\ 1 < j /\ Revokes(s[1], r)
      BY <1>1, <1>5, <1>8, <2>2, <2>3
    <3> QED
      BY <1>1, <1>5, <1>8, <2>3, <3>1 DEF LastWord
  <2>4. ~Asked(s, r)
    BY <1>1, <2>3 DEF Asked
  <2> QED
    BY <2>1, <2>4
<1> QED
  BY <1>6, <1>7, <1>8 DEF t, LastWord

LEMMA RevokedEmpty ==
  ASSUME NEW r
  PROVE  ~Revoked(<<>>, r) /\ LastWord(<<>>, r)
BY DEF Revoked, LastWord

\* Nothing more gets through to the worker.
Severed(c) == writer[c] = "failed" \/ link[c] = "down"

\* A request that was handed over is on its way, or has come, or is lost with its
\* connection; its Cancel follows it, once.
CancelOrder(c, r) ==
  /\ h[r] \in Dispatched /\ wc[r] = c =>
       \/ task[r] # "none" \/ Severed(c)
       \/ Asked(wcOut[c], r) \/ Asked(toWorker[c], r)
  /\ Revoked(wcOut[c], r) \/ Revoked(toWorker[c], r) =>
       h[r] = "left" /\ wc[r] = c /\ r \notin cancelled
  /\ LastWord(wcOut[c], r) /\ LastWord(toWorker[c], r)
  /\ ~(Revoked(wcOut[c], r) /\ Revoked(toWorker[c], r))
  /\ Revoked(toWorker[c], r) => task[r] # "none" \/ Asked(toWorker[c], r)

CancelInv == /\ \A r \in cancelled : h[r] = "left"
             /\ \A c \in Conns, r \in Reqs : CancelOrder(c, r)

\* Most steps take no message, or one that is about nothing else.
LEMMA CancelKept ==
  ASSUME RouteInv, CancelInv,
         \A r \in Reqs : /\ h[r] \in Dispatched => wc'[r] = wc[r]
                         /\ h[r] = "left" => h'[r] = "left"
                         /\ h'[r] \in Dispatched => h[r] \in Dispatched
                         /\ task[r] # "none" => task'[r] # "none",
         \A c \in Conns : Severed(c) => Severed(c)',
         \A r \in cancelled' :
            \/ r \in cancelled
            \/ /\ h'[r] = "left"
               /\ \A c \in Conns : ~Revoked(wcOut'[c], r) /\ ~Revoked(toWorker'[c], r),
         \A c \in Conns, r \in Reqs :
            /\ Revoked(wcOut'[c], r) => Revoked(wcOut[c], r)
            /\ Revoked(toWorker'[c], r) => Revoked(toWorker[c], r)
            /\ LastWord(wcOut'[c], r) /\ LastWord(toWorker'[c], r)
            /\ Asked(wcOut[c], r) \/ Asked(toWorker[c], r) =>
                 \/ task'[r] # "none" \/ Severed(c)'
                 \/ Asked(wcOut'[c], r) \/ Asked(toWorker'[c], r)
            /\ Asked(toWorker[c], r) /\ Revoked(toWorker'[c], r) =>
                 task'[r] # "none" \/ Asked(toWorker'[c], r)
  PROVE  CancelInv'
<1>0. cancelled \subseteq Reqs
  BY DEF RouteInv, Typed, TypeOK, SessionTypeOK
<1>1. ASSUME NEW r \in cancelled' PROVE h'[r] = "left"
  BY <1>0, <1>1 DEF CancelInv
<1>2. ASSUME NEW c \in Conns, NEW r \in Reqs PROVE CancelOrder(c, r)'
  <2>1. CancelOrder(c, r)
    BY DEF CancelInv
  <2>2. h'[r] \in Dispatched /\ wc'[r] = c =>
          \/ task'[r] # "none" \/ Severed(c)'
          \/ Asked(wcOut'[c], r) \/ Asked(toWorker'[c], r)
    BY <2>1 DEF CancelOrder
  <2>3. Revoked(wcOut'[c], r) \/ Revoked(toWorker'[c], r) =>
          h'[r] = "left" /\ wc'[r] = c /\ r \notin cancelled'
    BY <2>1 DEF CancelOrder, Dispatched
  <2>4. /\ LastWord(wcOut'[c], r) /\ LastWord(toWorker'[c], r)
        /\ ~(Revoked(wcOut'[c], r) /\ Revoked(toWorker'[c], r))
        /\ Revoked(toWorker'[c], r) => task'[r] # "none" \/ Asked(toWorker'[c], r)
    BY <2>1 DEF CancelOrder
  <2> QED
    BY <2>2, <2>3, <2>4 DEF CancelOrder
<1> QED
  BY <1>1, <1>2 DEF CancelInv

LEMMA SeveredStays ==
  ASSUME GreetInv, Next, NEW c \in Conns, Severed(c)
  PROVE  Severed(c)'
<1> USE DEF Severed
<1>0. /\ srv \in [Conns -> SrvState]
      /\ sess[c] = "none" <=> link[c] = "none"
      /\ sess[c] = "none" => srv[c] = "hello"
      /\ srv[c] \in Fresh => writer[c] = "off"
      /\ writer \in [Conns -> {"off", "on", "failed"}]
      /\ link \in [Conns -> {"none", "up", "down"}]
  BY DEF GreetInv, Greeting, Typed, TypeOK, ServerTypeOK, WireTypeOK
<1>1. CASE UNCHANGED <<link, writer>>
  BY <1>1
<1>2. ASSUME NEW d \in Conns, ServeStep(d) \/ WriteOut(d) PROVE Severed(c)'
  <2>1. CASE ReadHello(d) \/ HelloFails(d) \/ AddConn(d) \/ WelcomeFails(d)
             \/ ReadHeartbeat(d) \/ RouteChatReply(d) \/ ReadFails(d) \/ Unlink(d)
             \/ CleanupCollect(d) \/ \E r \in Reqs : CleanupPush(d, r)
    BY <1>0, <2>1 DEF ReadHello, HelloFails, AddConn, WelcomeFails, ReadHeartbeat,
       RouteChatReply, ReadFails, Unlink, CleanupCollect, CleanupPush, wireVars
  <2>2. CASE SendWelcome(d)
    BY <1>0, <2>2 DEF SendWelcome, Fresh
  <2>3. CASE RemoveAndClose(d)
    BY <1>0, <2>3 DEF RemoveAndClose
  <2>4. CASE WriteOut(d)
    BY <1>0, <2>4 DEF WriteOut
  <2> QED
    BY <1>2, <2>1, <2>2, <2>3, <2>4 DEF ServeStep
<1>3. CASE OrchestratorStops
  <2>1. link[c] # "none"
    BY <1>0 DEF Fresh
  <2> QED
    BY <1>3, <2>1 DEF OrchestratorStops
<1>4. ASSUME NEW r \in Reqs, HandlerStep(r) PROVE Severed(c)'
  BY <1>1, <1>4 DEF HandlerStep, connVars, wireVars, ListCandidates, PickWorker, NoWorker,
     RegisterPending, Dispatch, DispatchTimesOut, EncodeFails, ReceiveChunk, ReceiveDone,
     ClientGone, CancelOnWorker
<1>5. CASE (\E w \in Workers : Expire(w) \/ ReapOne(w)) \/ ReapScan
  BY <1>1, <1>5 DEF Expire, ReapOne, ReapScan, wireVars
<1>6. CASE Breaks
  BY <1>0, <1>6 DEF Breaks, LinkFails, serverVars
<1>7. CASE SessionNext /\ UNCHANGED serverVars
  <2>1. ASSUME NEW r \in Reqs, TaskStep(r) PROVE UNCHANGED link
    BY <2>1 DEF TaskStep, StartTask, CallFails, CallAnswered, ForwardLine, StreamEnds,
       FinishTask, wireVars
  <2>2. ASSUME NEW d \in Conns, Dial(d) PROVE Severed(c)'
    BY <1>0, <1>7, <2>2 DEF Dial, serverVars, Fresh
  <2>3. ASSUME NEW d \in Conns, SessionStep(d) PROVE Severed(c)'
    BY <1>0, <1>7, <2>3 DEF SessionStep, RecvWelcome, GreetingFails, SessionEnds,
       EndSession, HeartbeatTick, SessionWrite, RecvRequest, RecvCancel, wireVars,
       serverVars
  <2> QED
    BY <1>1, <1>7, <2>1, <2>2, <2>3 DEF SessionNext, serverVars
<1> QED
  BY <1>2, <1>3, <1>4, <1>5, <1>6, <1>7 DEF Next, ServerNext

\* What the writer of a connection, or nobody, moves.
LEMMA CancelServe ==
  ASSUME RouteInv, GreetInv, CancelInv, Next, NEW c \in Conns, ServeStep(c) \/ WriteOut(c),
         UNCHANGED sessionVars
  PROVE  CancelInv'
<1> USE DEF handlerVars, sessionVars, wireVars
<1>0. /\ wcOut \in [Conns -> Seq(ChatOrder)] /\ toWorker \in [Conns -> Seq(ToWorkerMsg)]
      /\ \A d \in Conns, r \in Reqs :
            /\ LastWord(wcOut[d], r) /\ LastWord(toWorker[d], r)
            /\ CancelOrder(d, r) /\ OrderedOnce(d, r)
      /\ \A r \in cancelled : h[r] = "left"
  BY DEF RouteInv, CancelInv, CancelOrder, Typed, TypeOK, ServerTypeOK, WireTypeOK, Buffers
<1>1. \A d \in Conns : Severed(d) => Severed(d)'
  BY SeveredStays
<1>2. UNCHANGED <<h, wc, task, cancelled>>
  BY DEF ServeStep, ReadHello, HelloFails, AddConn, SendWelcome, WelcomeFails,
     ReadHeartbeat, RouteChatReply, ReadFails, Unlink, CleanupCollect, CleanupPush,
     RemoveAndClose, WriteOut
<1>3. CASE UNCHANGED <<wcOut, toWorker>>
  BY <1>0, <1>1, <1>2, <1>3, CancelKept
<1>4. CASE SendWelcome(c)
  <2> DEFINE m == [type |-> "welcome"]
  <2>1. m \in ToWorkerMsg /\ \A r \in Reqs : ~Asks(m, r) /\ ~Revokes(m, r)
    BY DEF ToWorkerMsg, Asks, Revokes
  <2>2. /\ \A d \in Conns : toWorker'[d] = toWorker[d] \/ toWorker'[d] = Append(toWorker[d], m)
        /\ wcOut' = wcOut
    BY <1>0, <1>4 DEF SendWelcome, Written
  <2> HIDE DEF m
  <2>3. ASSUME NEW d \in Conns, NEW r \in Reqs
        PROVE  /\ Asked(toWorker'[d], r) <=> Asked(toWorker[d], r)
               /\ Revoked(toWorker'[d], r) <=> Revoked(toWorker[d], r)
               /\ LastWord(toWorker'[d], r)
    <3>1. toWorker[d] \in Seq(ToWorkerMsg)
      BY <1>0
    <3>2. Asked(Append(toWorker[d], m), r) <=> Asked(toWorker[d], r)
      BY <2>1, <3>1, AskedAppend
    <3>3. /\ Revoked(Append(toWorker[d], m), r) <=> Revoked(toWorker[d], r)
          /\ LastWord(toWorker[d], r) => LastWord(Append(toWorker[d], m), r)
      BY <2>1, <3>1, RevokedAppend
    <3> QED
      BY <1>0, <2>2, <3>2, <3>3
  <2> QED
    BY <1>0, <1>1, <1>2, <2>2, <2>3, CancelKept
<1>5. CASE WriteOut(c)
  <2> DEFINE m == Head(wcOut[c])
             old == wcOut[c]
             wire == toWorker[c]
  <2>1. /\ old # <<>> /\ writer[c] = "on"
        /\ wcOut'[c] = Tail(old) /\ \A d \in Conns : d # c => wcOut'[d] = wcOut[d]
    BY <1>0, <1>5 DEF WriteOut
  <2>2. old \in Seq(ChatOrder) /\ wire \in Seq(ToWorkerMsg)
    BY <1>0
  <2>3. m \in ToWorkerMsg
    BY <2>1, <2>2, HeadTailProperties DEF ToWorkerMsg
  <2>4. link[c] # "none" /\ link \in [Conns -> {"none", "up", "down"}]
        /\ writer \in [Conns -> {"off", "on", "failed"}]
    BY <2>1 DEF GreetInv, Greeting, Fresh, Typed, TypeOK, WireTypeOK, ServerTypeOK
  <2> HIDE DEF m
  <2>5. \A r \in Reqs :
           /\ Asked(old, r) <=> Asks(m, r) \/ Asked(Tail(old), r)
           /\ Revoked(old, r) <=> Revokes(m, r) \/ Revoked(Tail(old), r)
           /\ LastWord(Tail(old), r)
           /\ Revokes(m, r) => ~Revoked(Tail(old), r) /\ ~Asked(old, r)
    BY <1>0, <2>1, <2>2, AskedTail, RevokedTail DEF m
  <2>6. CASE Severed(c)' /\ toWorker' = toWorker
    <3>1. ASSUME NEW d \in Conns, NEW r \in Reqs
          PROVE  /\ Revoked(wcOut'[d], r) => Revoked(wcOut[d], r)
                 /\ LastWord(wcOut'[d], r)
                 /\ d # c => wcOut'[d] = wcOut[d]
      BY <1>0, <2>1, <2>5
    <3> HIDE DEF old, wire
    <3> QED
      BY <1>0, <1>1, <1>2, <2>6, <3>1, CancelKept
  <2>7. CASE ~Severed(c) /\ toWorker'[c] = Append(wire, m)
             /\ \A d \in Conns : d # c => toWorker'[d] = toWorker[d]
    <3> HIDE DEF old, wire
    <3>1. ASSUME NEW r \in Reqs PROVE CancelOrder(c, r)'
      <4>1. /\ Asked(Append(wire, m), r) <=> Asked(wire, r) \/ Asks(m, r)
            /\ Revoked(Append(wire, m), r) <=> Revoked(wire, r) \/ Revokes(m, r)
            /\ LastWord(wire, r) /\ (Asks(m, r) \/ Revokes(m, r) => ~Revoked(wire, r))
                 => LastWord(Append(wire, m), r)
        BY <2>2, <2>3, AskedAppend, RevokedAppend
      <4>2. CancelOrder(c, r) /\ OrderedOnce(c, r)
        BY <1>0
      <4>3. Asks(m, r) => ~Revoked(wire, r)
        BY <2>5, <4>2 DEF CancelOrder, OrderedOnce, old, wire
      <4>4. Revokes(m, r) => ~Revoked(wire, r) /\ (task[r] # "none" \/ Asked(wire, r))
        BY <2>5, <2>7, <4>2 DEF CancelOrder, Dispatched, old, wire
      <4>5. /\ LastWord(wire, r)
            /\ h[r] \in Dispatched /\ wc[r] = c =>
                  task[r] # "none" \/ Asked(old, r) \/ Asked(wire, r)
            /\ Revoked(old, r) \/ Revoked(wire, r) =>
                  h[r] = "left" /\ wc[r] = c /\ r \notin cancelled
            /\ ~(Revoked(old, r) /\ Revoked(wire, r))
            /\ Revoked(wire, r) => task[r] # "none" \/ Asked(wire, r)
        BY <2>7, <4>2 DEF CancelOrder, old, wire
      <4> QED
        BY <1>2, <2>1, <2>5, <2>7, <4>1, <4>3, <4>4, <4>5 DEF CancelOrder
    <3>2. ASSUME NEW d \in Conns, d # c, NEW r \in Reqs PROVE CancelOrder(d, r)'
      BY <1>0, <1>1, <1>2, <2>1, <2>7, <3>2 DEF CancelOrder
    <3> QED
      BY <1>0, <1>2, <3>1, <3>2 DEF CancelInv
  <2>8. (Severed(c)' /\ toWorker' = toWorker)
          \/ (~Severed(c) /\ toWorker'[c] = Append(wire, m)
                /\ \A d \in Conns : d # c => toWorker'[d] = toWorker[d])
    BY <1>0, <1>5, <2>1, <2>4 DEF WriteOut, Written, Severed, m
  <2> QED
    BY <2>6, <2>7, <2>8
<1> QED
  BY <1>3, <1>4, <1>5 DEF ServeStep, ReadHello, HelloFails, AddConn, WelcomeFails,
     ReadHeartbeat, RouteChatReply, ReadFails, Unlink, CleanupCollect, CleanupPush,
     RemoveAndClose

\* A handler hands over its request, then at most one Cancel.
LEMMA CancelHandler ==
  ASSUME RouteInv, GreetInv, CancelInv, Next, NEW q \in Reqs, HandlerStep(q),
         UNCHANGED sessionVars
  PROVE  CancelInv'
<1> USE DEF connVars, sessionVars, taskVars, wireVars
<1>0. /\ wcOut \in [Conns -> Seq(ChatOrder)] /\ h \in [Reqs -> HandlerState]
      /\ wc \in [Reqs -> {None} \union Conns] /\ cancelled \subseteq Reqs
      /\ \A d \in Conns, r \in Reqs :
            /\ LastWord(wcOut[d], r) /\ LastWord(toWorker[d], r)
            /\ CancelOrder(d, r)
      /\ \A r \in Reqs : h[r] \in Active => wc[r] \in Conns
      /\ \A r \in cancelled : h[r] = "left"
  BY DEF RouteInv, CancelInv, CancelOrder, Typed, TypeOK, ServerTypeOK, SessionTypeOK,
     Buffers, HoldConns
<1>1. \A d \in Conns : Severed(d) => Severed(d)'
  BY SeveredStays
<1>2. UNCHANGED <<toWorker, task, cancelled>>
  BY DEF HandlerStep, ListCandidates, PickWorker, NoWorker, RegisterPending, Dispatch,
     DispatchTimesOut, EncodeFails, ReceiveChunk, ReceiveDone, ClientGone, CancelOnWorker
<1>3. CASE \/ ListCandidates(q) \/ PickWorker(q) \/ NoWorker(q) \/ RegisterPending(q)
           \/ DispatchTimesOut(q) \/ EncodeFails(q) \/ ReceiveChunk(q) \/ ReceiveDone(q)
           \/ ClientGone(q)
  <2>1. wcOut' = wcOut
    BY <1>3 DEF ListCandidates, PickWorker, NoWorker, RegisterPending, DispatchTimesOut,
       EncodeFails, ReceiveChunk, ReceiveDone, ClientGone
  <2>2. \A r \in Reqs : /\ h[r] \in Dispatched => wc'[r] = wc[r]
                        /\ h[r] = "left" => h'[r] = "left"
                        /\ h'[r] \in Dispatched => h[r] \in Dispatched
    <3>1. CASE ListCandidates(q) \/ PickWorker(q) \/ NoWorker(q) \/ RegisterPending(q)
      BY <1>0, <3>1 DEF ListCandidates, PickWorker, NoWorker, RegisterPending, Dispatched
    <3>2. CASE DispatchTimesOut(q) \/ EncodeFails(q)
      BY <1>0, <3>2 DEF DispatchTimesOut, EncodeFails, ClosePending, Dispatched
    <3>3. CASE ReceiveChunk(q) \/ ReceiveDone(q) \/ ClientGone(q)
      BY <1>0, <3>3 DEF ReceiveChunk, ReceiveDone, ClientGone, ClosePending, Dispatched
    <3> QED
      BY <1>3, <3>1, <3>2, <3>3
  <2> QED
    BY <1>0, <1>1, <1>2, <2>1, <2>2, CancelKept
<1>4. ASSUME NEW m \in ChatOrder, m.req = q, h[q] \in {"pended", "leaving"},
             wcOut' = [wcOut EXCEPT ![wc[q]] = Append(@, m)], wc' = wc,
             \/ Asks(m, q) /\ ~Revokes(m, q) /\ h' = [h EXCEPT ![q] = "streaming"]
             \/ Revokes(m, q) /\ h[q] = "leaving" /\ h' = [h EXCEPT ![q] = "left"]
      PROVE  CancelInv'
  <2>0. PICK c \in Conns : c = wc[q]
    BY <1>0, <1>4 DEF Active
  <2> DEFINE old == wcOut[c]
  <2>1. old \in Seq(ChatOrder)
    BY <1>0
  <2>2. wcOut'[c] = Append(old, m) /\ \A d \in Conns : d # c => wcOut'[d] = wcOut[d]
    BY <1>0, <1>4, <2>0
  <2>3. /\ \A r \in Reqs : r # q => h'[r] = h[r] /\ ~Asks(m, r) /\ ~Revokes(m, r)
        /\ h'[q] \in {"streaming", "left"}
    BY <1>0, <1>4 DEF Asks, Revokes
  <2>4. \A d \in Conns : ~Revoked(wcOut[d], q) /\ ~Revoked(toWorker[d], q)
    BY <1>0, <1>4 DEF CancelOrder
  <2>5. q \notin cancelled
    BY <1>0, <1>4
  <2> HIDE DEF old
  <2>6. ASSUME NEW r \in Reqs
        PROVE  /\ Asked(Append(old, m), r) <=> Asked(old, r) \/ Asks(m, r)
               /\ Revoked(Append(old, m), r) <=> Revoked(old, r) \/ Revokes(m, r)
               /\ LastWord(Append(old, m), r)
    <3>1. /\ Revoked(Append(old, m), r) <=> Revoked(old, r) \/ Revokes(m, r)
          /\ LastWord(old, r) /\ (Asks(m, r) \/ Revokes(m, r) => ~Revoked(old, r))
               => LastWord(Append(old, m), r)
      BY <2>1, RevokedAppend
    <3>2. Asked(Append(old, m), r) <=> Asked(old, r) \/ Asks(m, r)
      BY <2>1, AskedAppend
    <3>3. LastWord(old, r) /\ (Asks(m, r) \/ Revokes(m, r) => ~Revoked(old, r))
      BY <1>0, <2>1, <2>3, <2>4 DEF old
    <3> QED
      BY <3>1, <3>2, <3>3
  <2>7. ASSUME NEW r \in Reqs, r # q, NEW d \in Conns PROVE CancelOrder(d, r)'
    <3>1. /\ Asked(wcOut'[d], r) <=> Asked(wcOut[d], r)
          /\ Revoked(wcOut'[d], r) <=> Revoked(wcOut[d], r)
          /\ LastWord(wcOut'[d], r)
      BY <1>0, <2>2, <2>3, <2>6, <2>7 DEF old
    <3>2. CancelOrder(d, r)
      BY <1>0
    <3> QED
      BY <1>1, <1>2, <1>4, <2>3, <2>7, <3>1, <3>2 DEF CancelOrder
  <2>8. ASSUME NEW d \in Conns, d # c PROVE CancelOrder(d, q)'
    BY <1>0, <1>2, <1>4, <2>0, <2>2, <2>4, <2>8 DEF CancelOrder
  <2>9. CancelOrder(c, q)'
    <3>1. CancelOrder(c, q)
      BY <1>0, <2>1
    <3>2. \/ task[q] # "none" \/ Severed(c)' \/ Asked(Append(old, m), q)
          \/ Asked(toWorker[c], q)
      BY <1>1, <1>4, <2>0, <2>6, <3>1 DEF CancelOrder, Dispatched, old
    <3>3. Revokes(m, q) => h'[q] = "left"
      BY <1>0, <1>4 DEF Revokes, Asks
    <3>4. ~Revoked(old, q) /\ ~Revoked(toWorker[c], q) /\ LastWord(toWorker[c], q)
      BY <1>0, <2>1, <2>4 DEF old
    <3>5. wc'[q] = c
      BY <1>4, <2>0
    <3> QED
      BY <1>2, <2>2, <2>5, <2>6, <3>2, <3>3, <3>4, <3>5 DEF CancelOrder
  <2>10. \A r \in cancelled' : h'[r] = "left"
    BY <1>0, <1>2, <2>3, <2>5
  <2> QED
    BY <2>7, <2>8, <2>9, <2>10 DEF CancelInv
<1>5. CASE Dispatch(q)
  <2> DEFINE m == [type |-> "request", req |-> q]
  <2>1. m \in ChatOrder /\ m.req = q /\ Asks(m, q) /\ ~Revokes(m, q)
    BY DEF ChatOrder, Asks, Revokes
  <2> HIDE DEF m
  <2> QED
    BY <1>4, <1>5, <2>1 DEF Dispatch, Queued, m
<1>6. CASE CancelOnWorker(q)
  <2> DEFINE m == [type |-> "cancel", req |-> q]
  <2>1. m \in ChatOrder /\ m.req = q /\ Revokes(m, q)
    BY DEF ChatOrder, Revokes
  <2>2. h[q] = "leaving" /\ h' = [h EXCEPT ![q] = "left"] /\ wc' = wc
    BY <1>6 DEF CancelOnWorker, ClosePending
  <2>3. CASE wcOut' = wcOut
    <3>1. \A r \in Reqs : /\ h[r] = "left" => h'[r] = "left"
                          /\ h'[r] \in Dispatched => h[r] \in Dispatched
      BY <1>0, <2>2 DEF Dispatched
    <3> QED
      BY <1>0, <1>1, <1>2, <2>2, <2>3, <3>1, CancelKept
  <2>4. CASE wcOut' = Queued(wc[q], "cancel", q)
    <3>1. wcOut' = [wcOut EXCEPT ![wc[q]] = Append(@, m)]
      BY <2>4 DEF Queued
    <3> HIDE DEF m
    <3> QED
      BY <1>4, <2>1, <2>2, <3>1
  <2> QED
    BY <1>6, <2>3, <2>4 DEF CancelOnWorker
<1> QED
  BY <1>3, <1>5, <1>6 DEF HandlerStep

\* The worker takes its messages one by one, or loses them with its session.
LEMMA CancelSession ==
  ASSUME RouteInv, GreetInv, CancelInv, Next, SessionNext, UNCHANGED serverVars
  PROVE  CancelInv'
<1> USE DEF serverVars, wireVars, taskVars
<1>0. /\ toWorker \in [Conns -> Seq(ToWorkerMsg)] /\ task \in [Reqs -> TaskState]
      /\ \A d \in Conns, r \in Reqs :
            /\ LastWord(wcOut[d], r) /\ LastWord(toWorker[d], r)
            /\ CancelOrder(d, r)
      /\ \A r \in cancelled : h[r] = "left"
      /\ cancelled \subseteq Reqs
  BY DEF RouteInv, CancelInv, CancelOrder, Typed, TypeOK, SessionTypeOK, WireTypeOK, Buffers
<1>1. \A d \in Conns : Severed(d) => Severed(d)'
  BY SeveredStays
<1>2. UNCHANGED <<h, wc, wcOut>>
  OBVIOUS
<1>3. ASSUME \A r \in Reqs : task[r] # "none" => task'[r] # "none",
             UNCHANGED <<toWorker, cancelled>>
      PROVE  CancelInv'
  BY <1>0, <1>1, <1>2, <1>3, CancelKept
<1>4. ASSUME NEW r \in Reqs, TaskStep(r) PROVE CancelInv'
  <2>1. /\ \A q \in Reqs : task[q] # "none" => task'[q] # "none"
        /\ UNCHANGED <<toWorker, cancelled>>
    <3> USE <1>0 DEF TaskStep
    <3>1. CASE StartTask(r)
      BY <3>1 DEF StartTask, FinishTask
    <3>2. CASE CallFails(r)
      BY <3>2 DEF CallFails, FinishTask
    <3>3. CASE CallAnswered(r)
      BY <3>3 DEF CallAnswered
    <3>4. CASE ForwardLine(r)
      BY <3>4 DEF ForwardLine
    <3>5. CASE StreamEnds(r)
      BY <3>5 DEF StreamEnds, FinishTask
    <3> QED
      BY <1>4, <3>1, <3>2, <3>3, <3>4, <3>5
  <2> QED
    BY <1>3, <2>1
<1>5. ASSUME NEW c \in Conns, Dial(c) \/ HeartbeatTick(c) \/ SessionWrite(c)
      PROVE  CancelInv'
  BY <1>3, <1>5 DEF Dial, HeartbeatTick, SessionWrite
<1>6. ASSUME NEW c \in Conns, GreetingFails(c) \/ SessionEnds(c) PROVE CancelInv'
  <2>1. /\ link' = [link EXCEPT ![c] = "down"] /\ UNCHANGED <<task, cancelled>>
        /\ toWorker' = [toWorker EXCEPT ![c] = <<>>]
    BY <1>6 DEF GreetingFails, SessionEnds, EndSession
  <2>2. Severed(c)'
    BY <2>1 DEF Severed, RouteInv, Typed, TypeOK, WireTypeOK
  <2>3. toWorker'[c] = <<>> /\ \A d \in Conns : d # c => toWorker'[d] = toWorker[d]
    BY <1>0, <2>1
  <2>4. ASSUME NEW d \in Conns, NEW r \in Reqs
        PROVE  /\ Revoked(toWorker'[d], r) => d # c
               /\ LastWord(toWorker'[d], r)
    BY <1>0, <2>3, RevokedEmpty
  <2> QED
    BY <1>0, <1>1, <1>2, <2>1, <2>2, <2>3, <2>4, CancelKept
<1>7. ASSUME NEW c \in Conns, toWorker[c] # <<>>,
             toWorker' = [toWorker EXCEPT ![c] = Tail(@)],
             \A r \in Reqs : task[r] # "none" => task'[r] # "none",
             \A r \in Reqs : Asks(Head(toWorker[c]), r) => task'[r] # "none",
             \A r \in cancelled' : r \in cancelled \/ Revokes(Head(toWorker[c]), r),
             cancelled' \subseteq Reqs
      PROVE  CancelInv'
  <2> DEFINE m == Head(toWorker[c])
             old == toWorker[c]
  <2>1. old \in Seq(ToWorkerMsg) /\ toWorker'[c] = Tail(old)
        /\ \A d \in Conns : d # c => toWorker'[d] = toWorker[d]
    BY <1>0, <1>7
  <2>2. \A r \in Reqs : /\ Asked(old, r) <=> Asks(m, r) \/ Asked(Tail(old), r)
                        /\ Revoked(old, r) <=> Revokes(m, r) \/ Revoked(Tail(old), r)
                        /\ LastWord(Tail(old), r)
                        /\ Revokes(m, r) => ~Revoked(Tail(old), r)
    BY <1>0, <1>7, <2>1, AskedTail, RevokedTail
  <2>3. \A r \in Reqs : Asks(m, r) => task'[r] # "none"
    BY <1>7
  <2>4. \A r \in cancelled' : r \in Reqs /\ (r \in cancelled \/ Revokes(m, r))
    BY <1>7
  <2> HIDE DEF m
  <2>5. ASSUME NEW r \in Reqs, Revokes(m, r)
        PROVE  /\ h'[r] = "left"
               /\ \A d \in Conns : ~Revoked(wcOut'[d], r) /\ ~Revoked(toWorker'[d], r)
    <3>1. Revoked(toWorker[c], r)
      BY <2>2, <2>5
    <3>2. h[r] = "left" /\ wc[r] = c /\ ~Revoked(wcOut[c], r)
      BY <1>0, <3>1 DEF CancelOrder
    <3>3. \A d \in Conns : d # c => ~Revoked(wcOut[d], r) /\ ~Revoked(toWorker[d], r)
      BY <1>0, <3>2 DEF CancelOrder
    <3> QED
      BY <1>2, <2>1, <2>2, <2>5, <3>2, <3>3
  <2>6. ASSUME NEW d \in Conns, NEW r \in Reqs
        PROVE  /\ Revoked(toWorker'[d], r) => Revoked(toWorker[d], r)
               /\ LastWord(toWorker'[d], r)
               /\ Asked(toWorker[d], r) => task'[r] # "none" \/ Asked(toWorker'[d], r)
    BY <1>0, <2>1, <2>2, <2>3
  <2> HIDE DEF old
  <2> QED
    BY <1>0, <1>1, <1>2, <1>7, <2>4, <2>5, <2>6, CancelKept
<1>8. ASSUME NEW c \in Conns, RecvWelcome(c) PROVE CancelInv'
  <2>1. Head(toWorker[c]).type = "welcome"
    BY <1>8 DEF RecvWelcome, GreetInv, Greeting
  <2> QED
    BY <1>0, <1>7, <1>8, <2>1 DEF RecvWelcome, Asks
<1>9. ASSUME NEW c \in Conns, RecvRequest(c) PROVE CancelInv'
  <2> DEFINE m == Head(toWorker[c])
  <2>1. m \in ToWorkerMsg /\ m.type = "request"
    BY <1>0, <1>9, HeadTailProperties DEF RecvRequest
  <2>2. m.req \in Reqs
    BY <2>1 DEF ToWorkerMsg, ChatOrder
  <2>3. task' = [task EXCEPT ![m.req] = "spawned"] /\ cancelled' = cancelled
    BY <1>9 DEF RecvRequest
  <2>4. /\ \A r \in Reqs : task[r] # "none" => task'[r] # "none"
        /\ \A r \in Reqs : Asks(m, r) => task'[r] # "none"
    BY <1>0, <2>2, <2>3 DEF Asks
  <2> QED
    BY <1>0, <1>7, <1>9, <2>3, <2>4 DEF RecvRequest
<1>10. ASSUME NEW c \in Conns, RecvCancel(c) PROVE CancelInv'
  <2> DEFINE m == Head(toWorker[c])
  <2>1. m \in ToWorkerMsg /\ m.type = "cancel"
    BY <1>0, <1>10, HeadTailProperties DEF RecvCancel
  <2>2. m.req \in Reqs /\ Revokes(m, m.req) /\ \A r \in Reqs : ~Asks(m, r)
    BY <2>1 DEF ToWorkerMsg, ChatOrder, Asks, Revokes
  <2>3. cancelled' \subseteq cancelled \union {m.req} /\ task' = task
    BY <1>10 DEF RecvCancel
  <2>4. toWorker[c] # <<>> /\ toWorker' = [toWorker EXCEPT ![c] = Tail(@)]
    BY <1>10 DEF RecvCancel
  <2>5. \A r \in cancelled' : r \in cancelled \/ Revokes(m, r)
    BY <2>2, <2>3
  <2>6. cancelled' \subseteq Reqs
    BY <1>0, <2>2, <2>3
  <2> QED
    BY <1>7, <2>2, <2>3, <2>4, <2>5, <2>6
<1> QED
  BY <1>4, <1>5, <1>6, <1>8, <1>9, <1>10 DEF SessionNext, SessionStep

LEMMA CancelStep ==
  ASSUME RouteInv, GreetInv, PicksKnown, CancelInv, [Next]_vars
  PROVE  CancelInv'
<1>0. /\ \A d \in Conns, r \in Reqs :
            /\ LastWord(wcOut[d], r) /\ LastWord(toWorker[d], r)
            /\ OrderedOnce(d, r)
      /\ h \in [Reqs -> HandlerState]
  BY DEF RouteInv, CancelInv, CancelOrder, Typed, TypeOK, ServerTypeOK
<1>1. CASE UNCHANGED vars
  BY <1>1 DEF CancelInv, CancelOrder, Severed, vars, wireVars, serverVars, sessionVars
<1>2. CASE Next
  <2>1. \A d \in Conns : Severed(d) => Severed(d)'
    BY <1>2, SeveredStays
  <2>2. ASSUME UNCHANGED <<wcOut, toWorker, h, wc, task, cancelled>> PROVE CancelInv'
    BY <1>0, <2>1, <2>2, CancelKept
  <2>3. CASE SessionNext /\ UNCHANGED serverVars
    BY <1>2, <2>3, CancelSession
  <2>4. CASE Breaks
    BY <2>2, <2>4 DEF Breaks, LinkFails, serverVars, sessionVars
  <2>5. CASE (\E c \in Conns : ServeStep(c) \/ WriteOut(c)) /\ UNCHANGED sessionVars
    BY <1>2, <2>5, CancelServe
  <2>6. CASE (\E r \in Reqs : HandlerStep(r)) /\ UNCHANGED sessionVars
    BY <1>2, <2>6, CancelHandler
  <2>7. CASE ((\E w \in Workers : Expire(w) \/ ReapOne(w)) \/ ReapScan)
             /\ UNCHANGED sessionVars
    BY <2>2, <2>7 DEF Expire, ReapOne, ReapScan, handlerVars, wireVars, sessionVars
  <2>8. CASE OrchestratorStops /\ UNCHANGED sessionVars
    <3>1. /\ \A c \in Conns : wcOut'[c] = <<>>
          /\ \A r \in Reqs : /\ h[r] \in Dispatched <=> h'[r] \in Dispatched
                             /\ h[r] = "left" => h'[r] = "left"
          /\ UNCHANGED <<wc, toWorker, task, cancelled>>
      BY <1>0, <2>8 DEF OrchestratorStops, Dispatched, sessionVars
    <3>2. ASSUME NEW c \in Conns, NEW r \in Reqs, Asked(wcOut[c], r) PROVE Severed(c)'
      <4>1. wc[r] = c /\ wc[r] # None
        BY <1>0, <3>2, NoneAssumption DEF OrderedOnce
      <4>2. link[c] # "none"
        BY <4>1 DEF PicksKnown, GreetInv, Greeting
      <4> QED
        BY <2>8, <4>2 DEF OrchestratorStops, Severed
    <3> QED
      BY <1>0, <2>1, <3>1, <3>2, RevokedEmpty, CancelKept
  <2> QED
    BY <1>2, <2>3, <2>4, <2>5, <2>6, <2>7, <2>8 DEF Next, ServerNext
<1> QED
  BY <1>1, <1>2

LEMMA CancelAlways == Spec => [](RouteInv /\ GreetInv /\ CancelInv)
<1>1. Init => CancelInv
  BY RevokedEmpty, AskedEmpty DEF Init, WireInit, ServerInit, SessionInit, CancelInv,
     CancelOrder, Dispatched
<1>2. RouteInv /\ GreetInv /\ PicksKnown /\ CancelInv /\ [Next]_vars => CancelInv'
  BY CancelStep
<1> QED
  BY <1>1, <1>2, RouteInit, RouteStep, GreetInit, GreetStep, PicksAreKnown, PTL DEF Spec

\* A Cancel that a worker reads is for a request this worker was asked, over this
\* connection, and comes once: readLoop finds the cancel function, unless the
\* goroutine has not registered it yet or has ended.
THEOREM CancelsFindTasks == Spec => []CancelFindsTask
<1>1. Init => RouteInv /\ InflightExact /\ CancelledRan
  BY RouteInit DEF Init, SessionInit, InflightExact, CancelledRan, Running
<1>2. InflightInv /\ CancelInv => CancelFindsTask
  <2> SUFFICES ASSUME InflightInv, CancelInv, NEW c \in Conns, toWorker[c] # <<>>,
                      Head(toWorker[c]).type = "cancel"
               PROVE  LET r == Head(toWorker[c]).req
                      IN  /\ home[r] = c
                          /\ r \in inflight \/ task[r] \in {"spawned"} \union Finished
    BY DEF CancelFindsTask
  <2> DEFINE m == Head(toWorker[c])
             r == m.req
  <2>1. toWorker[c] \in Seq(ToWorkerMsg)
    BY DEF InflightInv, RouteInv, Typed, TypeOK, WireTypeOK, Buffers
  <2>2. m \in ToWorkerMsg
    BY <2>1, HeadTailProperties
  <2>3. r \in Reqs /\ Revokes(m, r)
    BY <2>2 DEF ToWorkerMsg, ChatOrder, Revokes
  <2>4. CancelOrder(c, r) /\ RunsAtHome(r) /\ InflightExact /\ task[r] \in TaskState
    BY <2>3 DEF InflightInv, RouteInv, CancelInv, Typed, TypeOK, SessionTypeOK
  <2>5. Revoked(toWorker[c], r) /\ ~Asked(toWorker[c], r)
    BY <2>1, <2>3, <2>4, RevokedTail DEF CancelOrder
  <2>6. task[r] # "none" /\ wc[r] = c /\ r \notin cancelled
    BY <2>4, <2>5 DEF CancelOrder
  <2> HIDE DEF m, r
  <2>7. home[r] = c
    BY <2>4, <2>6 DEF RunsAtHome
  <2>8. r \in inflight \/ task[r] \in {"spawned"} \union Finished
    BY <2>3, <2>4, <2>6 DEF InflightExact, TaskState
  <2> QED
    BY <2>7, <2>8 DEF r, m
<1>3. RouteInv /\ InflightExact /\ CancelledRan /\ [Next]_vars
         => (RouteInv /\ InflightExact /\ CancelledRan)'
  BY InflightStep DEF InflightInv
<1>4. RouteInv /\ InflightExact /\ CancelledRan /\ CancelInv => CancelFindsTask
  BY <1>2 DEF InflightInv
<1> QED
  BY <1>1, <1>3, <1>4, CancelAlways, PTL DEF Spec
=============================================================================
