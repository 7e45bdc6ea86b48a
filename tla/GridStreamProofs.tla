-------------------------- MODULE GridStreamProofs --------------------------
(***************************************************************************)
(* Theorems about Grid: the answer of a request on its way from            *)
(* llama-server to the client, through session.out, the connection and the *)
(* channel of its handler.                                                 *)
(***************************************************************************)
EXTENDS GridRouteProofs

(* The messages of a request in a buffer *)

\* A message for the handler of r.
Of(m, r) == \/ m.type = "lost"
            \/ m.type \in {"chunk", "done"} /\ m.req = r

Msgs(s, r) == {s[i] : i \in {j \in DOMAIN s : Of(s[j], r)}}

\* Nothing but a "worker disconnected" follows an end of stream, and the lines
\* ascend.
Before(a, b) == /\ b.type \in {"chunk", "done"} => a.type = "chunk"
                /\ b.type = "chunk" => a.line < b.line

Precede(A, B) == \A a \in A, b \in B : Before(a, b)

Ascends(s, r) ==
  \A i, j \in DOMAIN s : i < j /\ Of(s[i], r) /\ Of(s[j], r) => Before(s[i], s[j])

LEMMA MsgsAppend ==
  ASSUME NEW M, NEW s \in Seq(M), NEW m \in M, NEW r
  PROVE  /\ Msgs(Append(s, m), r) = IF Of(m, r) THEN Msgs(s, r) \union {m} ELSE Msgs(s, r)
         /\ Ascends(s, r) /\ (Of(m, r) => \A a \in Msgs(s, r) : Before(a, m))
              => Ascends(Append(s, m), r)
<1> DEFINE t == Append(s, m)
           n == Len(s)
<1>1. /\ n \in Nat /\ DOMAIN s = 1..n /\ DOMAIN t = 1..(n + 1)
      /\ \A i \in 1..n : t[i] = s[i]
      /\ t[n + 1] = m
  OBVIOUS
<1> HIDE DEF t, n
<1>2. \A i : i \in 1..(n + 1) <=> i \in 1..n \/ i = n + 1
  BY <1>1
<1>3. ASSUME NEW a
      PROVE  a \in Msgs(t, r) <=> a \in Msgs(s, r) \/ (Of(m, r) /\ a = m)
  BY <1>1, <1>2 DEF Msgs
<1>4. ASSUME Ascends(s, r), Of(m, r) => \A a \in Msgs(s, r) : Before(a, m),
             NEW i \in DOMAIN t, NEW j \in DOMAIN t, i < j, Of(t[i], r), Of(t[j], r)
      PROVE  Before(t[i], t[j])
  <2>1. i \in 1..n /\ t[i] = s[i] /\ (j \in 1..n \/ j = n + 1)
    BY <1>1, <1>2, <1>4
  <2>2. CASE j \in 1..n
    BY <1>1, <1>4, <2>1, <2>2 DEF Ascends
  <2>3. CASE j = n + 1
    <3>1. s[i] \in Msgs(s, r)
      BY <1>1, <1>4, <2>1 DEF Msgs
    <3> QED
      BY <1>1, <1>4, <2>1, <2>3, <3>1
  <2> QED
    BY <2>1, <2>2, <2>3
<1>5. Msgs(t, r) = IF Of(m, r) THEN Msgs(s, r) \union {m} ELSE Msgs(s, r)
  BY <1>3
<1> QED
  BY <1>4, <1>5 DEF t, Ascends

LEMMA MsgsTail ==
  ASSUME NEW M, NEW s \in Seq(M), s # <<>>, NEW r
  PROVE  /\ Msgs(s, r) = IF Of(Head(s), r) THEN {Head(s)} \union Msgs(Tail(s), r)
                         ELSE Msgs(Tail(s), r)
         /\ Ascends(s, r) => /\ Ascends(Tail(s), r)
                             /\ Of(Head(s), r) =>
                                  \A b \in Msgs(Tail(s), r) : Before(Head(s), b)
<1> DEFINE t == Tail(s)
           n == Len(s)
           m == Head(s)
<1>1. n \in Nat \ {0} /\ m = s[1] /\ DOMAIN s = 1..n
  BY EmptySeq
<1>2. t \in Seq(M) /\ Len(t) = n - 1 /\ \A i \in 1..Len(t) : t[i] = s[i + 1]
  BY HeadTailProperties
<1>3. DOMAIN t = 1..Len(t)
  BY <1>2, LenProperties
<1> HIDE DEF t, n, m
<1>4. DOMAIN t = 1..(n - 1) /\ \A i \in 1..(n - 1) : t[i] = s[i + 1]
  BY <1>2, <1>3
<1>5. /\ 1 \in 1..n
      /\ \A i \in 1..n : i = 1 \/ (i - 1 \in 1..(n - 1) /\ t[i - 1] = s[i])
      /\ \A i \in 1..(n - 1) : i + 1 \in 1..n /\ 1 < i + 1
      /\ \A i, j \in 1..(n - 1) : i < j => i + 1 < j + 1
  BY <1>1, <1>4
<1>6. ASSUME NEW a
      PROVE  a \in Msgs(s, r) <=> a \in Msgs(t, r) \/ (Of(m, r) /\ a = m)
  <2>1. ASSUME a \in Msgs(s, r) PROVE a \in Msgs(t, r) \/ (Of(m, r) /\ a = m)
    <3>1. PICK i \in 1..n : Of(s[i], r) /\ a = s[i]
      BY <1>1, <2>1 DEF Msgs
    <3>2. i = 1 \/ (i - 1 \in 1..(n - 1) /\ t[i - 1] = s[i])
      BY <1>5
    <3> QED
      BY <1>1, <1>4, <3>1, <3>2 DEF Msgs
  <2>2. ASSUME a \in Msgs(t, r) PROVE a \in Msgs(s, r)
    <3>1. PICK i \in 1..(n - 1) : Of(t[i], r) /\ a = t[i]
      BY <1>4, <2>2 DEF Msgs
    <3>2. i + 1 \in 1..n /\ t[i] = s[i + 1]
      BY <1>4, <1>5
    <3> QED
      BY <1>1, <3>1, <3>2 DEF Msgs
  <2>3. ASSUME Of(m, r), a = m PROVE a \in Msgs(s, r)
    BY <1>1, <1>5, <2>3 DEF Msgs
  <2> QED
    BY <2>1, <2>2, <2>3
<1>7. ASSUME Ascends(s, r), NEW i \in DOMAIN t, NEW j \in DOMAIN t, i < j, Of(t[i], r),
             Of(t[j], r)
      PROVE  Before(t[i], t[j])
  <2>1. /\ i + 1 \in DOMAIN s /\ j + 1 \in DOMAIN s /\ i + 1 < j + 1
        /\ s[i + 1] = t[i] /\ s[j + 1] = t[j]
    BY <1>1, <1>4, <1>5, <1>7
  <2> QED
    BY <1>7, <2>1 DEF Ascends
<1>8. ASSUME Ascends(s, r), Of(m, r), NEW b \in Msgs(t, r) PROVE Before(m, b)
  <2>1. PICK i \in 1..(n - 1) : Of(t[i], r) /\ b = t[i]
    BY <1>4, <1>8 DEF Msgs
  <2>2. i + 1 \in DOMAIN s /\ 1 \in DOMAIN s /\ 1 < i + 1 /\ s[i + 1] = b
    BY <1>1, <1>4, <1>5, <2>1
  <2> QED
    BY <1>1, <1>8, <2>1, <2>2 DEF Ascends
<1>9. Msgs(s, r) = IF Of(m, r) THEN {m} \union Msgs(t, r) ELSE Msgs(t, r)
  BY <1>6
<1> QED
  BY <1>7, <1>8, <1>9 DEF t, m, Ascends

LEMMA MsgsEmpty ==
  ASSUME NEW r
  PROVE  Msgs(<<>>, r) = {} /\ Ascends(<<>>, r)
BY DEF Msgs, Ascends
-----------------------------------------------------------------------------
(* Where a request runs *)

\* The session of a goroutine was welcomed, and the connection a handler holds
\* has read its Hello.
Homes == /\ \A c \in Conns : sess[c] = "over" => link[c] = "down"
         /\ \A r \in Reqs : task[r] # "none" => sess[home[r]] \in {"live", "over"}
         /\ \A r \in Reqs : wc[r] # None => srv[wc[r]] # "hello"

LEMMA HomesServer ==
  ASSUME RouteInv, ConnsAlive, Homes, ServerNext, UNCHANGED sessionVars
  PROVE  Homes'
<1>0. /\ srv \in [Conns -> SrvState] /\ wc \in [Reqs -> {None} \union Conns]
      /\ conns \in [Workers -> {None} \union Conns]
      /\ cand \in [Reqs -> SUBSET Workers]
      /\ link \in [Conns -> {"none", "up", "down"}]
  BY DEF RouteInv, Typed, TypeOK, WireTypeOK, ServerTypeOK
<1>1. ASSUME \A c \in Conns : link'[c] \in {link[c], "down"},
             \A c \in Conns : srv'[c] = "hello" => srv[c] = "hello",
             \A r \in Reqs : wc'[r] # None => wc'[r] = wc[r] \/ srv'[wc'[r]] # "hello"
      PROVE  Homes'
  BY <1>0, <1>1 DEF Homes, sessionVars
<1>2. CASE UNCHANGED <<link, srv, wc>>
  BY <1>1, <1>2
<1>3. ASSUME NEW c \in Conns, ServeStep(c) PROVE Homes'
  <2>1. wc' = wc
    BY <1>3 DEF ServeStep, ReadHello, HelloFails, AddConn, SendWelcome, WelcomeFails,
       ReadHeartbeat, RouteChatReply, ReadFails, Unlink, CleanupCollect, CleanupPush,
       RemoveAndClose, handlerVars
  <2>2. CASE ReadHello(c) \/ HelloFails(c) \/ RemoveAndClose(c)
    BY <1>0, <1>1, <2>1, <2>2 DEF ReadHello, HelloFails, RemoveAndClose
  <2>3. CASE AddConn(c) \/ SendWelcome(c) \/ WelcomeFails(c) \/ ReadFails(c)
    BY <1>0, <1>1, <2>1, <2>3 DEF AddConn, SendWelcome, WelcomeFails, ReadFails, wireVars
  <2>4. CASE ReadHeartbeat(c) \/ RouteChatReply(c)
    BY <1>0, <1>1, <2>1, <2>4 DEF ReadHeartbeat, RouteChatReply, AfterRead
  <2>5. CASE Unlink(c) \/ CleanupCollect(c) \/ \E r \in Reqs : CleanupPush(c, r)
    BY <1>0, <1>1, <2>1, <2>5 DEF Unlink, CleanupCollect, CleanupPush, wireVars
  <2> QED
    BY <1>3, <2>2, <2>3, <2>4, <2>5 DEF ServeStep
<1>4. ASSUME NEW r \in Reqs, PickWorker(r) PROVE Homes'
  <2>1. PICK w \in cand[r] : conns[w] # None /\ wc' = [wc EXCEPT ![r] = conns[w]]
    BY <1>4 DEF PickWorker
  <2>2. w \in Workers /\ srv[conns[w]] # "hello"
    BY <1>0, <2>1 DEF ConnsAlive
  <2>3. UNCHANGED <<link, srv>>
    BY <1>4 DEF PickWorker, connVars, wireVars
  <2> QED
    BY <1>0, <1>1, <2>1, <2>2, <2>3
<1>5. CASE \E r \in Reqs : HandlerStep(r)
  BY <1>2, <1>4, <1>5 DEF HandlerStep, ListCandidates, NoWorker, RegisterPending,
     Dispatch, DispatchTimesOut, EncodeFails, ReceiveChunk, ReceiveDone, ClientGone,
     CancelOnWorker, connVars, wireVars
<1>6. CASE (\E w \in Workers : Expire(w) \/ ReapOne(w)) \/ ReapScan
           \/ \E c \in Conns : WriteOut(c)
  BY <1>2, <1>6 DEF Expire, ReapOne, ReapScan, WriteOut, handlerVars, wireVars
<1>7. CASE OrchestratorStops
  BY <1>0, <1>1, <1>7 DEF OrchestratorStops
<1> QED
  BY <1>3, <1>5, <1>6, <1>7 DEF ServerNext

LEMMA HomesStep ==
  ASSUME RouteInv, ConnsAlive, Homes, [Next]_vars
  PROVE  Homes'
<1>0. /\ sess \in [Conns -> {"none", "greeting", "live", "over"}]
      /\ link \in [Conns -> {"none", "up", "down"}] /\ task \in [Reqs -> TaskState]
      /\ home \in [Reqs -> {None} \union Conns]
      /\ \A r \in Reqs : task[r] # "none" => home[r] \in Conns
      /\ toWorker \in [Conns -> Seq(ToWorkerMsg)]
  BY DEF RouteInv, Typed, TypeOK, WireTypeOK, SessionTypeOK, HoldConns, Buffers
<1>1. CASE ServerNext /\ UNCHANGED sessionVars
  BY <1>1, HomesServer
<1>2. CASE Breaks \/ UNCHANGED vars
  BY <1>0, <1>2 DEF Breaks, LinkFails, Homes, vars, wireVars, serverVars, sessionVars
<1>3. CASE SessionNext /\ UNCHANGED serverVars
  <2> USE DEF serverVars
  <2>1. ASSUME NEW c \in Conns, Dial(c) PROVE Homes'
    BY <1>0, <1>3, <2>1 DEF Dial, Homes, taskVars
  <2>2. ASSUME NEW c \in Conns, RecvWelcome(c) PROVE Homes'
    BY <1>0, <1>3, <2>2 DEF RecvWelcome, Homes, taskVars
  <2>3. ASSUME NEW c \in Conns, GreetingFails(c) \/ SessionEnds(c) PROVE Homes'
    <3>1. /\ sess' = [sess EXCEPT ![c] = "over"] /\ link' = [link EXCEPT ![c] = "down"]
          /\ sess[c] \in {"greeting", "live"} /\ UNCHANGED <<task, home, wc, srv>>
      BY <1>3, <2>3 DEF GreetingFails, SessionEnds, EndSession, taskVars
    <3>2. \A d \in Conns : sess'[d] = "over" => link'[d] = "down"
      BY <1>0, <3>1 DEF Homes
    <3>3. \A r \in Reqs : task'[r] # "none" => sess'[home'[r]] \in {"live", "over"}
      BY <1>0, <3>1 DEF Homes
    <3> QED
      BY <3>1, <3>2, <3>3 DEF Homes
  <2>4. ASSUME NEW c \in Conns, HeartbeatTick(c) \/ SessionWrite(c) \/ RecvCancel(c)
        PROVE  Homes'
    BY <1>0, <1>3, <2>4 DEF HeartbeatTick, SessionWrite, RecvCancel, Homes, taskVars,
       wireVars
  <2>5. ASSUME NEW c \in Conns, RecvRequest(c) PROVE Homes'
    BY <1>0, <1>3, <2>5 DEF RecvRequest, Homes
  <2>6. ASSUME NEW r \in Reqs, TaskStep(r) PROVE Homes'
    <3>1. UNCHANGED <<link, sess, home>>
      BY <2>6 DEF TaskStep, StartTask, CallFails, CallAnswered, ForwardLine, StreamEnds,
         FinishTask, wireVars
    <3>2. \A q \in Reqs : task'[q] # "none" => task[q] # "none"
      BY <1>0, <2>6 DEF TaskStep, StartTask, CallFails, CallAnswered, ForwardLine,
         StreamEnds, FinishTask
    <3> QED
      BY <1>3, <3>1, <3>2 DEF Homes
  <2> QED
    BY <1>3, <2>1, <2>2, <2>3, <2>4, <2>5, <2>6 DEF SessionNext, SessionStep
<1> QED
  BY <1>1, <1>2, <1>3 DEF Next
-----------------------------------------------------------------------------
(* The channel of a handler *)

\* Nothing is shown before the dispatch, a channel holds only what is for its
\* handler, and who is told of a lost worker, or will be, is no longer pending.
Channelled(r) ==
  /\ h[r] \notin Dispatched => got[r] = <<>>
  /\ \A i \in DOMAIN ch[r] : Of(ch[r][i], r)
  /\ (\E c \in Conns : r \in orphans[c]) \/ Told(ch[r]) => r \notin pending

ChannelInv == LostInv /\ \A r \in Reqs : Channelled(r)

LEMMA OfAppend ==
  ASSUME NEW s \in Seq(Reply), NEW m \in Reply, NEW r, Of(m, r),
         \A i \in DOMAIN s : Of(s[i], r)
  PROVE  /\ \A i \in DOMAIN Append(s, m) : Of(Append(s, m)[i], r)
         /\ m.type # "lost" /\ Told(Append(s, m)) => Told(s)
<1> DEFINE t == Append(s, m)
           n == Len(s)
<1>1. /\ n \in Nat /\ DOMAIN s = 1..n /\ DOMAIN t = 1..(n + 1)
      /\ \A i \in 1..n : t[i] = s[i]
      /\ t[n + 1] = m
  OBVIOUS
<1> HIDE DEF t, n
<1>2. \A i : i \in 1..(n + 1) <=> i \in 1..n \/ i = n + 1
  BY <1>1
<1> QED
  BY <1>1, <1>2 DEF t, Told

LEMMA OfTail ==
  ASSUME NEW s \in Seq(Reply), s # <<>>, NEW r, \A i \in DOMAIN s : Of(s[i], r)
  PROVE  /\ Of(Head(s), r)
         /\ \A i \in DOMAIN Tail(s) : Of(Tail(s)[i], r)
         /\ Told(Tail(s)) => Told(s)
<1> DEFINE t == Tail(s)
           n == Len(s)
<1>1. n \in Nat \ {0} /\ Head(s) = s[1] /\ DOMAIN s = 1..n
  BY EmptySeq
<1>2. t \in Seq(Reply) /\ Len(t) = n - 1 /\ \A i \in 1..Len(t) : t[i] = s[i + 1]
  BY HeadTailProperties
<1>3. DOMAIN t = 1..Len(t)
  BY <1>2, LenProperties
<1> HIDE DEF t, n
<1>4. /\ 1 \in 1..n
      /\ \A i \in 1..(n - 1) : i + 1 \in 1..n /\ t[i] = s[i + 1]
      /\ DOMAIN t = 1..(n - 1)
  BY <1>1, <1>2, <1>3
<1> QED
  BY <1>1, <1>4 DEF t, Told

LEMMA ChannelServe ==
  ASSUME ChannelInv, NEW c \in Conns, ServeStep(c) \/ WriteOut(c), NEW r \in Reqs
  PROVE  Channelled(r)'
<1> USE DEF handlerVars
<1>0. /\ ch \in [Reqs -> Seq(Reply)] /\ toServer \in [Conns -> Seq(ToServerMsg)]
      /\ orphans \in [Conns -> SUBSET Reqs] /\ Channelled(r) /\ PendingActive
      /\ pending \subseteq Reqs
  BY DEF ChannelInv, LostInv, Typed, TypeOK, ServerTypeOK, WireTypeOK, Buffers
<1>1. CASE UNCHANGED <<orphans, pending, ch, h, got>>
  BY <1>0, <1>1 DEF Channelled
<1>2. CASE RouteChatReply(c)
  <2> DEFINE m == Head(toServer[c])
  <2>1. /\ UNCHANGED <<orphans, pending, h, got>>
        /\ ch' = ch \/ (m.req \in pending /\ ch' = [ch EXCEPT ![m.req] = Append(@, m)])
        /\ m.type \in {"chunk", "done"} /\ toServer[c] # <<>>
    BY <1>2 DEF RouteChatReply
  <2>2. m \in ToServerMsg
    BY <1>0, <2>1, HeadTailProperties
  <2>3. m \in Reply /\ Of(m, m.req) /\ m.type # "lost"
    BY <2>1, <2>2 DEF ToServerMsg, SessionMsg, Reply, ChatReply, Of
  <2> HIDE DEF m
  <2>4. CASE m.req = r /\ ch' = [ch EXCEPT ![r] = Append(@, m)]
    <3>1. ch'[r] = Append(ch[r], m)
      BY <1>0, <2>4
    <3>2. ch[r] \in Seq(Reply) /\ \A i \in DOMAIN ch[r] : Of(ch[r][i], r)
      BY <1>0 DEF Channelled
    <3>3. /\ \A i \in DOMAIN ch'[r] : Of(ch'[r][i], r)
          /\ Told(ch'[r]) => Told(ch[r])
      BY <2>3, <2>4, <3>1, <3>2, OfAppend
    <3> QED
      BY <1>0, <2>1, <3>3 DEF Channelled
  <2>5. CASE ch'[r] = ch[r]
    BY <1>0, <2>1, <2>5 DEF Channelled
  <2> QED
    BY <1>0, <2>1, <2>4, <2>5
<1>3. CASE CleanupCollect(c)
  <2>1. /\ UNCHANGED <<ch, h, got>>
        /\ pending' = pending \ PendingOf(Owner[c])
        /\ orphans' = [orphans EXCEPT ![c] = PendingOf(Owner[c])]
    BY <1>3 DEF CleanupCollect
  <2>2. \A d \in Conns : r \in orphans'[d] => r \notin pending'
    BY <1>0, <2>1 DEF Channelled
  <2> QED
    BY <1>0, <2>1, <2>2 DEF Channelled
<1>4. ASSUME NEW q \in Reqs, CleanupPush(c, q) PROVE Channelled(r)'
  <2>1. /\ UNCHANGED <<pending, h, got>> /\ q \in orphans[c]
        /\ orphans' = [orphans EXCEPT ![c] = @ \ {q}]
        /\ ch' = ch \/ ch' = [ch EXCEPT ![q] = Append(@, Lost)]
    BY <1>4 DEF CleanupPush
  <2>2. \A d \in Conns : r \in orphans'[d] => r \in orphans[d]
    BY <1>0, <2>1
  <2>3. CASE q = r /\ ch'[r] = Append(ch[r], Lost)
    <3>1. Lost \in Reply /\ Of(Lost, r)
      BY DEF Lost, Reply, Of
    <3>2. ch[r] \in Seq(Reply) /\ \A i \in DOMAIN ch[r] : Of(ch[r][i], r)
      BY <1>0 DEF Channelled
    <3>3. \A i \in DOMAIN ch'[r] : Of(ch'[r][i], r)
      BY <2>3, <3>1, <3>2, OfAppend
    <3> QED
      BY <1>0, <2>1, <2>3, <3>3 DEF Channelled
  <2>4. CASE ch'[r] = ch[r]
    BY <1>0, <2>1, <2>2, <2>4 DEF Channelled
  <2> QED
    BY <1>0, <2>1, <2>3, <2>4
<1> QED
  BY <1>1, <1>2, <1>3, <1>4 DEF ServeStep, ReadHello, HelloFails, AddConn, SendWelcome,
     WelcomeFails, ReadHeartbeat, ReadFails, Unlink, RemoveAndClose, WriteOut

LEMMA ChannelHandler ==
  ASSUME ChannelInv, NEW q \in Reqs, HandlerStep(q), NEW r \in Reqs
  PROVE  Channelled(r)'
<1> USE DEF connVars
<1>0. /\ ch \in [Reqs -> Seq(Reply)] /\ h \in [Reqs -> HandlerState]
      /\ got \in [Reqs -> Seq(1..Lines)] /\ Channelled(r)
      /\ h[r] = "picked" => ch[r] = <<>> /\ \A c \in Conns : r \notin orphans[c]
  BY DEF ChannelInv, LostInv, Typed, TypeOK, ServerTypeOK, Buffers, ChannelActive,
     OrphansOfWorker, Started, Active, Ended
<1>1. ~Told(<<>>) /\ DOMAIN <<>> = {}
  BY DEF Told
<1>2. CASE \/ ListCandidates(q) \/ PickWorker(q) \/ NoWorker(q) \/ Dispatch(q)
           \/ ClientGone(q)
  BY <1>0, <1>2 DEF ListCandidates, PickWorker, NoWorker, Dispatch, ClientGone, Channelled,
     Dispatched
<1>3. CASE RegisterPending(q)
  BY <1>0, <1>1, <1>3 DEF RegisterPending, Channelled, Dispatched
<1>4. CASE ReceiveChunk(q)
  <2>1. /\ UNCHANGED <<h, pending, orphans>> /\ h[q] = "streaming" /\ ch[q] # <<>>
        /\ ch' = [ch EXCEPT ![q] = Tail(@)]
        /\ \A p \in Reqs : p # q => got'[p] = got[p]
    BY <1>0, <1>4 DEF ReceiveChunk
  <2>2. CASE r = q
    <3>1. /\ \A i \in DOMAIN ch'[r] : Of(ch'[r][i], r)
          /\ Told(ch'[r]) => Told(ch[r])
      BY <1>0, <2>1, <2>2, OfTail DEF Channelled
    <3> QED
      BY <1>0, <2>1, <2>2, <3>1 DEF Channelled, Dispatched
  <2>3. CASE r # q
    BY <1>0, <2>1, <2>3 DEF Channelled
  <2> QED
    BY <2>2, <2>3
<1>5. ASSUME NEW outcome \in Ended, ClosePending(q, outcome), UNCHANGED <<got, orphans>>,
             outcome \in Dispatched \/ h[q] \notin Dispatched
      PROVE  Channelled(r)'
  <2>1. /\ h'[r] = h[r] \/ (r = q /\ h'[r] = outcome)
        /\ pending' \subseteq pending
        /\ ch'[r] = ch[r] \/ ch'[r] = <<>>
    BY <1>0, <1>5 DEF ClosePending
  <2> QED
    BY <1>0, <1>1, <1>5, <2>1 DEF Channelled
<1>6. CASE DispatchTimesOut(q) \/ EncodeFails(q) \/ ReceiveDone(q) \/ CancelOnWorker(q)
  BY <1>5, <1>6 DEF DispatchTimesOut, EncodeFails, ReceiveDone, CancelOnWorker, Ended,
     Dispatched
<1> QED
  BY <1>2, <1>3, <1>4, <1>6 DEF HandlerStep

LEMMA ChannelInit == Init => ChannelInv
BY LostInit DEF Init, ServerInit, ChannelInv, Channelled, Told

LEMMA ChannelStep == ChannelInv /\ [Next]_vars => ChannelInv'
<1> SUFFICES ASSUME ChannelInv, [Next]_vars, NEW r \in Reqs PROVE Channelled(r)'
  BY LostStep DEF ChannelInv
<1>1. CASE \E c \in Conns : ServeStep(c) \/ WriteOut(c)
  BY <1>1, ChannelServe
<1>2. CASE \E q \in Reqs : HandlerStep(q)
  BY <1>2, ChannelHandler
<1>3. CASE UNCHANGED <<orphans, pending, ch, h, got>>
  BY <1>3 DEF ChannelInv, Channelled
<1>4. CASE (\E w \in Workers : Expire(w) \/ ReapOne(w)) \/ ReapScan
  BY <1>3, <1>4 DEF Expire, ReapOne, ReapScan, handlerVars
<1>5. CASE (SessionNext /\ UNCHANGED serverVars) \/ Breaks \/ UNCHANGED vars
  BY <1>3, <1>5 DEF Breaks, vars, serverVars
<1>6. CASE OrchestratorStops
  BY <1>6 DEF OrchestratorStops, ChannelInv, Channelled, Told, Dispatched
<1> QED
  BY <1>1, <1>2, <1>4, <1>5, <1>6 DEF Next, ServerNext
-----------------------------------------------------------------------------
(* The way of an answer *)

Engaged == {"streaming"} \union Finished

Shown(r) == {got[r][i] : i \in DOMAIN got[r]}

\* Lines below those that follow.
Below(S, Q) == \A n \in S, m \in Q : m.type = "chunk" => n < m.line

LinesOf(Q) == {m.line : m \in {x \in Q : x.type = "chunk"}}

Closed(S) == \A n \in S : 1..n \subseteq S

\* A message tells what its goroutine has done.
Fits(m, r) ==
  /\ m.type = "chunk" => m.line \in 1..sent[r]
  /\ m.type = "done" => task[r] = IF m.ok THEN "answered" ELSE "broken"

Way(c, r) == Msgs(toServer[c], r) \union Msgs(sOut[c], r)

\* Every message of r was sent by its goroutine, over its session.
Flow(r) ==
  /\ sent[r] # 0 => task[r] \in Engaged
  /\ Shown(r) \subseteq 1..sent[r]
  /\ \A m \in Msgs(ch[r], r) : Fits(m, r)
  /\ \A c \in Conns : \A m \in Way(c, r) : Fits(m, r) /\ home[r] = c

\* They are in the order of their sending.
Order(r) ==
  /\ \A i, j \in DOMAIN got[r] : i < j => got[r][i] < got[r][j]
  /\ Ascends(ch[r], r) /\ Below(Shown(r), Msgs(ch[r], r))
  /\ \A c \in Conns :
       /\ Ascends(toServer[c], r) /\ Ascends(sOut[c], r)
       /\ Precede(Msgs(toServer[c], r), Msgs(sOut[c], r))
       /\ r \in pending => /\ Below(Shown(r), Way(c, r))
                          /\ Precede(Msgs(ch[r], r), Way(c, r))

Arrived(r) == Shown(r) \union LinesOf(Msgs(ch[r], r))
Read(r) == Arrived(r) \union LinesOf(Msgs(toServer[home[r]], r))
Queue(r) == LinesOf(Msgs(sOut[home[r]], r))

HasDone(Q) == \E m \in Q : m.type = "done"

\* Unless a full buffer dropped a line none is missing before another, nor
\* before an end of stream.
Gapless(r) ==
  <<r, "chunk">> \notin dropped =>
    /\ \A i \in DOMAIN got[r] : got[r][i] = i
    /\ Closed(Arrived(r))
    /\ HasDone(Msgs(ch[r], r)) => Arrived(r) = 1..sent[r]
    /\ r \in pending /\ task[r] # "none" =>
         /\ Closed(Read(r))
         /\ HasDone(Msgs(toServer[home[r]], r)) => Read(r) = 1..sent[r]
         /\ link[home[r]] = "up" => Read(r) \union Queue(r) = 1..sent[r]

EndedWhole(r) ==
  h[r] = "done" => /\ task[r] = "answered"
                   /\ <<r, "chunk">> \in dropped \/ Shown(r) = 1..sent[r]

Streams(r) == Flow(r) /\ Order(r) /\ Gapless(r) /\ EndedWhole(r)

Ground == RouteInv /\ ChannelInv /\ ConnsAlive /\ Homes

StreamInv == Ground /\ \A r \in Reqs : Streams(r)

LEMMA LinesIn == \A Q, n : n \in LinesOf(Q) <=> \E m \in Q : m.type = "chunk" /\ n = m.line
BY DEF LinesOf

LEMMA LinesNone == LinesOf({}) = {} /\ ~HasDone({})
BY LinesIn DEF HasDone

LEMMA LinesUnion == \A A, B : LinesOf(A \union B) = LinesOf(A) \union LinesOf(B)
<1> SUFFICES ASSUME NEW A, NEW B, NEW n
             PROVE  n \in LinesOf(A \union B) <=> n \in LinesOf(A) \union LinesOf(B)
  OBVIOUS
<1> QED
  BY LinesIn

LEMMA LinesOne == \A m : LinesOf({m}) = IF m.type = "chunk" THEN {m.line} ELSE {}
<1> SUFFICES ASSUME NEW m
             PROVE  LinesOf({m}) = IF m.type = "chunk" THEN {m.line} ELSE {}
  OBVIOUS
<1>1. \A n : n \in LinesOf({m}) <=> m.type = "chunk" /\ n = m.line
  BY LinesIn
<1>2. CASE m.type = "chunk"
  <2>1. \A n : n \in LinesOf({m}) <=> n \in {m.line}
    BY <1>1, <1>2
  <2> QED
    BY <1>2, <2>1
<1>3. CASE m.type # "chunk"
  BY <1>1, <1>3
<1> QED
  BY <1>2, <1>3

\* A prefix grows by the first of the lines that follow it.
LEMMA NextClosed ==
  ASSUME NEW P \in SUBSET Nat, NEW R \in SUBSET Nat, NEW k \in Nat, Closed(P),
         Closed(P \union {k} \union R), \A j \in R : k < j
  PROVE  Closed(P \union {k})
<1>1. ASSUME NEW j \in 1..k PROVE j \in P \union {k}
  <2>1. j \in P \union {k} \union R /\ ~(k < j)
    BY <1>1 DEF Closed
  <2> QED
    BY <2>1
<1> QED
  BY <1>1 DEF Closed

LEMMA InitialClosed ==
  ASSUME NEW n \in Nat
  PROVE  Closed(1..n)
BY DEF Closed

LEMMA ShownPrefix ==
  ASSUME RouteInv, NEW r \in Reqs, \A i \in DOMAIN got[r] : got[r][i] = i
  PROVE  Closed(Shown(r)) /\ Shown(r) = 1..Len(got[r]) /\ Len(got[r]) \in Nat
<1>1. got[r] \in Seq(1..Lines)
  BY DEF RouteInv, Typed, TypeOK, ServerTypeOK
<1>2. Len(got[r]) \in Nat /\ DOMAIN got[r] = 1..Len(got[r])
  BY <1>1
<1>3. Shown(r) = 1..Len(got[r])
  BY <1>2 DEF Shown
<1> QED
  BY <1>2, <1>3, InitialClosed

\* What is under way is no synthetic end.
LEMMA WayTyped ==
  ASSUME RouteInv, NEW r \in Reqs, NEW c \in Conns
  PROVE  \A m \in Way(c, r) : m.type \in {"chunk", "done"} /\ m.req = r
<1>1. ASSUME NEW m \in Way(c, r) PROVE m.type # "lost"
  <2>1. toServer[c] \in Seq(ToServerMsg) /\ sOut[c] \in Seq(SessionMsg)
    BY DEF RouteInv, Typed, TypeOK, WireTypeOK, SessionTypeOK, Buffers
  <2>2. m \in ToServerMsg
    BY <1>1, <2>1 DEF Way, Msgs, ToServerMsg
  <2> QED
    BY <2>2 DEF ToServerMsg, SessionMsg, ChatReply
<1>2. \A m \in Way(c, r) : Of(m, r)
  BY DEF Way, Msgs
<1> QED
  BY <1>1, <1>2 DEF Of
-----------------------------------------------------------------------------
(* A step that sends nothing on *)

\* No message of r moves; what is in a buffer may be thrown away with its
\* connection or its handler.
Fade(r) ==
  /\ got'[r] = got[r] /\ sent'[r] = sent[r]
  /\ ch'[r] = ch[r] \/ (ch'[r] = <<>> /\ r \notin pending')
  /\ r \in pending' => r \in pending \/ (task[r] = "none" /\ got[r] = <<>> /\ ch[r] = <<>>)
  /\ \/ task'[r] = task[r] /\ home'[r] = home[r]
     \/ task[r] \notin Engaged
  /\ \A c \in Conns :
       /\ \/ /\ Msgs(toServer'[c], r) = Msgs(toServer[c], r)
             /\ Ascends(toServer[c], r) => Ascends(toServer'[c], r)
          \/ /\ toServer'[c] = <<>>
             /\ task[r] # "none" /\ home[r] = c => link'[c] # "up" \/ r \notin pending'
       /\ \/ /\ Msgs(sOut'[c], r) = Msgs(sOut[c], r)
             /\ Ascends(sOut[c], r) => Ascends(sOut'[c], r)
          \/ sOut'[c] = <<>> /\ link'[c] # "up"
       /\ task[r] # "none" /\ home[r] = c /\ link'[c] = "up" => link[c] = "up"
  /\ dropped \subseteq dropped'

LEMMA FadeKeeps ==
  ASSUME StreamInv, RouteInv', NEW r \in Reqs, Fade(r)
  PROVE  /\ Flow(r)' /\ Order(r)' /\ Gapless(r)'
         /\ (h'[r] = "done" => h[r] = "done") => EndedWhole(r)'
<1> DEFINE C == Msgs(ch[r], r)
           T(c) == Msgs(toServer[c], r)
           S(c) == Msgs(sOut[c], r)
           Cn == Msgs(ch'[r], r)
           Tn(c) == Msgs(toServer'[c], r)
           Sn(c) == Msgs(sOut'[c], r)
<1>0. Flow(r) /\ Order(r) /\ Gapless(r) /\ EndedWhole(r)
  BY DEF StreamInv, Streams
<1>1. Shown(r)' = Shown(r) /\ got'[r] = got[r] /\ sent'[r] = sent[r]
  BY DEF Fade, Shown
<1>2. /\ Cn = C \/ (Cn = {} /\ r \notin pending')
      /\ Ascends(ch'[r], r)
  BY <1>0, MsgsEmpty DEF Fade, Order
<1>3. ASSUME NEW c \in Conns
      PROVE  /\ Tn(c) = T(c) \/ Tn(c) = {}
             /\ Sn(c) = S(c) \/ (Sn(c) = {} /\ link'[c] # "up")
             /\ Ascends(toServer'[c], r) /\ Ascends(sOut'[c], r)
             /\ task[r] # "none" /\ home[r] = c /\ Tn(c) # T(c) =>
                  link'[c] # "up" \/ r \notin pending'
  BY <1>0, MsgsEmpty DEF Fade, Order
<1>4. \A c \in Conns : Way(c, r)' \subseteq Way(c, r)
  BY <1>3 DEF Way
<1>5. \/ task'[r] = task[r] /\ home'[r] = home[r]
      \/ task[r] \notin Engaged
  BY DEF Fade
<1>6. sent[r] \in Nat /\ home[r] \in {None} \union Conns /\ (task[r] # "none" => home[r] \in Conns)
  BY DEF StreamInv, Ground, RouteInv, Typed, TypeOK, SessionTypeOK, HoldConns
\* Before its first line there is nothing.
<1>7. ASSUME task[r] \notin Engaged
      PROVE  /\ sent[r] = 0 /\ Shown(r) = {}
             /\ \A m \in C : m.type \notin {"chunk", "done"}
             /\ \A c \in Conns : Way(c, r) = {}
  <2>1. sent[r] = 0 /\ \A m : Fits(m, r) => m.type \notin {"chunk", "done"}
    BY <1>0, <1>7 DEF Flow, Fits, Engaged, Finished
  <2>2. Shown(r) = {}
    BY <1>0, <2>1 DEF Flow
  <2>3. \A c \in Conns : \A m \in Way(c, r) : m.type \in {"chunk", "done"}
    BY WayTyped DEF StreamInv, Ground
  <2>4. \A c \in Conns : \A m \in Way(c, r) : FALSE
    BY <1>0, <2>1, <2>3 DEF Flow
  <2> QED
    BY <1>0, <2>1, <2>2, <2>4 DEF Flow
<1> HIDE DEF C, T, S, Cn, Tn, Sn
<1>e. LinesOf({}) = {} /\ ~HasDone({})
  BY LinesNone
<1>8. Flow(r)'
  <2>1. \A m : Fits(m, r) => Fits(m, r)'
    BY <1>1, <1>5, <1>7 DEF Fits, Engaged, Finished
  <2>2. \A m \in Cn : Fits(m, r)'
    BY <1>0, <1>2, <2>1 DEF Flow, C
  <2>3. ASSUME NEW c \in Conns, NEW m \in Way(c, r)' PROVE Fits(m, r)' /\ home'[r] = c
    BY <1>0, <1>4, <1>5, <1>7, <2>1, <2>3 DEF Flow
  <2>4. sent'[r] # 0 => task'[r] \in Engaged
    BY <1>0, <1>1, <1>5, <1>7 DEF Flow
  <2> QED
    BY <1>0, <1>1, <2>2, <2>3, <2>4 DEF Flow, Cn
<1>9. Order(r)'
  <2>1. Below(Shown(r), Cn)
    BY <1>0, <1>2 DEF Order, Below, C
  <2>2. ASSUME NEW c \in Conns PROVE Precede(Tn(c), Sn(c))
    <3>1. Precede(T(c), S(c))
      BY <1>0 DEF Order, T, S
    <3> QED
      BY <1>3, <3>1 DEF Precede
  <2>3. ASSUME NEW c \in Conns, r \in pending'
        PROVE  Below(Shown(r), Way(c, r)') /\ Precede(Cn, Way(c, r)')
    <3>1. CASE r \in pending
      BY <1>0, <1>2, <1>4, <2>3, <3>1 DEF Order, Below, Precede, C
    <3>2. CASE task[r] = "none"
      BY <1>4, <1>7, <3>2 DEF Engaged, Finished, Below, Precede
    <3> QED
      BY <2>3, <3>1, <3>2 DEF Fade
  <2> QED
    BY <1>0, <1>1, <1>2, <1>3, <2>1, <2>2, <2>3 DEF Order, Cn, Tn, Sn
<1>10. Gapless(r)'
  <2> SUFFICES ASSUME <<r, "chunk">> \notin dropped'
      PROVE  /\ \A i \in DOMAIN got[r] : got[r][i] = i
             /\ Closed(Arrived(r)')
             /\ HasDone(Cn) => Arrived(r)' = 1..sent[r]
             /\ r \in pending' /\ task'[r] # "none" =>
                  /\ Closed(Read(r)')
                  /\ HasDone(Tn(home'[r])) => Read(r)' = 1..sent[r]
                  /\ link'[home'[r]] = "up" => Read(r)' \union Queue(r)' = 1..sent[r]
    BY <1>1 DEF Gapless, Cn, Tn
  <2>1. <<r, "chunk">> \notin dropped
    BY DEF Fade
  <2>2. /\ Arrived(r)' = Shown(r) \union LinesOf(Cn)
        /\ Read(r)' = Arrived(r)' \union LinesOf(Tn(home'[r]))
        /\ Queue(r)' = LinesOf(Sn(home'[r]))
    BY <1>1 DEF Arrived, Read, Queue, Cn, Tn, Sn
  <2>3. /\ Arrived(r) = Shown(r) \union LinesOf(C)
        /\ Read(r) = Arrived(r) \union LinesOf(T(home[r]))
        /\ Queue(r) = LinesOf(S(home[r]))
    BY DEF Arrived, Read, Queue, C, T, S
  <2>4. CASE task[r] \notin Engaged
    <3>1. LinesOf(C) = {} /\ LinesOf(Cn) = {} /\ ~HasDone(C) /\ ~HasDone(Cn)
      <4>1. \A m \in C : m.type \notin {"chunk", "done"}
        BY <1>7, <2>4
      <4>2. LinesOf(C) = {} /\ ~HasDone(C)
        BY <4>1 DEF LinesOf, HasDone
      <4> QED
        BY <1>2, <1>e, <4>2
    <3>2. \A c \in Conns : Tn(c) = {} /\ Sn(c) = {}
      BY <1>4, <1>7, <2>4 DEF Way, Tn, Sn
    <3>3. DOMAIN got[r] = {}
      BY <1>7, <2>4 DEF Shown
    <3>4. task'[r] # "none" => home'[r] \in Conns
      BY DEF RouteInv, Typed, HoldConns
    <3>5. /\ Arrived(r)' = {} /\ sent[r] = 0 /\ 1..sent[r] = {}
          /\ task'[r] # "none" => Read(r)' = {} /\ Queue(r)' = {} /\ ~HasDone(Tn(home'[r]))
      <4>1. Shown(r) = {} /\ sent[r] = 0
        BY <1>7, <2>4
      <4>2. task'[r] # "none" => Tn(home'[r]) = {} /\ Sn(home'[r]) = {}
        BY <3>2, <3>4
      <4> QED
        BY <1>e, <2>2, <3>1, <4>1, <4>2
    <3> QED
      BY <3>1, <3>3, <3>5 DEF Closed
  <2>5. CASE task[r] \in Engaged
    <3>1. task'[r] = task[r] /\ home'[r] = home[r] /\ home[r] \in Conns /\ task[r] # "none"
      BY <1>5, <1>6, <2>5 DEF Engaged, Finished
    <3>2. /\ \A i \in DOMAIN got[r] : got[r][i] = i
          /\ Closed(Arrived(r))
          /\ HasDone(C) => Arrived(r) = 1..sent[r]
          /\ r \in pending =>
               /\ Closed(Read(r))
               /\ HasDone(T(home[r])) => Read(r) = 1..sent[r]
               /\ link[home[r]] = "up" => Read(r) \union Queue(r) = 1..sent[r]
      BY <1>0, <2>1, <3>1 DEF Gapless, C, T
    <3>3. Closed(Shown(r))
      BY <3>2, ShownPrefix DEF StreamInv, Ground
    <3>4. CASE r \notin pending'
      <4>1. CASE Cn = C
        BY <2>2, <2>3, <3>2, <3>4, <4>1
      <4>2. CASE Cn = {}
        <5>1. Arrived(r)' = Shown(r)
          BY <1>e, <2>2, <4>2
        <5> QED
          BY <1>e, <3>2, <3>3, <3>4, <4>2, <5>1
      <4> QED
        BY <1>2, <4>1, <4>2
    <3>5. CASE r \in pending'
      <4>1. r \in pending /\ Cn = C /\ Arrived(r)' = Arrived(r)
        BY <1>2, <2>2, <2>3, <3>1, <3>5 DEF Fade
      <4>2. CASE Tn(home[r]) = T(home[r])
        <5>1. Read(r)' = Read(r)
          BY <2>2, <2>3, <3>1, <4>1, <4>2
        <5>2. link'[home[r]] = "up" => link[home[r]] = "up" /\ Sn(home[r]) = S(home[r])
          BY <1>3, <3>1 DEF Fade
        <5> QED
          BY <2>2, <2>3, <3>1, <3>2, <4>1, <4>2, <5>1, <5>2
      <4>3. CASE Tn(home[r]) # T(home[r])
        <5>1. Tn(home[r]) = {} /\ link'[home[r]] # "up"
          BY <1>3, <3>1, <3>5, <4>3
        <5>2. Read(r)' = Arrived(r) /\ ~HasDone(Tn(home[r]))
          BY <1>e, <2>2, <3>1, <4>1, <5>1
        <5> QED
          BY <3>1, <3>2, <4>1, <5>1, <5>2
      <4> QED
        BY <4>2, <4>3
    <3> QED
      BY <3>4, <3>5
  <2> QED
    BY <2>4, <2>5
<1>11. (h'[r] = "done" => h[r] = "done") => EndedWhole(r)'
  BY <1>0, <1>1, <1>5, <1>7 DEF EndedWhole, Fade, Engaged, Finished
<1> QED
  BY <1>8, <1>9, <1>10, <1>11
-----------------------------------------------------------------------------
(* The steps that move a message of the request *)

\* A goroutine sends the next line, or its end.
LEMMA SendKeeps ==
  ASSUME StreamInv, RouteInv', NEW r \in Reqs, NEW m \in ChatReply, m.req = r,
         task[r] \in {"spawned"} \union Running, Send(home[r], m),
         \/ m.type = "chunk" /\ m.line = sent[r] + 1 /\ sent'[r] = sent[r] + 1
              /\ task'[r] = task[r] /\ task[r] = "streaming"
         \/ m.type = "done" /\ sent'[r] = sent[r]
              /\ task'[r] = IF m.ok THEN "answered" ELSE "broken",
         UNCHANGED <<home, link, toServer, ch, got, pending, h>>
  PROVE  Streams(r)'
<1> DEFINE c == home[r]
           C == Msgs(ch[r], r)
           T(d) == Msgs(toServer[d], r)
           S(d) == Msgs(sOut[d], r)
           Sn(d) == Msgs(sOut'[d], r)
<1>0. Flow(r) /\ Order(r) /\ Gapless(r) /\ EndedWhole(r) /\ Channelled(r)
  BY DEF StreamInv, Streams, Ground, ChannelInv
<1>1. /\ c \in Conns /\ sent[r] \in Nat /\ sOut \in [Conns -> Seq(SessionMsg)]
      /\ sess[c] = "live" \/ link[c] # "up"
      /\ ch[r] \in Seq(Reply)
  BY DEF StreamInv, Ground, RouteInv, Typed, TypeOK, SessionTypeOK, ServerTypeOK, HoldConns,
     Homes, Buffers, Running
<1>2. m \in SessionMsg /\ Of(m, r) /\ m.type \in {"chunk", "done"}
  BY DEF ChatReply, SessionMsg, Of
\* The goroutine has sent only lines, and fewer than this one.
<1>3. /\ \A a : Fits(a, r) => a.type # "done" /\ (a.type = "chunk" => a.line \in 1..sent[r])
      /\ \A d \in Conns : \A a \in Way(d, r) : a.type = "chunk" /\ Fits(a, r)
      /\ \A a \in C : Fits(a, r)
  <2>1. \A a : Fits(a, r) => a.type # "done" /\ (a.type = "chunk" => a.line \in 1..sent[r])
    BY DEF Fits, Running
  <2>2. \A d \in Conns : \A a \in Way(d, r) : a.type \in {"chunk", "done"}
    BY WayTyped DEF StreamInv, Ground
  <2> QED
    BY <1>0, <2>1, <2>2 DEF Flow
<1>4. \A a : Fits(a, r) => Fits(a, r)'
  BY <1>1, <1>3 DEF Fits
<1>5. Fits(m, r)'
  BY <1>1 DEF Fits
<1>6. ASSUME NEW a, a.type = "chunk", Fits(a, r) PROVE Before(a, m)
  BY <1>1, <1>3, <1>6 DEF Before
<1>7. ASSUME NEW d \in Conns
      PROVE  /\ Ascends(sOut'[d], r)
             /\ Sn(d) = S(d) \/ (d = c /\ Sn(d) = S(d) \union {m})
  <2>1. CASE sOut'[d] = sOut[d]
    BY <1>0, <2>1 DEF Order
  <2>2. CASE d = c /\ sOut'[d] = Append(sOut[d], m)
    <3>1. Ascends(sOut[d], r) /\ \A a \in S(d) : Before(a, m)
      BY <1>0, <1>3, <1>6 DEF Order, Way
    <3>2. sOut[d] \in Seq(SessionMsg)
      BY <1>1
    <3> QED
      BY <1>2, <2>2, <3>1, <3>2, MsgsAppend
  <2> QED
    BY <1>1, <2>1, <2>2 DEF Send
<1>8. \/ Sn(c) = S(c) \union {m}
      \/ Sn(c) = S(c) /\ (link[c] # "up" \/ <<r, m.type>> \in dropped')
  <2>1. CASE sOut'[c] = Append(sOut[c], m)
    BY <1>1, <1>2, <2>1, MsgsAppend
  <2>2. CASE sOut'[c] = sOut[c] /\ (link[c] # "up" \/ <<r, m.type>> \in dropped')
    BY <2>2
  <2> QED
    BY <1>1, <2>1, <2>2 DEF Send
<1>9. dropped \subseteq dropped'
  BY DEF Send
<1> HIDE DEF c, C, T, S, Sn
<1>10. Flow(r)'
  <2>1. \A d \in Conns : \A a \in Way(d, r)' : Fits(a, r)' /\ home[r] = d
    <3>1. \A d \in Conns : \A a \in Way(d, r)' : a \in Way(d, r) \/ (d = c /\ a = m)
      BY <1>7 DEF Way, S, Sn
    <3> QED
      BY <1>0, <1>4, <1>5, <3>1 DEF Flow, c
  <2>2. Shown(r)' \subseteq 1..sent'[r]
    <3>1. Shown(r)' = Shown(r)
      BY DEF Shown
    <3>2. 1..sent[r] \subseteq 1..sent'[r]
      BY <1>1
    <3> QED
      BY <1>0, <3>1, <3>2 DEF Flow
  <2>3. sent'[r] # 0 => task'[r] \in Engaged
    BY <1>0 DEF Flow, Engaged, Finished
  <2> QED
    BY <1>3, <1>4, <2>1, <2>2, <2>3 DEF Flow, C
<1>11. Order(r)'
  <2>1. ASSUME NEW d \in Conns PROVE Precede(T(d), Sn(d))
    <3>1. Precede(T(d), S(d)) /\ \A a \in T(d) : Before(a, m)
      BY <1>0, <1>3, <1>6 DEF Order, Way, T, S
    <3> QED
      BY <1>7, <3>1 DEF Precede
  <2>2. ASSUME NEW d \in Conns, r \in pending
        PROVE  Below(Shown(r), Way(d, r)') /\ Precede(C, Way(d, r)')
    <3>1. \A a \in Way(d, r)' : a \in Way(d, r) \/ a = m
      BY <1>7 DEF Way, S, Sn
    <3>2. \A n \in Shown(r) : m.type = "chunk" => n < m.line
      BY <1>0, <1>1 DEF Flow
    <3>3. \A a \in C : Before(a, m)
      <4>1. \A a \in C : a.type # "lost" /\ Of(a, r)
        BY <1>0, <1>1, <2>2 DEF Channelled, Told, C, Msgs
      <4>2. \A a \in C : a.type = "chunk"
        BY <1>3, <4>1 DEF Of
      <4> QED
        BY <1>3, <1>6, <4>2
    <3> QED
      BY <1>0, <2>2, <3>1, <3>2, <3>3 DEF Order, Below, Precede, C
  <2>3. Shown(r)' = Shown(r)
    BY DEF Shown
  <2> QED
    BY <1>0, <1>7, <2>1, <2>2, <2>3 DEF Order, C, T, Sn
<1>12. Gapless(r)'
  <2> SUFFICES ASSUME <<r, "chunk">> \notin dropped' PROVE Gapless(r)'
    BY DEF Gapless
  <2>1. /\ Arrived(r)' = Arrived(r) /\ Read(r)' = Read(r)
        /\ Queue(r) = LinesOf(S(c)) /\ Queue(r)' = LinesOf(Sn(c))
    BY DEF Arrived, Read, Queue, Shown, S, Sn, c
  <2>2. ~HasDone(C) /\ ~HasDone(T(c))
    BY <1>1, <1>3 DEF HasDone, Way, T
  <2>3. /\ \A i \in DOMAIN got[r] : got[r][i] = i
        /\ Closed(Arrived(r))
        /\ r \in pending => Closed(Read(r))
        /\ r \in pending /\ link[c] = "up" => Read(r) \union Queue(r) = 1..sent[r]
    BY <1>0, <1>9 DEF Gapless, Running, c
  <2>4. ASSUME r \in pending, link[c] = "up"
        PROVE  Read(r) \union Queue(r)' = 1..sent'[r]
    <3>1. CASE Sn(c) = S(c) \union {m}
      <4>1. Queue(r)' = Queue(r) \union LinesOf({m})
        BY <2>1, <3>1, LinesUnion
      <4>2. LinesOf({m}) = IF m.type = "chunk" THEN {m.line} ELSE {}
        BY LinesOne
      <4> QED
        BY <1>1, <2>3, <2>4, <4>1, <4>2
    <3>2. CASE Sn(c) = S(c) /\ <<r, m.type>> \in dropped'
      BY <1>2, <2>1, <2>3, <2>4, <3>2
    <3> QED
      BY <1>8, <2>4, <3>1, <3>2
  <2> QED
    BY <2>1, <2>2, <2>3, <2>4 DEF Gapless, C, T, c
<1>13. EndedWhole(r)'
  BY <1>0 DEF EndedWhole, Running
<1> QED
  BY <1>10, <1>11, <1>12, <1>13 DEF Streams

\* The write loop of the session takes a message of r from session.out.
LEMMA WriteKeeps ==
  ASSUME StreamInv, RouteInv', NEW r \in Reqs, NEW c \in Conns, SessionWrite(c),
         Of(Head(sOut[c]), r), UNCHANGED <<ch, got, pending, h>>
  PROVE  Streams(r)'
<1> DEFINE m == Head(sOut[c])
           T(d) == Msgs(toServer[d], r)
           S(d) == Msgs(sOut[d], r)
           Tn(d) == Msgs(toServer'[d], r)
           Sn(d) == Msgs(sOut'[d], r)
<1> USE DEF taskVars
<1>0. Flow(r) /\ Order(r) /\ Gapless(r) /\ EndedWhole(r)
  BY DEF StreamInv, Streams
<1>1. /\ sOut \in [Conns -> Seq(SessionMsg)] /\ toServer \in [Conns -> Seq(ToServerMsg)]
      /\ sOut[c] # <<>> /\ sOut' = [sOut EXCEPT ![c] = Tail(@)]
      /\ toServer' = Written(toServer, c, m) /\ sent[r] \in Nat
      /\ UNCHANGED <<task, home, sent, link, dropped>>
  BY DEF StreamInv, Ground, RouteInv, Typed, TypeOK, WireTypeOK, SessionTypeOK, Buffers,
     SessionWrite
<1>2. m \in SessionMsg /\ m \in ToServerMsg
  BY <1>1, HeadTailProperties DEF ToServerMsg
<1>3. m.type \in {"chunk", "done"}
  BY <1>2 DEF SessionMsg, ChatReply, Of
<1>4. /\ S(c) = {m} \union Sn(c) /\ Ascends(sOut'[c], r)
      /\ \A b \in Sn(c) : Before(m, b)
  <2>1. sOut[c] \in Seq(SessionMsg) /\ sOut'[c] = Tail(sOut[c]) /\ Ascends(sOut[c], r)
    BY <1>0, <1>1 DEF Order
  <2> QED
    BY <1>1, <2>1, MsgsTail
<1>5. \A d \in Conns : d # c => sOut'[d] = sOut[d] /\ toServer'[d] = toServer[d]
  BY <1>1 DEF Written
<1>6. \/ link[c] = "up" /\ Tn(c) = T(c) \union {m}
      \/ link[c] # "up" /\ Tn(c) = T(c)
  <2>1. CASE link[c] = "up"
    <3>1. toServer'[c] = Append(toServer[c], m) /\ toServer[c] \in Seq(ToServerMsg)
      BY <1>1, <2>1 DEF Written
    <3> QED
      BY <1>2, <2>1, <3>1, MsgsAppend
  <2>2. CASE link[c] # "up"
    BY <1>1, <2>2 DEF Written
  <2> QED
    BY <2>1, <2>2
<1>7. Ascends(toServer'[c], r)
  <2>1. Ascends(toServer[c], r) /\ \A a \in T(c) : Before(a, m)
    BY <1>0, <1>4 DEF Order, Precede
  <2>2. CASE link[c] = "up"
    <3>1. toServer'[c] = Append(toServer[c], m) /\ toServer[c] \in Seq(ToServerMsg)
      BY <1>1, <2>2 DEF Written
    <3> QED
      BY <1>2, <2>1, <3>1, MsgsAppend
  <2>3. CASE link[c] # "up"
    BY <1>1, <2>1, <2>3 DEF Written
  <2> QED
    BY <2>2, <2>3
<1>8. \A d \in Conns : d # c => Tn(d) = T(d) /\ Sn(d) = S(d)
  BY <1>5
<1>9. m \in Way(c, r) /\ \A d \in Conns : Way(d, r)' \subseteq Way(d, r)
  BY <1>4, <1>6, <1>8 DEF Way
<1>10. home[r] = c /\ task[r] # "none" /\ Fits(m, r)
  BY <1>0, <1>3, <1>9 DEF Flow, Fits, Engaged, Finished
<1>11. Shown(r)' = Shown(r) /\ \A a : Fits(a, r)' <=> Fits(a, r)
  BY <1>1 DEF Shown, Fits
<1> HIDE DEF m, T, S, Tn, Sn
<1>12. Flow(r)'
  BY <1>0, <1>1, <1>9, <1>11 DEF Flow
<1>13. Order(r)'
  <2>1. ASSUME NEW d \in Conns PROVE Precede(Tn(d), Sn(d))
    <3>1. Precede(T(d), S(d))
      BY <1>0 DEF Order, T, S
    <3> QED
      BY <1>4, <1>6, <1>8, <3>1 DEF Precede
  <2>2. ASSUME NEW d \in Conns, r \in pending
        PROVE  Below(Shown(r), Way(d, r)') /\ Precede(Msgs(ch[r], r), Way(d, r)')
    BY <1>0, <1>9, <2>2 DEF Order, Below, Precede
  <2>3. ASSUME NEW d \in Conns PROVE Ascends(toServer'[d], r) /\ Ascends(sOut'[d], r)
    BY <1>0, <1>4, <1>5, <1>7 DEF Order
  <2> QED
    BY <1>0, <1>11, <2>1, <2>2, <2>3 DEF Order, Tn, Sn
<1>14. Gapless(r)'
  <2> SUFFICES ASSUME <<r, "chunk">> \notin dropped, r \in pending
      PROVE  /\ Closed(Read(r)')
             /\ HasDone(Tn(c)) => Read(r)' = 1..sent[r]
             /\ link[c] = "up" => Read(r)' \union Queue(r)' = 1..sent[r]
    BY <1>0, <1>1, <1>10, <1>11 DEF Gapless, Arrived, Tn
  <2>1. /\ Read(r) = Arrived(r) \union LinesOf(T(c))
        /\ Read(r)' = Arrived(r) \union LinesOf(Tn(c))
        /\ Queue(r) = LinesOf(S(c)) /\ Queue(r)' = LinesOf(Sn(c))
    BY <1>1, <1>10, <1>11 DEF Read, Queue, Arrived, T, S, Tn, Sn
  <2>2. /\ Closed(Read(r))
        /\ HasDone(T(c)) => Read(r) = 1..sent[r]
        /\ link[c] = "up" => Read(r) \union Queue(r) = 1..sent[r]
    BY <1>0, <1>10 DEF Gapless, T
  <2>3. CASE link[c] # "up"
    BY <1>6, <2>1, <2>2, <2>3
  <2>4. CASE link[c] = "up"
    <3>1. Tn(c) = T(c) \union {m}
      BY <1>6, <2>4
    <3>2. Read(r)' = Read(r) \union LinesOf({m}) /\ Queue(r) = LinesOf({m}) \union Queue(r)'
      BY <1>4, <2>1, <3>1, LinesUnion
    <3>3. LinesOf({m}) = IF m.type = "chunk" THEN {m.line} ELSE {}
      BY LinesOne
    <3>4. Read(r)' \union Queue(r)' = 1..sent[r]
      BY <2>2, <2>4, <3>2
    <3>5. ~HasDone(T(c))
      BY <1>0, <1>3, <1>4 DEF Order, Precede, Before, HasDone, T, S
    <3>6. CASE m.type = "chunk"
      <4>1. Read(r) \in SUBSET Nat /\ Queue(r)' \in SUBSET Nat /\ m.line \in Nat
        BY <1>1, <1>10, <3>4, <3>2, <3>6 DEF Fits
      <4>2. \A j \in Queue(r)' : m.line < j
        BY <1>4, <2>1, LinesIn DEF Before
      <4>3. Closed(Read(r) \union {m.line} \union Queue(r)')
        BY <1>1, <3>2, <3>3, <3>4, <3>6, InitialClosed
      <4>4. Closed(Read(r) \union {m.line})
        BY <2>2, <4>1, <4>2, <4>3, NextClosed
      <4>5. ~HasDone(Tn(c))
        BY <3>1, <3>5, <3>6 DEF HasDone
      <4> QED
        BY <3>2, <3>3, <3>4, <3>6, <4>4, <4>5
    <3>7. CASE m.type = "done"
      <4>1. \A b \in Sn(c) : b.type # "chunk"
        BY <1>4, <3>7 DEF Before
      <4>2. Queue(r)' = {}
        BY <2>1, <4>1, LinesIn
      <4> QED
        BY <2>2, <3>2, <3>3, <3>4, <3>7, <4>2
    <3> QED
      BY <1>3, <3>6, <3>7
  <2> QED
    BY <2>3, <2>4
<1>15. EndedWhole(r)'
  BY <1>0, <1>1, <1>11 DEF EndedWhole
<1> QED
  BY <1>12, <1>13, <1>14, <1>15 DEF Streams

\* routeChatReply passes a message of r on, or drops it.
LEMMA DeliverKeeps ==
  ASSUME StreamInv, NEW r \in Reqs, NEW c \in Conns, RouteChatReply(c),
         Of(Head(toServer[c]), r), UNCHANGED sessionVars
  PROVE  Streams(r)'
<1> DEFINE m == Head(toServer[c])
           C == Msgs(ch[r], r)
           T(d) == Msgs(toServer[d], r)
           S(d) == Msgs(sOut[d], r)
           Cn == Msgs(ch'[r], r)
           Tn(d) == Msgs(toServer'[d], r)
<1> USE DEF sessionVars, handlerVars
<1>0. Flow(r) /\ Order(r) /\ Gapless(r) /\ EndedWhole(r)
  BY DEF StreamInv, Streams
<1>1. /\ toServer \in [Conns -> Seq(ToServerMsg)] /\ ch \in [Reqs -> Seq(Reply)]
      /\ toServer[c] # <<>> /\ toServer' = [toServer EXCEPT ![c] = Tail(@)]
      /\ sent[r] \in Nat /\ m.type \in {"chunk", "done"}
      /\ UNCHANGED <<task, home, sent, sOut, link, pending, got, h>>
  BY DEF StreamInv, Ground, RouteInv, Typed, TypeOK, WireTypeOK, ServerTypeOK,
     SessionTypeOK, Buffers, RouteChatReply
<1>2. m \in ToServerMsg /\ m.req = r
  BY <1>1, HeadTailProperties DEF Of
<1>3. m \in Reply
  BY <1>1, <1>2 DEF ToServerMsg, SessionMsg, ChatReply, Reply
<1>4. /\ T(c) = {m} \union Tn(c) /\ Ascends(toServer'[c], r)
      /\ \A b \in Tn(c) : Before(m, b)
  <2>1. /\ toServer[c] \in Seq(ToServerMsg) /\ toServer'[c] = Tail(toServer[c])
        /\ Ascends(toServer[c], r)
    BY <1>0, <1>1 DEF Order
  <2> QED
    BY <1>1, <2>1, MsgsTail
<1>5. \A d \in Conns : d # c => toServer'[d] = toServer[d]
  BY <1>1
<1>6. \/ r \in pending /\ ch'[r] = Append(ch[r], m) /\ dropped' = dropped
      \/ ch'[r] = ch[r] /\ dropped \subseteq dropped'
           /\ (r \in pending => <<r, m.type>> \in dropped')
  BY <1>1, <1>2 DEF RouteChatReply
<1>7. m \in Way(c, r) /\ \A d \in Conns : Way(d, r)' \subseteq Way(d, r)
  BY <1>1, <1>4, <1>5 DEF Way
<1>8. home[r] = c /\ task[r] # "none" /\ Fits(m, r)
  BY <1>0, <1>1, <1>7 DEF Flow, Fits, Engaged, Finished
<1>9. Shown(r)' = Shown(r) /\ \A a : Fits(a, r)' <=> Fits(a, r)
  BY <1>1 DEF Shown, Fits
<1>10. r \in pending => /\ \A a \in C : Before(a, m)
                        /\ Below(Shown(r), {m})
  BY <1>0, <1>7 DEF Order, Precede, Below
<1>11. /\ Ascends(ch'[r], r)
       /\ \/ r \in pending /\ Cn = C \union {m} /\ dropped' = dropped
          \/ Cn = C /\ dropped \subseteq dropped'
               /\ (r \in pending => <<r, m.type>> \in dropped')
  <2>1. CASE r \in pending /\ ch'[r] = Append(ch[r], m) /\ dropped' = dropped
    <3>1. ch[r] \in Seq(Reply) /\ Ascends(ch[r], r)
      BY <1>0, <1>1 DEF Order
    <3> QED
      BY <1>3, <1>10, <2>1, <3>1, MsgsAppend
  <2>2. CASE ch'[r] = ch[r]
    BY <1>0, <1>6, <2>2 DEF Order
  <2> QED
    BY <1>6, <2>1, <2>2
<1> HIDE DEF m, C, T, S, Cn, Tn
<1>12. Flow(r)'
  <2>1. \A a \in Cn : Fits(a, r)
    BY <1>0, <1>8, <1>11 DEF Flow, C
  <2> QED
    BY <1>0, <1>1, <1>7, <1>9, <2>1 DEF Flow, Cn
<1>13. Order(r)'
  <2>1. ASSUME NEW d \in Conns PROVE Precede(Tn(d), S(d)) /\ Ascends(toServer'[d], r)
    <3>1. Precede(T(d), S(d)) /\ Ascends(toServer[d], r)
      BY <1>0 DEF Order, T, S
    <3>2. CASE d = c
      BY <1>4, <3>1, <3>2 DEF Precede
    <3>3. CASE d # c
      BY <1>5, <3>1, <3>3 DEF Precede, T, Tn
    <3> QED
      BY <3>2, <3>3
  <2>2. ASSUME NEW d \in Conns, r \in pending
        PROVE  Below(Shown(r), Way(d, r)') /\ Precede(Cn, Way(d, r)')
    <3>1. Below(Shown(r), Way(d, r)) /\ Precede(C, Way(d, r)) /\ Precede(T(d), S(d))
      BY <1>0, <2>2 DEF Order, C, T, S
    <3>2. Below(Shown(r), Way(d, r)') /\ Precede(C, Way(d, r)')
      BY <1>7, <3>1 DEF Below, Precede
    <3>3. \A b \in Way(d, r)' : Before(m, b)
      <4>1. CASE d = c
        <5>1. Way(d, r)' = Tn(c) \union S(c)
          BY <1>1, <4>1 DEF Way, Tn, S
        <5> QED
          BY <1>4, <3>1, <4>1, <5>1 DEF Precede
      <4>2. CASE d # c
        BY <1>0, <1>7, <1>8, <4>2 DEF Flow
      <4> QED
        BY <4>1, <4>2
    <3> QED
      BY <1>11, <3>2, <3>3 DEF Precede
  <2>3. Below(Shown(r), Cn)
    BY <1>0, <1>10, <1>11 DEF Order, Below, C
  <2> QED
    BY <1>0, <1>1, <1>9, <1>11, <2>1, <2>2, <2>3 DEF Order, Cn, Tn, S
<1>14. Gapless(r)'
  <2> SUFFICES ASSUME <<r, "chunk">> \notin dropped'
      PROVE  /\ Closed(Arrived(r)')
             /\ HasDone(Cn) => Arrived(r)' = 1..sent[r]
             /\ r \in pending =>
                  /\ Closed(Read(r)')
                  /\ HasDone(Tn(c)) => Read(r)' = 1..sent[r]
                  /\ link[c] = "up" => Read(r)' \union Queue(r)' = 1..sent[r]
    BY <1>0, <1>1, <1>8, <1>11 DEF Gapless, Cn, Tn
  <2>0. <<r, "chunk">> \notin dropped
    BY <1>11
  <2>1. /\ Arrived(r) = Shown(r) \union LinesOf(C)
        /\ Arrived(r)' = Shown(r) \union LinesOf(Cn)
        /\ Read(r) = Arrived(r) \union LinesOf(T(c))
        /\ Read(r)' = Arrived(r)' \union LinesOf(Tn(c))
        /\ Queue(r)' = Queue(r)
    BY <1>1, <1>8, <1>9 DEF Read, Queue, Arrived, C, Cn, T, Tn
  <2>2. /\ Closed(Arrived(r)) /\ (HasDone(C) => Arrived(r) = 1..sent[r])
        /\ r \in pending =>
             /\ Closed(Read(r))
             /\ HasDone(T(c)) => Read(r) = 1..sent[r]
             /\ link[c] = "up" => Read(r) \union Queue(r) = 1..sent[r]
    BY <1>0, <1>8, <2>0 DEF Gapless, C, T
  <2>3. /\ LinesOf(T(c)) = LinesOf({m}) \union LinesOf(Tn(c))
        /\ LinesOf({m}) = IF m.type = "chunk" THEN {m.line} ELSE {}
        /\ HasDone(Tn(c)) => HasDone(T(c))
    BY <1>4, LinesUnion, LinesOne DEF HasDone
  <2>4. CASE r \notin pending
    BY <1>11, <2>1, <2>2, <2>4
  <2>5. CASE r \in pending /\ Cn = C /\ <<r, m.type>> \in dropped'
    <3>1. LinesOf({m}) = {}
      BY <1>1, <2>3, <2>5 DEF m
    <3>2. Read(r)' = Read(r)
      BY <2>1, <2>3, <2>5, <3>1
    <3> QED
      BY <2>1, <2>2, <2>3, <2>5, <3>2
  <2>6. CASE r \in pending /\ Cn = C \union {m}
    <3>1. LinesOf(Cn) = LinesOf(C) \union LinesOf({m})
      BY <2>6, LinesUnion
    <3>2. Arrived(r)' = Arrived(r) \union LinesOf({m}) /\ Read(r)' = Read(r)
      BY <2>1, <2>3, <3>1
    <3>3. ~HasDone(C)
      BY <1>1, <1>10, <2>6 DEF HasDone, Before, m
    <3>4. CASE m.type = "chunk"
      <4>1. Arrived(r) \in SUBSET Nat /\ LinesOf(Tn(c)) \in SUBSET Nat /\ m.line \in Nat
        <5>1. \A a \in C \union T(c) : a.type = "chunk" => a.line \in Nat
          BY <1>0, <1>1 DEF Flow, Fits, C, T, Way
        <5>2. Shown(r) \subseteq Nat
          BY <1>0, <1>1 DEF Flow
        <5>3. LinesOf(C) \subseteq Nat /\ LinesOf(Tn(c)) \subseteq Nat
          BY <1>4, <5>1, LinesIn
        <5> QED
          BY <1>4, <2>1, <3>4, <5>1, <5>2, <5>3
      <4>2. \A j \in LinesOf(Tn(c)) : m.line < j
        BY <1>4, LinesIn DEF Before
      <4>3. Closed(Arrived(r) \union {m.line} \union LinesOf(Tn(c)))
        <5>1. Read(r) = Arrived(r) \union {m.line} \union LinesOf(Tn(c))
          BY <2>1, <2>3, <3>4
        <5> QED
          BY <2>2, <2>6, <5>1
      <4>4. Closed(Arrived(r)')
        <5>1. Closed(Arrived(r) \union {m.line})
          BY <2>2, <4>1, <4>2, <4>3, NextClosed
        <5>2. Arrived(r)' = Arrived(r) \union {m.line}
          BY <2>3, <3>2, <3>4
        <5> QED
          BY <5>1, <5>2
      <4>5. ~HasDone(Cn)
        BY <2>6, <3>3, <3>4 DEF HasDone
      <4> QED
        BY <2>1, <2>2, <2>3, <2>6, <3>2, <4>4, <4>5
    <3>5. CASE m.type = "done"
      <4>1. \A b \in Tn(c) : b.type # "chunk"
        BY <1>4, <3>5 DEF Before
      <4>2. LinesOf(Tn(c)) = {} /\ LinesOf({m}) = {}
        BY <2>3, <3>5, <4>1, LinesIn
      <4>3. HasDone(T(c))
        BY <1>4, <3>5 DEF HasDone
      <4> QED
        BY <2>1, <2>2, <2>3, <2>6, <3>2, <4>2, <4>3
    <3> QED
      BY <1>1, <3>4, <3>5 DEF m
  <2> QED
    BY <1>11, <2>4, <2>5, <2>6
<1>15. EndedWhole(r)'
  BY <1>0, <1>1, <1>9, <1>11 DEF EndedWhole
<1> QED
  BY <1>12, <1>13, <1>14, <1>15 DEF Streams

\* A cleanup tells the handler of r that its worker is lost.
LEMMA WakeKeeps ==
  ASSUME StreamInv, NEW r \in Reqs, r \notin pending, ch'[r] = Append(ch[r], Lost),
         UNCHANGED <<wireVars, sessionVars, pending, got, h>>
  PROVE  Streams(r)'
<1> USE DEF wireVars, sessionVars
<1>0. Flow(r) /\ Order(r) /\ Gapless(r) /\ EndedWhole(r) /\ ch[r] \in Seq(Reply)
  BY DEF StreamInv, Streams, Ground, RouteInv, Typed, TypeOK, ServerTypeOK, Buffers
<1>1. Lost \in Reply /\ Of(Lost, r) /\ Lost.type = "lost" /\ \A a : Before(a, Lost)
  BY DEF Lost, Reply, Of, Before
<1>2. Msgs(ch'[r], r) = Msgs(ch[r], r) \union {Lost} /\ Ascends(ch'[r], r)
  BY <1>0, <1>1, MsgsAppend DEF Order
<1>3. /\ LinesOf(Msgs(ch'[r], r)) = LinesOf(Msgs(ch[r], r))
      /\ HasDone(Msgs(ch'[r], r)) => HasDone(Msgs(ch[r], r))
  <2>1. LinesOf({Lost}) = {}
    BY <1>1, LinesOne
  <2>2. LinesOf(Msgs(ch'[r], r)) = LinesOf(Msgs(ch[r], r)) \union LinesOf({Lost})
    BY <1>2, LinesUnion
  <2> QED
    BY <1>1, <1>2, <2>1, <2>2 DEF HasDone
<1>4. Shown(r)' = Shown(r) /\ \A a : Fits(a, r)' <=> Fits(a, r)
  BY DEF Shown, Fits
<1>5. \A d \in Conns : Way(d, r)' = Way(d, r)
  BY DEF Way
<1>6. Flow(r)'
  BY <1>0, <1>1, <1>2, <1>4, <1>5 DEF Flow, Fits
<1>7. Order(r)'
  <2>1. Below(Shown(r), Msgs(ch'[r], r))
    BY <1>0, <1>1, <1>2 DEF Order, Below
  <2> QED
    BY <1>0, <1>2, <1>4, <2>1 DEF Order
<1>8. Gapless(r)'
  <2>1. Arrived(r)' = Arrived(r)
    BY <1>3, <1>4 DEF Arrived
  <2> QED
    BY <1>0, <1>3, <2>1 DEF Gapless
<1>9. EndedWhole(r)'
  BY <1>0, <1>4 DEF EndedWhole
<1> QED
  BY <1>6, <1>7, <1>8, <1>9 DEF Streams

\* The handler writes the next line to its client.
LEMMA ShowKeeps ==
  ASSUME StreamInv, NEW r \in Reqs, ReceiveChunk(r), UNCHANGED sessionVars
  PROVE  /\ Streams(r)'
         /\ Shown(r)' = Shown(r) \union {Head(ch[r]).line}
         /\ <<r, "chunk">> \notin dropped => Head(ch[r]).line = Len(got[r]) + 1
<1> DEFINE m == Head(ch[r])
           n == Len(got[r])
           k == m.line
           C == Msgs(ch[r], r)
           Cn == Msgs(ch'[r], r)
<1> USE DEF wireVars, sessionVars
<1>0. Flow(r) /\ Order(r) /\ Gapless(r) /\ EndedWhole(r) /\ Channelled(r) /\ RouteInv
  BY DEF StreamInv, Streams, Ground, ChannelInv
<1>1. /\ ch[r] \in Seq(Reply) /\ ch[r] # <<>> /\ ch'[r] = Tail(ch[r])
      /\ got[r] \in Seq(1..Lines) /\ got'[r] = Append(got[r], k)
      /\ m.type = "chunk" /\ sent[r] \in Nat /\ h'[r] # "done"
      /\ UNCHANGED <<toServer, sOut, task, home, sent, link, dropped, pending>>
  BY <1>0 DEF RouteInv, Typed, TypeOK, ServerTypeOK, SessionTypeOK, Buffers, ReceiveChunk
<1>2. Of(m, r)
  BY <1>0, <1>1, OfTail DEF Channelled
<1>3. C = {m} \union Cn /\ Ascends(ch'[r], r) /\ \A b \in Cn : Before(m, b)
  BY <1>0, <1>1, <1>2, MsgsTail DEF Order
<1>4. k \in 1..sent[r] /\ \A j \in Shown(r) : j < k
  BY <1>0, <1>1, <1>3 DEF Flow, Fits, Order, Below
<1>5. /\ n \in Nat /\ DOMAIN got[r] = 1..n /\ DOMAIN got'[r] = 1..(n + 1)
      /\ \A i \in 1..n : got'[r][i] = got[r][i]
      /\ got'[r][n + 1] = k
  BY <1>1, <1>4
<1>6. \A i : i \in 1..(n + 1) <=> i \in 1..n \/ i = n + 1
  BY <1>5
<1> HIDE DEF m, n, C, Cn
<1>7. Shown(r)' = Shown(r) \union {k}
  BY <1>5, <1>6 DEF Shown
<1>8. \A a : Fits(a, r)' <=> Fits(a, r)
  BY <1>1 DEF Fits
<1>9. \A d \in Conns : Way(d, r)' = Way(d, r)
  BY <1>1 DEF Way
<1>10. Flow(r)'
  <2>1. \A a \in Cn : Fits(a, r)
    BY <1>0, <1>3 DEF Flow, C
  <2>2. Shown(r)' \subseteq 1..sent[r]
    BY <1>0, <1>4, <1>7 DEF Flow
  <2> QED
    BY <1>0, <1>1, <1>8, <1>9, <2>1, <2>2 DEF Flow, Cn
<1>11. Order(r)'
  <2>1. ASSUME NEW i \in DOMAIN got'[r], NEW j \in DOMAIN got'[r], i < j
        PROVE  got'[r][i] < got'[r][j]
    <3>1. i \in 1..n /\ got'[r][i] = got[r][i] /\ got[r][i] \in Shown(r)
      BY <1>5, <1>6, <2>1 DEF Shown
    <3>2. CASE j \in 1..n
      BY <1>0, <1>5, <2>1, <3>1, <3>2 DEF Order
    <3>3. CASE j = n + 1
      BY <1>4, <1>5, <3>1, <3>3
    <3> QED
      BY <1>5, <1>6, <3>2, <3>3
  <2>2. Below(Shown(r)', Cn)
    <3>1. \A b \in Cn : b \in C
      BY <1>3
    <3>2. \A b \in Cn : b.type = "chunk" => k < b.line
      BY <1>3 DEF Before
    <3> QED
      BY <1>0, <1>7, <3>1, <3>2 DEF Order, Below, C
  <2>3. ASSUME NEW d \in Conns, r \in pending
        PROVE  Below(Shown(r)', Way(d, r)) /\ Precede(Cn, Way(d, r))
    <3>1. Below(Shown(r), Way(d, r)) /\ Precede(C, Way(d, r))
      BY <1>0, <2>3 DEF Order, C
    <3> QED
      BY <1>3, <1>7, <3>1 DEF Below, Precede, Before
  <2> QED
    BY <1>0, <1>1, <1>3, <1>9, <2>1, <2>2, <2>3 DEF Order, Cn
<1>12. LinesOf(C) = {k} \union LinesOf(Cn)
  <2>1. LinesOf(C) = LinesOf({m}) \union LinesOf(Cn)
    BY <1>3, LinesUnion
  <2>2. LinesOf({m}) = {k}
    BY <1>1, LinesOne
  <2> QED
    BY <2>1, <2>2
<1>13. Arrived(r)' = Arrived(r)
  BY <1>7, <1>12 DEF Arrived, C, Cn
<1>14. ASSUME <<r, "chunk">> \notin dropped PROVE k = n + 1
  <2>1. Shown(r) = 1..n /\ Closed(Arrived(r))
    BY <1>0, <1>14, ShownPrefix DEF Gapless, n
  <2>2. k \in Arrived(r) /\ \A j \in Arrived(r) : j \in 1..n \/ j = k \/ k < j
    BY <1>3, <1>12, <2>1, LinesIn DEF Arrived, C, Cn, Before
  <2>3. k \in Nat /\ n < k
    BY <1>4, <1>5, <2>1
  <2>4. n + 1 \in 1..k
    BY <1>5, <2>3
  <2>5. n + 1 \in Arrived(r)
    BY <2>1, <2>2, <2>4 DEF Closed
  <2>6. n + 1 \notin 1..n /\ ~(k < n + 1)
    BY <1>5, <2>3
  <2> QED
    BY <2>2, <2>5, <2>6
<1>15. Gapless(r)'
  <2> SUFFICES ASSUME <<r, "chunk">> \notin dropped PROVE Gapless(r)'
    BY <1>1 DEF Gapless
  <2>1. \A i \in DOMAIN got'[r] : got'[r][i] = i
    BY <1>0, <1>5, <1>6, <1>14 DEF Gapless
  <2>2. Read(r)' = Read(r) /\ Queue(r)' = Queue(r)
    BY <1>1, <1>13 DEF Read, Queue
  <2>3. HasDone(Cn) => HasDone(C)
    BY <1>3 DEF HasDone
  <2> QED
    BY <1>0, <1>1, <1>13, <2>1, <2>2, <2>3 DEF Gapless, C, Cn
<1>16. EndedWhole(r)'
  BY <1>1 DEF EndedWhole
<1> QED
  BY <1>7, <1>10, <1>11, <1>14, <1>15, <1>16 DEF Streams, m, n

\* The handler ends the stream of its client.
LEMMA EndKeeps ==
  ASSUME StreamInv, RouteInv', NEW r \in Reqs, ReceiveDone(r), UNCHANGED sessionVars
  PROVE  Streams(r)'
<1> DEFINE m == Head(ch[r])
           C == Msgs(ch[r], r)
<1> USE DEF wireVars, sessionVars
<1>0. Flow(r) /\ Order(r) /\ Gapless(r) /\ Channelled(r) /\ RouteInv
  BY DEF StreamInv, Streams, Ground, ChannelInv
<1>1. /\ ch[r] \in Seq(Reply) /\ ch[r] # <<>> /\ ch'[r] = <<>>
      /\ r \notin pending' /\ (h'[r] = "done" => m.type = "done" /\ m.ok)
      /\ UNCHANGED <<toServer, sOut, task, home, sent, link, dropped, got>>
  BY <1>0 DEF RouteInv, Typed, TypeOK, ServerTypeOK, Buffers, ReceiveDone, ClosePending
<1>2. Flow(r)' /\ Order(r)' /\ Gapless(r)'
  <2>1. Fade(r)
    BY <1>1 DEF Fade
  <2> QED
    BY <2>1, FadeKeeps
<1>3. ASSUME h'[r] = "done" PROVE EndedWhole(r)'
  <2>1. m \in C /\ \A b \in C : b = m \/ Before(m, b)
    <3>1. Of(m, r)
      BY <1>0, <1>1, OfTail DEF Channelled
    <3> QED
      BY <1>0, <1>1, <3>1, MsgsTail DEF Order
  <2>2. m.type = "done" /\ m.ok
    BY <1>1, <1>3
  <2> HIDE DEF m, C
  <2>3. task[r] = "answered"
    BY <1>0, <2>1, <2>2 DEF Flow, Fits, C
  <2>4. LinesOf(C) = {} /\ HasDone(C)
    BY <2>1, <2>2, LinesIn DEF Before, HasDone
  <2>5. <<r, "chunk">> \notin dropped => Shown(r) = 1..sent[r]
    BY <1>0, <2>4 DEF Gapless, Arrived, C
  <2>6. Shown(r)' = Shown(r)
    BY <1>1 DEF Shown
  <2> QED
    BY <1>1, <2>3, <2>5, <2>6 DEF EndedWhole
<1> QED
  BY <1>2, <1>3 DEF Streams, EndedWhole
-----------------------------------------------------------------------------
(* Every step *)

LEMMA Fades ==
  ASSUME StreamInv, RouteInv', NEW r \in Reqs, Fade(r), h'[r] = "done" => h[r] = "done"
  PROVE  Streams(r)'
BY FadeKeeps DEF Streams

\* What is under way for r runs on that connection, whose Hello was read.
LEMMA WayHome ==
  ASSUME StreamInv, NEW r \in Reqs, NEW c \in Conns, Way(c, r) # {}
  PROVE  task[r] # "none" /\ home[r] = c /\ srv[c] # "hello" /\ sess[c] # "none"
<1>0. Flow(r) /\ RunsAtHome(r) /\ Homes /\ RouteInv
  BY DEF StreamInv, Streams, Ground, RouteInv
<1>1. PICK m \in Way(c, r) : m.type \in {"chunk", "done"} /\ Fits(m, r) /\ home[r] = c
  BY <1>0, WayTyped DEF Flow
<1>2. task[r] # "none"
  <2>1. sent[r] \in Nat
    BY <1>0 DEF RouteInv, Typed, TypeOK, SessionTypeOK
  <2>2. m.type = "chunk" => sent[r] # 0
    BY <1>1, <2>1 DEF Fits
  <2> QED
    BY <1>0, <1>1, <2>2 DEF Flow, Fits, Engaged, Finished
<1>3. srv[c] # "hello"
  BY <1>0, <1>1, <1>2, NoneAssumption DEF RunsAtHome, Homes
<1>4. sess[c] # "none"
  BY <1>0, <1>1, <1>2 DEF Homes
<1> QED
  BY <1>1, <1>2, <1>3, <1>4

\* A message that is not for r leaves a buffer.
LEMMA TailOfOther ==
  ASSUME NEW M, NEW s \in Seq(M), s # <<>>, NEW r, ~Of(Head(s), r)
  PROVE  /\ Msgs(Tail(s), r) = Msgs(s, r)
         /\ Ascends(s, r) => Ascends(Tail(s), r)
BY MsgsTail

LEMMA StreamServe ==
  ASSUME StreamInv, RouteInv', NEW c \in Conns, ServeStep(c) \/ WriteOut(c),
         UNCHANGED sessionVars, NEW r \in Reqs
  PROVE  Streams(r)'
<1> USE DEF handlerVars, sessionVars
<1>0. /\ toServer \in [Conns -> Seq(ToServerMsg)] /\ ch \in [Reqs -> Seq(Reply)]
      /\ link \in [Conns -> {"none", "up", "down"}] /\ orphans \in [Conns -> SUBSET Reqs]
      /\ Channelled(r)
  BY DEF StreamInv, Ground, ChannelInv, RouteInv, Typed, TypeOK, WireTypeOK, ServerTypeOK,
     Buffers
<1>1. /\ UNCHANGED <<h, got, sent, task, home, sOut>>
      /\ dropped \subseteq dropped' /\ pending' \subseteq pending
      /\ \A d \in Conns : link'[d] \in {link[d], "down"}
  BY <1>0 DEF ServeStep, ReadHello, HelloFails, AddConn, SendWelcome, WelcomeFails,
     ReadHeartbeat, RouteChatReply, ReadFails, Unlink, CleanupCollect, CleanupPush,
     RemoveAndClose, WriteOut, wireVars
<1>2. ASSUME ch'[r] = ch[r],
             \A d \in Conns :
               \/ /\ Msgs(toServer'[d], r) = Msgs(toServer[d], r)
                  /\ Ascends(toServer[d], r) => Ascends(toServer'[d], r)
               \/ toServer'[d] = <<>> /\ link'[d] # "up"
      PROVE  Streams(r)'
  <2>1. Fade(r)
    BY <1>1, <1>2 DEF Fade
  <2> QED
    BY <1>1, <2>1, Fades
<1>3. CASE UNCHANGED <<toServer, ch>>
  BY <1>2, <1>3
<1>4. ASSUME toServer[c] # <<>>, ~Of(Head(toServer[c]), r), ch'[r] = ch[r],
             toServer' = [toServer EXCEPT ![c] = Tail(@)]
      PROVE  Streams(r)'
  <2>1. /\ Msgs(Tail(toServer[c]), r) = Msgs(toServer[c], r)
        /\ Ascends(toServer[c], r) => Ascends(Tail(toServer[c]), r)
    BY <1>0, <1>4, TailOfOther
  <2>2. toServer'[c] = Tail(toServer[c]) /\ \A d \in Conns : d # c => toServer'[d] = toServer[d]
    BY <1>0, <1>4
  <2>3. \A d \in Conns : /\ Msgs(toServer'[d], r) = Msgs(toServer[d], r)
                         /\ Ascends(toServer[d], r) => Ascends(toServer'[d], r)
    BY <2>1, <2>2
  <2> QED
    BY <1>2, <1>4, <2>3
<1>5. CASE ReadHello(c)
  <2>1. ~Of(Head(toServer[c]), r)
    <3>1. SUFFICES ASSUME Of(Head(toServer[c]), r) PROVE FALSE
      OBVIOUS
    <3>2. Head(toServer[c]) \in Way(c, r)
      <4>1. toServer[c] \in Seq(ToServerMsg) /\ toServer[c] # <<>>
        BY <1>0, <1>5 DEF ReadHello
      <4> QED
        BY <3>1, <4>1, MsgsTail DEF Way
    <3> QED
      BY <1>5, <3>2, WayHome DEF ReadHello
  <2> QED
    BY <1>4, <1>5, <2>1 DEF ReadHello
<1>6. CASE HelloFails(c) \/ RemoveAndClose(c)
  <2>1. ch' = ch /\ toServer' = [toServer EXCEPT ![c] = <<>>] /\ link'[c] # "up"
    BY <1>0, <1>6 DEF HelloFails, RemoveAndClose
  <2>2. \A d \in Conns : \/ toServer'[d] = toServer[d]
                         \/ toServer'[d] = <<>> /\ link'[d] # "up"
    BY <1>0, <2>1
  <2> QED
    BY <1>2, <2>1, <2>2
<1>7. CASE ReadHeartbeat(c)
  BY <1>4, <1>7 DEF ReadHeartbeat, Of
<1>8. CASE RouteChatReply(c)
  <2>1. CASE Of(Head(toServer[c]), r)
    BY <1>8, <2>1, DeliverKeeps
  <2>2. CASE ~Of(Head(toServer[c]), r)
    <3>1. ch'[r] = ch[r]
      BY <1>0, <1>8, <2>2 DEF RouteChatReply, Of
    <3> QED
      BY <1>4, <1>8, <2>2, <3>1 DEF RouteChatReply
  <2> QED
    BY <2>1, <2>2
<1>9. ASSUME NEW q \in Reqs, CleanupPush(c, q) PROVE Streams(r)'
  <2>1. UNCHANGED <<toServer, toWorker, link, pending>> /\ q \in orphans[c]
    BY <1>9 DEF CleanupPush
  <2>2. CASE ch'[r] = ch[r]
    BY <1>2, <2>1, <2>2
  <2>3. CASE q = r /\ ch' = [ch EXCEPT ![r] = Append(@, Lost)] /\ dropped' = dropped
    <3>1. ch'[r] = Append(ch[r], Lost)
      BY <1>0, <2>3
    <3>2. r \notin pending
      BY <1>0, <2>1, <2>3 DEF Channelled
    <3> QED
      BY <1>1, <2>1, <2>3, <3>1, <3>2, WakeKeeps DEF wireVars
  <2> QED
    BY <1>0, <1>9, <2>2, <2>3 DEF CleanupPush
<1> QED
  BY <1>3, <1>5, <1>6, <1>7, <1>8, <1>9 DEF ServeStep, AddConn, SendWelcome, WelcomeFails,
     ReadFails, Unlink, CleanupCollect, WriteOut, wireVars

LEMMA StreamHandler ==
  ASSUME StreamInv, RouteInv', NEW q \in Reqs, HandlerStep(q), UNCHANGED sessionVars,
         NEW r \in Reqs
  PROVE  Streams(r)'
<1> USE DEF connVars, sessionVars, wireVars
<1>0. /\ ch \in [Reqs -> Seq(Reply)] /\ h \in [Reqs -> HandlerState]
      /\ got \in [Reqs -> Seq(1..Lines)] /\ Channelled(r) /\ RunsAtHome(r)
      /\ ch[r] # <<>> => h[r] \in Active
  BY DEF StreamInv, Ground, ChannelInv, LostInv, ChannelActive, RouteInv, Typed, TypeOK,
     ServerTypeOK, Buffers
<1>1. ASSUME UNCHANGED <<wireVars, sessionVars>>, got'[r] = got[r],
             ch'[r] = ch[r] \/ (ch'[r] = <<>> /\ r \notin pending'),
             r \in pending' => \/ r \in pending
                               \/ task[r] = "none" /\ got[r] = <<>> /\ ch[r] = <<>>,
             h'[r] = "done" => h[r] = "done"
      PROVE  Streams(r)'
  <2>1. Fade(r)
    BY <1>1 DEF Fade
  <2> QED
    BY <1>1, <2>1, Fades
<1>2. CASE ReceiveChunk(r)
  BY <1>2, ShowKeeps
<1>3. CASE ReceiveDone(r)
  BY <1>3, EndKeeps
<1>4. CASE q # r /\ (ReceiveChunk(q) \/ ReceiveDone(q))
  BY <1>0, <1>1, <1>4 DEF ReceiveChunk, ReceiveDone, ClosePending
<1>5. CASE \/ ListCandidates(q) \/ PickWorker(q) \/ NoWorker(q) \/ Dispatch(q)
           \/ ClientGone(q)
  <2>1. UNCHANGED <<wireVars, got, ch, pending>> /\ (h'[r] = "done" => h[r] = "done")
    BY <1>0, <1>5 DEF ListCandidates, PickWorker, NoWorker, Dispatch, ClientGone
  <2> QED
    BY <1>1, <2>1
<1>6. CASE RegisterPending(q)
  <2>1. /\ UNCHANGED <<wireVars, got, ch>> /\ (h'[r] = "done" => h[r] = "done")
        /\ r \in pending' => r \in pending \/ h[r] = "picked"
    BY <1>0, <1>6 DEF RegisterPending
  <2>2. h[r] = "picked" => task[r] = "none" /\ got[r] = <<>> /\ ch[r] = <<>>
    BY <1>0 DEF Channelled, RunsAtHome, Dispatched, Active
  <2> QED
    BY <1>1, <2>1, <2>2
<1>7. CASE DispatchTimesOut(q) \/ EncodeFails(q) \/ CancelOnWorker(q)
  <2>1. /\ UNCHANGED <<wireVars, got>> /\ (h'[r] = "done" => h[r] = "done")
        /\ ch'[r] = ch[r] \/ (ch'[r] = <<>> /\ r \notin pending')
        /\ r \in pending' => r \in pending
    BY <1>0, <1>7 DEF DispatchTimesOut, EncodeFails, CancelOnWorker, ClosePending
  <2> QED
    BY <1>1, <2>1
<1> QED
  BY <1>2, <1>3, <1>4, <1>5, <1>6, <1>7 DEF HandlerStep

LEMMA StreamDial ==
  ASSUME StreamInv, RouteInv', NEW c \in Conns, Dial(c), UNCHANGED serverVars, NEW r \in Reqs
  PROVE  Streams(r)'
<1> USE DEF serverVars, taskVars
<1> DEFINE m == [type |-> "hello", model |-> Owner[c] \in Loaded]
<1>0. /\ toServer \in [Conns -> Seq(ToServerMsg)] /\ sess[c] = "none"
      /\ link \in [Conns -> {"none", "up", "down"}]
      /\ toServer' = [toServer EXCEPT ![c] = <<m>>] /\ link' = [link EXCEPT ![c] = "up"]
      /\ UNCHANGED <<h, got, sent, task, home, sOut, dropped, pending, ch>>
  BY DEF StreamInv, Ground, RouteInv, Typed, TypeOK, WireTypeOK, Buffers, Dial
<1>1. /\ DOMAIN <<m>> = {1} /\ <<m>>[1] = m
      /\ ~Of(m, r)
  BY DEF Of
<1>2. Msgs(<<m>>, r) = {} /\ Ascends(<<m>>, r)
  BY <1>1 DEF Msgs, Ascends
<1>3. Way(c, r) = {}
  BY <1>0, WayHome
<1>4. task[r] # "none" => home[r] # c
  BY <1>0 DEF StreamInv, Ground, Homes
<1>5. \A d \in Conns : /\ Msgs(toServer'[d], r) = Msgs(toServer[d], r)
                       /\ Ascends(toServer[d], r) => Ascends(toServer'[d], r)
  <2>1. toServer'[c] = <<m>> /\ \A d \in Conns : d # c => toServer'[d] = toServer[d]
    BY <1>0
  <2>2. Msgs(toServer[c], r) = {}
    BY <1>3 DEF Way
  <2> QED
    BY <1>2, <2>1, <2>2
<1>6. \A d \in Conns : task[r] # "none" /\ home[r] = d /\ link'[d] = "up" => link[d] = "up"
  BY <1>0, <1>4
<1>7. Fade(r)
  BY <1>0, <1>5, <1>6 DEF Fade
<1> QED
  BY <1>0, <1>7, Fades

LEMMA StreamLoops ==
  ASSUME StreamInv, RouteInv', NEW c \in Conns, SessionStep(c), UNCHANGED serverVars,
         NEW r \in Reqs
  PROVE  Streams(r)'
<1> USE DEF serverVars, taskVars
<1>0. /\ toServer \in [Conns -> Seq(ToServerMsg)] /\ toWorker \in [Conns -> Seq(ToWorkerMsg)]
      /\ link \in [Conns -> {"none", "up", "down"}] /\ sOut \in [Conns -> Seq(SessionMsg)]
      /\ task \in [Reqs -> TaskState] /\ home \in [Reqs -> {None} \union Conns]
      /\ \A q \in Reqs : OrderedOnce(c, q)
  BY DEF StreamInv, Ground, RouteInv, Typed, TypeOK, WireTypeOK, SessionTypeOK, Buffers
<1>1. ASSUME UNCHANGED <<sent, dropped>>,
             \/ task'[r] = task[r] /\ home'[r] = home[r]
             \/ task[r] \notin Engaged,
             \A d \in Conns : link'[d] \in {link[d], "down"},
             \A d \in Conns :
               /\ Msgs(toServer'[d], r) = Msgs(toServer[d], r)
               /\ Ascends(toServer[d], r) => Ascends(toServer'[d], r),
             \A d \in Conns :
               \/ /\ Msgs(sOut'[d], r) = Msgs(sOut[d], r)
                  /\ Ascends(sOut[d], r) => Ascends(sOut'[d], r)
               \/ sOut'[d] = <<>> /\ link'[d] # "up"
      PROVE  Streams(r)'
  <2>1. Fade(r)
    BY <1>1 DEF Fade
  <2> QED
    BY <2>1, Fades
<1>2. CASE RecvWelcome(c) \/ RecvCancel(c)
  <2>1. /\ UNCHANGED <<sOut, task, home, sent, toServer, dropped>>
        /\ \A d \in Conns : link'[d] \in {link[d], "down"}
    BY <1>0, <1>2 DEF RecvWelcome, RecvCancel
  <2> QED
    BY <1>1, <2>1
<1>3. CASE GreetingFails(c) \/ SessionEnds(c)
  <2>1. /\ UNCHANGED <<task, home, sent, toServer, dropped>>
        /\ link' = [link EXCEPT ![c] = "down"] /\ sOut' = [sOut EXCEPT ![c] = <<>>]
    BY <1>3 DEF GreetingFails, SessionEnds, EndSession
  <2>2. \A d \in Conns : \/ sOut'[d] = sOut[d]
                         \/ sOut'[d] = <<>> /\ link'[d] # "up"
    BY <1>0, <2>1
  <2>3. \A d \in Conns : link'[d] \in {link[d], "down"}
    BY <1>0, <2>1
  <2> QED
    BY <1>1, <2>1, <2>2, <2>3
<1>4. CASE HeartbeatTick(c)
  <2>1. PICK idle \in BOOLEAN :
          sOut' = [sOut EXCEPT ![c] = Append(@, [type |-> "heartbeat", idle |-> idle])]
    BY <1>4 DEF HeartbeatTick
  <2> DEFINE m == [type |-> "heartbeat", idle |-> idle]
  <2>2. m \in SessionMsg /\ ~Of(m, r) /\ sOut[c] \in Seq(SessionMsg)
    BY <1>0 DEF SessionMsg, Of
  <2>3. sOut'[c] = Append(sOut[c], m) /\ \A d \in Conns : d # c => sOut'[d] = sOut[d]
    BY <1>0, <2>1
  <2> HIDE DEF m
  <2>4. /\ Msgs(sOut'[c], r) = Msgs(sOut[c], r)
        /\ Ascends(sOut[c], r) => Ascends(sOut'[c], r)
    BY <2>2, <2>3, MsgsAppend
  <2>5. UNCHANGED <<task, home, sent, toServer, dropped, link>>
    BY <1>4 DEF HeartbeatTick, wireVars
  <2> QED
    BY <1>1, <2>3, <2>4, <2>5
<1>5. CASE SessionWrite(c)
  <2>1. CASE Of(Head(sOut[c]), r)
    BY <1>5, <2>1, WriteKeeps
  <2>2. CASE ~Of(Head(sOut[c]), r)
    <3> DEFINE m == Head(sOut[c])
    <3>1. /\ sOut[c] # <<>> /\ sOut' = [sOut EXCEPT ![c] = Tail(@)]
          /\ toServer' = Written(toServer, c, m)
          /\ UNCHANGED <<task, home, sent, dropped, link>>
      BY <1>5 DEF SessionWrite
    <3>2. sOut[c] \in Seq(SessionMsg) /\ toServer[c] \in Seq(ToServerMsg) /\ m \in ToServerMsg
      BY <1>0, <3>1, HeadTailProperties DEF ToServerMsg
    <3>3. /\ Msgs(Tail(sOut[c]), r) = Msgs(sOut[c], r)
          /\ Ascends(sOut[c], r) => Ascends(Tail(sOut[c]), r)
      BY <2>2, <3>1, <3>2, TailOfOther
    <3>4. ~Of(m, r)
      BY <2>2
    <3> HIDE DEF m
    <3>5. /\ Msgs(Append(toServer[c], m), r) = Msgs(toServer[c], r)
          /\ Ascends(toServer[c], r) => Ascends(Append(toServer[c], m), r)
      BY <3>2, <3>4, MsgsAppend
    <3>6. /\ sOut'[c] = Tail(sOut[c]) /\ \A d \in Conns : d # c => sOut'[d] = sOut[d]
          /\ toServer'[c] \in {toServer[c], Append(toServer[c], m)}
          /\ \A d \in Conns : d # c => toServer'[d] = toServer[d]
      BY <1>0, <3>1 DEF Written
    <3>7. \A d \in Conns : /\ Msgs(toServer'[d], r) = Msgs(toServer[d], r)
                           /\ Ascends(toServer[d], r) => Ascends(toServer'[d], r)
      BY <3>5, <3>6
    <3>8. \A d \in Conns : /\ Msgs(sOut'[d], r) = Msgs(sOut[d], r)
                           /\ Ascends(sOut[d], r) => Ascends(sOut'[d], r)
      BY <3>3, <3>6
    <3> QED
      BY <1>1, <3>1, <3>7, <3>8
  <2> QED
    BY <2>1, <2>2
<1>6. CASE RecvRequest(c)
  <2> DEFINE m == Head(toWorker[c])
  <2>1. /\ toWorker[c] # <<>> /\ m.type = "request"
        /\ task' = [task EXCEPT ![m.req] = "spawned"] /\ home' = [home EXCEPT ![m.req] = c]
        /\ UNCHANGED <<sOut, sent, toServer, dropped, link>>
    BY <1>6 DEF RecvRequest
  <2>2. toWorker[c] \in Seq(ToWorkerMsg)
    BY <1>0
  <2>3. m.req = r => task[r] = "none"
    BY <1>0, <2>1, <2>2, AskedTail DEF OrderedOnce, Asks
  <2> HIDE DEF m
  <2>4. \/ task'[r] = task[r] /\ home'[r] = home[r]
        \/ task[r] \notin Engaged
    BY <1>0, <2>1, <2>3 DEF Engaged, Finished
  <2> QED
    BY <1>1, <2>1, <2>4
<1> QED
  BY <1>2, <1>3, <1>4, <1>5, <1>6 DEF SessionStep

LEMMA StreamTask ==
  ASSUME StreamInv, RouteInv', NEW q \in Reqs, TaskStep(q), UNCHANGED serverVars, NEW r \in Reqs
  PROVE  Streams(r)'
<1> USE DEF serverVars
<1>0. /\ sOut \in [Conns -> Seq(SessionMsg)] /\ task \in [Reqs -> TaskState]
      /\ sent \in [Reqs -> 0..Lines] /\ home \in [Reqs -> {None} \union Conns]
      /\ task[q] # "none" => home[q] \in Conns
  BY DEF StreamInv, Ground, RouteInv, Typed, TypeOK, SessionTypeOK, Buffers, HoldConns
<1>1. CASE (StartTask(q) /\ Owner[home[q]] \in Loaded) \/ CallAnswered(q)
  <2>1. /\ UNCHANGED <<wireVars, sOut, home, sent>>
        /\ task'[r] = task[r] \/ task[r] \notin Engaged
    BY <1>0, <1>1 DEF StartTask, CallAnswered, Engaged, Finished
  <2>2. Fade(r)
    BY <2>1 DEF Fade, wireVars
  <2> QED
    BY <2>2, Fades
\* The other steps send one message of q.
<1>2. ASSUME NEW m \in ChatReply, m.req = q, Send(home[q], m), task[q] # "none",
             task'[r] = task[r] \/ r = q, sent'[r] = sent[r] \/ r = q,
             UNCHANGED <<home, link, toServer>>, r # q
      PROVE  Streams(r)'
  <2>1. m \in SessionMsg /\ ~Of(m, r)
    BY <1>2 DEF SessionMsg, ChatReply, Of
  <2>2. /\ dropped \subseteq dropped'
        /\ sOut' = sOut \/ sOut' = [sOut EXCEPT ![home[q]] = Append(@, m)]
    BY <1>2 DEF Send
  <2>3. \A d \in Conns : sOut'[d] = sOut[d] \/ sOut'[d] = Append(sOut[d], m)
    BY <1>0, <2>2
  <2>4. ASSUME NEW d \in Conns
        PROVE  /\ Msgs(sOut'[d], r) = Msgs(sOut[d], r)
               /\ Ascends(sOut[d], r) => Ascends(sOut'[d], r)
    <3>1. sOut[d] \in Seq(SessionMsg) /\ m \in SessionMsg /\ ~Of(m, r)
      BY <1>0, <2>1
    <3>2. /\ Msgs(Append(sOut[d], m), r) = Msgs(sOut[d], r)
          /\ Ascends(sOut[d], r) => Ascends(Append(sOut[d], m), r)
      BY <3>1, MsgsAppend
    <3> QED
      BY <2>3, <3>2
  <2>5. Fade(r)
    BY <1>2, <2>2, <2>4 DEF Fade
  <2> QED
    BY <2>5, Fades
<1>3. ASSUME NEW ok \in BOOLEAN, FinishTask(q, ok), task[q] \in {"spawned"} \union Running
      PROVE  Streams(r)'
  <2>1. /\ Done(q, ok) \in ChatReply /\ Done(q, ok).req = q /\ Done(q, ok).ok = ok
        /\ Done(q, ok).type = "done"
    BY DEF Done, ChatReply
  <2>2. /\ Send(home[q], Done(q, ok)) /\ UNCHANGED <<home, link, toServer, sent>>
        /\ task' = [task EXCEPT ![q] = IF ok THEN "answered" ELSE "broken"]
    BY <1>3 DEF FinishTask
  <2>3. CASE r = q
    <3>1. task'[r] = IF Done(q, ok).ok THEN "answered" ELSE "broken"
      BY <1>0, <2>1, <2>2, <2>3
    <3> QED
      BY <1>3, <2>1, <2>2, <2>3, <3>1, SendKeeps
  <2>4. CASE r # q
    BY <1>0, <1>2, <1>3, <2>1, <2>2, <2>4 DEF Running
  <2> QED
    BY <2>3, <2>4
<1>4. CASE ForwardLine(q)
  <2> DEFINE m == Chunk(q, sent[q] + 1)
  <2>1. /\ task[q] = "streaming" /\ sent[q] < Lines /\ Send(home[q], m)
        /\ sent' = [sent EXCEPT ![q] = @ + 1] /\ UNCHANGED <<home, link, toServer, task>>
    BY <1>4 DEF ForwardLine
  <2>2. m \in ChatReply /\ m.req = q /\ m.type = "chunk" /\ m.line = sent[q] + 1
    <3>1. Lines \in Nat /\ sent[q] \in 0..Lines
      BY <1>0, WireAssumption
    <3>2. sent[q] + 1 \in 1..Lines
      BY <2>1, <3>1
    <3> QED
      BY <3>2 DEF Chunk, ChatReply
  <2> HIDE DEF m
  <2>3. CASE r = q
    <3>1. sent'[r] = sent[r] + 1
      BY <1>0, <2>1, <2>3
    <3> QED
      BY <2>1, <2>2, <2>3, <3>1, SendKeeps DEF Running
  <2>4. CASE r # q
    BY <1>0, <1>2, <2>1, <2>2, <2>4
  <2> QED
    BY <2>3, <2>4
<1> QED
  BY <1>1, <1>3, <1>4 DEF TaskStep, StartTask, CallFails, StreamEnds, Running

LEMMA StreamStep == StreamInv /\ ConnsAlive' /\ [Next]_vars => StreamInv'
<1> SUFFICES ASSUME StreamInv, ConnsAlive', [Next]_vars PROVE StreamInv'
  OBVIOUS
<1>1. Ground'
  BY RouteStep, ChannelStep, HomesStep DEF StreamInv, Ground
<1>2. RouteInv'
  BY <1>1 DEF Ground
<1> SUFFICES ASSUME NEW r \in Reqs PROVE Streams(r)'
  BY <1>1 DEF StreamInv
<1>3. ASSUME UNCHANGED <<got, sent, task, home, toServer, sOut, dropped, ch, pending, h>>,
             \A c \in Conns : link'[c] \in {link[c], "down"}
      PROVE  Streams(r)'
  <2>1. Fade(r)
    BY <1>3 DEF Fade
  <2> QED
    BY <1>2, <1>3, <2>1, Fades
<1>4. link \in [Conns -> {"none", "up", "down"}] /\ h \in [Reqs -> HandlerState]
  BY DEF StreamInv, Ground, RouteInv, Typed, TypeOK, WireTypeOK, ServerTypeOK
<1>5. CASE UNCHANGED sessionVars /\ \E c \in Conns : ServeStep(c) \/ WriteOut(c)
  BY <1>2, <1>5, StreamServe
<1>6. CASE UNCHANGED sessionVars /\ \E q \in Reqs : HandlerStep(q)
  BY <1>2, <1>6, StreamHandler
<1>7. CASE /\ UNCHANGED sessionVars
           /\ (\E w \in Workers : Expire(w) \/ ReapOne(w)) \/ ReapScan
  BY <1>3, <1>7 DEF Expire, ReapOne, ReapScan, handlerVars, wireVars, sessionVars
<1>8. CASE UNCHANGED sessionVars /\ OrchestratorStops
  <2>1. /\ UNCHANGED <<got, sent, task, home, sOut, dropped>> /\ pending' = {}
        /\ ch'[r] = <<>> /\ (h'[r] = "done" => h[r] = "done")
        /\ \A c \in Conns : toServer'[c] = <<>> /\ link'[c] # "up"
    BY <1>4, <1>8 DEF OrchestratorStops, sessionVars
  <2>2. Fade(r)
    BY <2>1 DEF Fade
  <2> QED
    BY <1>2, <2>1, <2>2, Fades
<1>9. CASE Breaks \/ UNCHANGED vars
  BY <1>3, <1>4, <1>9 DEF Breaks, LinkFails, vars, wireVars, serverVars, sessionVars
<1>10. CASE UNCHANGED serverVars /\ \E c \in Conns : Dial(c)
  BY <1>2, <1>10, StreamDial
<1>11. CASE UNCHANGED serverVars /\ \E c \in Conns : SessionStep(c)
  BY <1>2, <1>11, StreamLoops
<1>12. CASE UNCHANGED serverVars /\ \E q \in Reqs : TaskStep(q)
  BY <1>2, <1>12, StreamTask
<1> QED
  BY <1>5, <1>6, <1>7, <1>8, <1>9, <1>10, <1>11, <1>12 DEF Next, ServerNext, SessionNext

LEMMA StreamInit == Init => StreamInv
<1> SUFFICES ASSUME Init PROVE StreamInv
  OBVIOUS
<1>1. RouteInv /\ ChannelInv
  BY RouteInit, ChannelInit
<1>2. ConnsAlive /\ Homes
  BY DEF Init, WireInit, ServerInit, SessionInit, ConnsAlive, Homes
<1>3. ASSUME NEW r \in Reqs PROVE Streams(r)
  <2>1. /\ got[r] = <<>> /\ ch[r] = <<>> /\ sent[r] = 0 /\ task[r] = "none" /\ h[r] = "idle"
        /\ r \notin pending
        /\ \A c \in Conns : toServer[c] = <<>> /\ sOut[c] = <<>>
    BY <1>3 DEF Init, WireInit, ServerInit, SessionInit
  <2>2. Shown(r) = {} /\ Msgs(ch[r], r) = {} /\ \A c \in Conns : Way(c, r) = {}
    BY <2>1, MsgsEmpty DEF Shown, Way
  <2>3. Arrived(r) = {}
    BY <2>2, LinesNone DEF Arrived
  <2>4. Flow(r)
    BY <2>1, <2>2 DEF Flow
  <2>5. Order(r)
    <3>1. \A c \in Conns : /\ Ascends(toServer[c], r) /\ Ascends(sOut[c], r)
                           /\ Precede(Msgs(toServer[c], r), Msgs(sOut[c], r))
      BY <2>1, MsgsEmpty DEF Precede
    <3>2. Ascends(ch[r], r) /\ Below(Shown(r), Msgs(ch[r], r))
      BY <2>1, <2>2, MsgsEmpty DEF Below
    <3> QED
      BY <2>1, <3>1, <3>2 DEF Order
  <2>6. Gapless(r) /\ EndedWhole(r)
    BY <2>1, <2>2, <2>3, LinesNone DEF Gapless, EndedWhole, Closed
  <2> QED
    BY <2>4, <2>5, <2>6 DEF Streams
<1> QED
  BY <1>1, <1>2, <1>3 DEF StreamInv, Ground

LEMMA StreamAlways == Spec => []StreamInv
<1>1. Init => StreamInv
  BY StreamInit
<1>2. StreamInv /\ ConnsAlive' /\ [Next]_vars => StreamInv'
  BY StreamStep
<1> QED
  BY <1>1, <1>2, ConnsStayAlive, PTL DEF Spec
-----------------------------------------------------------------------------
(* What the client gets *)

LEMMA InOrder == StreamInv => StreamInOrder
<1> SUFFICES ASSUME StreamInv, NEW r \in Reqs
    PROVE  /\ \A i, j \in DOMAIN got[r] : i < j => got[r][i] < got[r][j]
           /\ \A i, j \in DOMAIN ch[r] : i < j /\ ch[r][j].type = "chunk" =>
                ch[r][i].type = "chunk" /\ ch[r][i].line < ch[r][j].line
           /\ got[r] # <<>> => got[r][Len(got[r])] <= sent[r]
  BY DEF StreamInOrder
<1>0. /\ Flow(r) /\ Order(r) /\ Channelled(r)
      /\ got[r] \in Seq(1..Lines) /\ ch[r] \in Seq(Reply) /\ sent[r] \in Nat
  BY DEF StreamInv, Streams, Ground, ChannelInv, RouteInv, Typed, TypeOK, ServerTypeOK,
     SessionTypeOK, Buffers
<1>1. ASSUME NEW i \in DOMAIN ch[r], NEW j \in DOMAIN ch[r], i < j, ch[r][j].type = "chunk"
      PROVE  ch[r][i].type = "chunk" /\ ch[r][i].line < ch[r][j].line
  <2>1. Before(ch[r][i], ch[r][j])
    BY <1>0, <1>1 DEF Order, Ascends, Channelled
  <2> QED
    BY <1>1, <2>1 DEF Before
<1>2. ASSUME got[r] # <<>> PROVE got[r][Len(got[r])] <= sent[r]
  <2>1. Len(got[r]) \in DOMAIN got[r]
    BY <1>0, <1>2, EmptySeq
  <2>2. got[r][Len(got[r])] \in 1..sent[r]
    BY <1>0, <2>1 DEF Flow, Shown
  <2> QED
    BY <1>0, <2>2
<1> QED
  BY <1>0, <1>1, <1>2 DEF Order

\* The client of a request is shown the lines of llama-server's answer in their
\* order, each at most once, and none after an end of stream: for any number of
\* workers, connections and requests, and buffers of any capacity.
THEOREM StreamStaysInOrder == Spec => []StreamInOrder
BY StreamAlways, InOrder, PTL

LEMMA EndsWhole == StreamInv => CleanEndIsWhole
<1> SUFFICES ASSUME StreamInv, NEW r \in Reqs, h[r] = "done", <<r, "chunk">> \notin dropped
    PROVE  task[r] = "answered" /\ got[r] = [i \in 1..sent[r] |-> i]
  BY DEF StreamInv, Streams, EndedWhole, CleanEndIsWhole
<1>1. /\ task[r] = "answered" /\ Shown(r) = 1..sent[r]
      /\ \A i \in DOMAIN got[r] : got[r][i] = i
      /\ got[r] \in Seq(1..Lines) /\ sent[r] \in Nat /\ RouteInv
  BY DEF StreamInv, Streams, Ground, EndedWhole, Gapless, RouteInv, Typed, TypeOK,
     ServerTypeOK, SessionTypeOK
<1>2. 1..Len(got[r]) = 1..sent[r] /\ DOMAIN got[r] = 1..Len(got[r])
  BY <1>1, ShownPrefix
<1>3. got[r] = [i \in 1..Len(got[r]) |-> got[r][i]]
  BY <1>1
<1> QED
  BY <1>1, <1>2, <1>3

\* A stream that ends without error is the whole answer of a run that reached its
\* end, unless a full buffer dropped a line of it.
THEOREM CleanEndStaysWhole == Spec => []CleanEndIsWhole
BY StreamAlways, EndsWhole, PTL
-----------------------------------------------------------------------------
(* The end of an answer *)

LEMMA CarriesAppend ==
  ASSUME NEW M, NEW s \in Seq(M), NEW m \in M, NEW type, NEW r
  PROVE  Carries(Append(s, m), type, r) <=> Carries(s, type, r) \/ (m.type = type /\ m.req = r)
<1> DEFINE t == Append(s, m)
           n == Len(s)
<1>1. /\ n \in Nat /\ DOMAIN s = 1..n /\ DOMAIN t = 1..(n + 1)
      /\ \A i \in 1..n : t[i] = s[i]
      /\ t[n + 1] = m
  OBVIOUS
<1> HIDE DEF t, n
<1>2. \A i : i \in 1..(n + 1) <=> i \in 1..n \/ i = n + 1
  BY <1>1
<1>3. Carries(t, type, r) <=> Carries(s, type, r) \/ (m.type = type /\ m.req = r)
  BY <1>1, <1>2 DEF Carries
<1> QED
  BY <1>3 DEF t

LEMMA CarriesTail ==
  ASSUME NEW M, NEW s \in Seq(M), s # <<>>, NEW type, NEW r, Carries(s, type, r)
  PROVE  Carries(Tail(s), type, r) \/ (Head(s).type = type /\ Head(s).req = r)
<1> DEFINE t == Tail(s)
           n == Len(s)
<1>1. n \in Nat \ {0} /\ Head(s) = s[1] /\ DOMAIN s = 1..n
  BY EmptySeq
<1>2. t \in Seq(M) /\ Len(t) = n - 1 /\ \A i \in 1..Len(t) : t[i] = s[i + 1]
  BY HeadTailProperties
<1>3. DOMAIN t = 1..Len(t)
  BY <1>2, LenProperties
<1> HIDE DEF t, n
<1>4. DOMAIN t = 1..(n - 1) /\ \A i \in 1..(n - 1) : t[i] = s[i + 1]
  BY <1>2, <1>3
<1>5. PICK i \in 1..n : s[i].type = type /\ s[i].req = r
  BY <1>1 DEF Carries
<1>6. CASE i = 1
  BY <1>1, <1>5, <1>6
<1>7. CASE i # 1
  <2>1. i - 1 \in 1..(n - 1) /\ (i - 1) + 1 = i
    BY <1>1, <1>7
  <2>2. t[i - 1] = s[i]
    BY <1>4, <2>1
  <2>3. Carries(t, type, r)
    BY <1>4, <1>5, <2>1, <2>2 DEF Carries
  <2> QED
    BY <2>3 DEF t
<1> QED
  BY <1>6, <1>7

\* The handler waits for a run that has come to its end.
Awaits(r) == r \in pending /\ h[r] = "streaming" /\ task[r] \in Finished

Ending(r) == \/ Severed(wc[r])
             \/ Carries(sOut[wc[r]], "done", r) \/ Carries(toServer[wc[r]], "done", r)
             \/ Carries(ch[r], "done", r)
             \/ <<r, "done">> \in dropped

EndingInv == \A r \in Reqs : Awaits(r) => Ending(r)

LEMMA EndingServe ==
  ASSUME StreamInv, NEW r \in Reqs, Awaits(r), Ending(r), NEW c \in Conns,
         ServeStep(c) \/ WriteOut(c), UNCHANGED sessionVars, Awaits(r)',
         \A d \in Conns : Severed(d) => Severed(d)'
  PROVE  Ending(r)'
<1> USE DEF handlerVars, sessionVars, wireVars
<1>0. /\ toServer \in [Conns -> Seq(ToServerMsg)] /\ ch \in [Reqs -> Seq(Reply)]
      /\ wc[r] \in Conns /\ srv[wc[r]] # "hello"
      /\ link \in [Conns -> {"none", "up", "down"}]
  BY NoneAssumption DEF StreamInv, Ground, RouteInv, Typed, TypeOK, WireTypeOK, ServerTypeOK,
     Buffers, HoldConns, Homes, Awaits, Active
<1>1. /\ UNCHANGED <<h, wc, sOut>> /\ dropped \subseteq dropped'
  BY DEF ServeStep, ReadHello, HelloFails, AddConn, SendWelcome, WelcomeFails,
     ReadHeartbeat, RouteChatReply, ReadFails, Unlink, CleanupCollect, CleanupPush,
     RemoveAndClose, WriteOut
<1>2. ASSUME Carries(ch[r], "done", r) => Carries(ch'[r], "done", r),
             Carries(toServer[wc[r]], "done", r) =>
               \/ Carries(toServer'[wc[r]], "done", r)
               \/ Carries(ch'[r], "done", r)
               \/ <<r, "done">> \in dropped' \/ Severed(wc[r])'
      PROVE  Ending(r)'
  <2>1. Severed(wc[r]) => Severed(wc[r])'
    BY <1>0, <1>1 DEF Severed
  <2> QED
    BY <1>1, <1>2, <2>1 DEF Ending
<1>3. CASE UNCHANGED <<toServer, ch>>
  BY <1>2, <1>3
<1>4. CASE ReadHello(c) \/ HelloFails(c)
  <2>1. ch' = ch /\ toServer'[wc[r]] = toServer[wc[r]]
    BY <1>0, <1>4 DEF ReadHello, HelloFails
  <2> QED
    BY <1>2, <2>1
<1>5. CASE RemoveAndClose(c)
  <2>1. ch' = ch /\ (toServer'[wc[r]] = toServer[wc[r]] \/ link'[wc[r]] = "down")
    BY <1>0, <1>5 DEF RemoveAndClose
  <2> QED
    BY <1>1, <1>2, <2>1 DEF Severed
<1>6. CASE ReadHeartbeat(c)
  <2>1. /\ ch' = ch /\ toServer[c] # <<>> /\ Head(toServer[c]).type = "heartbeat"
        /\ toServer'[c] = Tail(toServer[c])
        /\ \A d \in Conns : d # c => toServer'[d] = toServer[d]
    BY <1>0, <1>6 DEF ReadHeartbeat
  <2>2. Carries(toServer[c], "done", r) => Carries(Tail(toServer[c]), "done", r)
    BY <1>0, <2>1, CarriesTail
  <2> QED
    BY <1>0, <1>2, <2>1, <2>2
<1>7. CASE RouteChatReply(c)
  <2> DEFINE m == Head(toServer[c])
  <2>1. /\ toServer[c] # <<>> /\ m.type \in {"chunk", "done"}
        /\ toServer'[c] = Tail(toServer[c])
        /\ \A d \in Conns : d # c => toServer'[d] = toServer[d]
    BY <1>0, <1>7 DEF RouteChatReply
  <2>2. m \in ToServerMsg
    BY <1>0, <2>1, HeadTailProperties
  <2>3. m \in Reply
    BY <2>1, <2>2 DEF ToServerMsg, SessionMsg, Reply
  <2>4. Carries(toServer[c], "done", r) =>
           Carries(Tail(toServer[c]), "done", r) \/ (m.type = "done" /\ m.req = r)
    BY <1>0, <2>1, CarriesTail
  <2>5. /\ r \in pending
        /\ \/ m.req \notin pending /\ ch' = ch /\ dropped' = dropped
           \/ ch' = [ch EXCEPT ![m.req] = Append(@, m)] /\ dropped' = dropped
           \/ ch' = ch /\ dropped' = dropped \union {<<m.req, m.type>>}
    BY <1>7 DEF RouteChatReply, Awaits
  <2>6. Carries(Append(ch[r], m), "done", r)
           <=> Carries(ch[r], "done", r) \/ (m.type = "done" /\ m.req = r)
    BY <1>0, <2>3, CarriesAppend
  <2> HIDE DEF m
  <2>7. /\ Carries(ch[r], "done", r) => Carries(ch'[r], "done", r)
        /\ m.type = "done" /\ m.req = r =>
              Carries(ch'[r], "done", r) \/ <<r, "done">> \in dropped'
    BY <1>0, <2>5, <2>6
  <2> QED
    BY <1>0, <1>2, <2>1, <2>4, <2>7
<1>8. ASSUME NEW q \in Reqs, CleanupPush(c, q) PROVE Ending(r)'
  <2>1. toServer' = toServer /\ (ch'[r] = ch[r] \/ ch'[r] = Append(ch[r], Lost))
    BY <1>0, <1>8 DEF CleanupPush
  <2>2. Carries(ch[r], "done", r) => Carries(Append(ch[r], Lost), "done", r)
    BY <1>0, CarriesAppend DEF Reply
  <2> QED
    BY <1>2, <2>1, <2>2
<1> QED
  BY <1>3, <1>4, <1>5, <1>6, <1>7, <1>8 DEF ServeStep, AddConn, SendWelcome, WelcomeFails,
     ReadFails, Unlink, CleanupCollect, WriteOut

LEMMA EndingHandler ==
  ASSUME StreamInv, NEW r \in Reqs, Awaits(r) => Ending(r), NEW q \in Reqs,
         HandlerStep(q), UNCHANGED sessionVars, Awaits(r)'
  PROVE  Ending(r)'
<1> USE DEF connVars, sessionVars, wireVars
<1>0. /\ ch \in [Reqs -> Seq(Reply)] /\ h \in [Reqs -> HandlerState] /\ RunsAtHome(r)
      /\ wc \in [Reqs -> {None} \union Conns]
  BY DEF StreamInv, Ground, RouteInv, Typed, TypeOK, ServerTypeOK, Buffers
<1>1. UNCHANGED <<sOut, toServer, dropped, link, writer, task>>
  BY DEF HandlerStep, ListCandidates, PickWorker, NoWorker, RegisterPending, Dispatch,
     DispatchTimesOut, EncodeFails, ReceiveChunk, ReceiveDone, ClientGone, CancelOnWorker
<1>2. h'[r] = "streaming" /\ h[r] # "pended"
  BY <1>0, <1>1 DEF Awaits, RunsAtHome, Dispatched, Finished
<1>3. ASSUME Awaits(r), wc'[r] = wc[r],
             Carries(ch[r], "done", r) => Carries(ch'[r], "done", r)
      PROVE  Ending(r)'
  BY <1>1, <1>3 DEF Ending, Severed
<1>4. CASE ListCandidates(q) \/ PickWorker(q) \/ NoWorker(q) \/ RegisterPending(q)
  <2>1. Awaits(r) /\ wc'[r] = wc[r] /\ ch' = ch
    BY <1>0, <1>1, <1>2, <1>4 DEF ListCandidates, PickWorker, NoWorker, RegisterPending,
       Awaits
  <2> QED
    BY <1>3, <2>1
<1>5. CASE Dispatch(q) \/ ClientGone(q)
  <2>1. Awaits(r) /\ wc'[r] = wc[r] /\ ch' = ch
    BY <1>0, <1>1, <1>2, <1>5 DEF Dispatch, ClientGone, Awaits
  <2> QED
    BY <1>3, <2>1
<1>6. CASE DispatchTimesOut(q) \/ EncodeFails(q) \/ ReceiveDone(q) \/ CancelOnWorker(q)
  <2>1. PICK outcome \in Ended : ClosePending(q, outcome)
    BY <1>6 DEF DispatchTimesOut, EncodeFails, ReceiveDone, CancelOnWorker, Ended
  <2>2. wc' = wc
    BY <1>6 DEF DispatchTimesOut, EncodeFails, ReceiveDone, CancelOnWorker
  <2>3. q # r
    BY <1>0, <1>2, <2>1 DEF ClosePending, Ended
  <2>4. Awaits(r) /\ ch'[r] = ch[r]
    BY <1>0, <1>1, <2>1, <2>3 DEF ClosePending, Awaits
  <2> QED
    BY <1>3, <2>2, <2>4
<1>7. CASE ReceiveChunk(q)
  <2>1. /\ Awaits(r) /\ wc' = wc /\ ch[q] # <<>> /\ Head(ch[q]).type = "chunk"
        /\ ch' = [ch EXCEPT ![q] = Tail(@)]
    BY <1>1, <1>7 DEF ReceiveChunk, Awaits
  <2>2. CASE q = r
    <3>1. ch'[r] = Tail(ch[r])
      BY <1>0, <2>1, <2>2
    <3>2. Carries(ch[r], "done", r) => Carries(Tail(ch[r]), "done", r)
      BY <1>0, <2>1, <2>2, CarriesTail
    <3> QED
      BY <1>3, <2>1, <3>1, <3>2
  <2>3. CASE q # r
    BY <1>0, <1>3, <2>1, <2>3
  <2> QED
    BY <2>2, <2>3
<1> QED
  BY <1>4, <1>5, <1>6, <1>7 DEF HandlerStep

\* The last thing a goroutine does is to send its end of stream.
LEMMA EndingTask ==
  ASSUME StreamInv, NEW r \in Reqs, Awaits(r) => Ending(r), NEW q \in Reqs,
         TaskStep(q), UNCHANGED serverVars, Awaits(r)'
  PROVE  Ending(r)'
<1> USE DEF serverVars, wireVars
<1>0. /\ sOut \in [Conns -> Seq(SessionMsg)] /\ task \in [Reqs -> TaskState]
      /\ RunsAtHome(r) /\ RunsAtHome(q)
      /\ task[r] # "none" => home[r] \in Conns /\ sess[home[r]] \in {"live", "over"}
      /\ \A d \in Conns : sess[d] = "over" => link[d] = "down"
      /\ sent \in [Reqs -> 0..Lines] /\ Lines \in Nat
  BY WireAssumption DEF StreamInv, Ground, RouteInv, Typed, TypeOK, SessionTypeOK, Buffers,
     HoldConns, Homes
<1>1. UNCHANGED <<h, wc, pending, ch, toServer, link, writer, home>>
  BY DEF TaskStep, StartTask, CallFails, CallAnswered, ForwardLine, StreamEnds, FinishTask
<1>2. ASSUME Awaits(r), UNCHANGED <<sOut, dropped>> PROVE Ending(r)'
  BY <1>1, <1>2 DEF Ending, Severed
<1>3. ASSUME NEW m \in SessionMsg, NEW c \in Conns, Send(c, m),
             Awaits(r) \/ (m.type = "done" /\ m.req = r /\ c = wc[r]
                             /\ (sess[c] = "live" \/ link[c] = "down"))
      PROVE  Ending(r)'
  <2>1. \/ sess[c] # "live" /\ UNCHANGED <<sOut, dropped>>
        \/ sOut' = [sOut EXCEPT ![c] = Append(@, m)] /\ dropped' = dropped
        \/ sOut' = sOut /\ dropped' = dropped \union {<<m.req, m.type>>}
    BY <1>3 DEF Send
  <2>2. \A d \in Conns : sOut'[d] = sOut[d] \/ (d = c /\ sOut'[d] = Append(sOut[d], m))
    BY <1>0, <2>1
  <2>3. \A d \in Conns :
           Carries(Append(sOut[d], m), "done", r)
             <=> Carries(sOut[d], "done", r) \/ (m.type = "done" /\ m.req = r)
    BY <1>0, CarriesAppend
  <2>4. dropped \subseteq dropped'
    BY <2>1
  <2>5. CASE Awaits(r)
    <3>1. wc[r] \in Conns
      BY <2>5 DEF Awaits, Active, StreamInv, Ground, RouteInv, Typed, HoldConns
    <3> QED
      BY <1>1, <2>2, <2>3, <2>4, <2>5, <3>1 DEF Ending, Severed
  <2>6. CASE /\ m.type = "done" /\ m.req = r /\ c = wc[r]
             /\ (sess[c] = "live" \/ link[c] = "down")
    <3>1. CASE sess[c] # "live"
      BY <1>1, <2>6, <3>1 DEF Ending, Severed
    <3>2. CASE sOut' = [sOut EXCEPT ![c] = Append(@, m)]
      <4>1. sOut'[c] = Append(sOut[c], m)
        BY <1>0, <3>2
      <4> QED
        BY <1>1, <2>3, <2>6, <4>1 DEF Ending
    <3>3. CASE dropped' = dropped \union {<<m.req, m.type>>}
      BY <2>6, <3>3 DEF Ending
    <3> QED
      BY <2>1, <3>1, <3>2, <3>3
  <2> QED
    BY <1>3, <2>5, <2>6
<1>4. ASSUME NEW ok \in BOOLEAN, FinishTask(q, ok), task[q] # "none" PROVE Ending(r)'
  <2> DEFINE m == Done(q, ok)
  <2>1. m \in SessionMsg /\ m.type = "done" /\ m.req = q
    BY DEF Done, SessionMsg, ChatReply
  <2>2. home[q] \in Conns /\ Send(home[q], m)
    BY <1>4 DEF FinishTask, StreamInv, Ground, RouteInv, Typed, HoldConns
  <2>3. q # r => Awaits(r)
    BY <1>0, <1>1, <1>4 DEF FinishTask, Awaits
  <2>4. q = r => home[q] = wc[r] /\ (sess[home[q]] = "live" \/ link[home[q]] = "down")
    BY <1>0, <1>4 DEF RunsAtHome
  <2> HIDE DEF m
  <2> QED
    BY <1>3, <2>1, <2>2, <2>3, <2>4
<1>5. CASE StartTask(q)
  <2>1. CASE FinishTask(q, FALSE)
    BY <1>4, <1>5, <2>1 DEF StartTask
  <2>2. CASE task' = [task EXCEPT ![q] = "calling"] /\ UNCHANGED <<sOut, dropped>>
    BY <1>0, <1>1, <1>2, <2>2 DEF Awaits, Finished
  <2> QED
    BY <1>5, <2>1, <2>2 DEF StartTask
<1>6. CASE CallFails(q)
  BY <1>4, <1>6 DEF CallFails
<1>7. CASE CallAnswered(q)
  <2>1. Awaits(r)
    BY <1>0, <1>1, <1>7 DEF CallAnswered, Awaits, Finished
  <2> QED
    BY <1>2, <1>7, <2>1 DEF CallAnswered
<1>8. CASE ForwardLine(q)
  <2> DEFINE m == Chunk(q, sent[q] + 1)
  <2>1. m \in SessionMsg
    BY <1>0, <1>8 DEF ForwardLine, Chunk, SessionMsg, ChatReply
  <2>2. home[q] \in Conns /\ Send(home[q], m)
    BY <1>8 DEF ForwardLine, StreamInv, Ground, RouteInv, Typed, HoldConns
  <2>3. Awaits(r)
    BY <1>1, <1>8 DEF ForwardLine, Awaits
  <2> HIDE DEF m
  <2> QED
    BY <1>3, <2>1, <2>2, <2>3
<1>9. CASE StreamEnds(q)
  <2>1. PICK ok \in BOOLEAN : FinishTask(q, ok)
    BY <1>9 DEF StreamEnds
  <2> QED
    BY <1>4, <1>9, <2>1 DEF StreamEnds
<1> QED
  BY <1>5, <1>6, <1>7, <1>8, <1>9 DEF TaskStep

\* The loops of a session pass it on, or lose it with their connection.
LEMMA EndingLoops ==
  ASSUME StreamInv, GreetInv, NEW r \in Reqs, Awaits(r) => Ending(r), NEW c \in Conns,
         Dial(c) \/ SessionStep(c), UNCHANGED serverVars, Awaits(r)',
         \A d \in Conns : Severed(d) => Severed(d)'
  PROVE  Ending(r)'
<1> USE DEF serverVars, wireVars, taskVars
<1>0. /\ sOut \in [Conns -> Seq(SessionMsg)] /\ toServer \in [Conns -> Seq(ToServerMsg)]
      /\ toWorker \in [Conns -> Seq(ToWorkerMsg)]
      /\ link \in [Conns -> {"none", "up", "down"}] /\ task \in [Reqs -> TaskState]
  BY DEF StreamInv, Ground, RouteInv, Typed, TypeOK, WireTypeOK, SessionTypeOK, Buffers
<1>1. UNCHANGED <<h, wc, pending, ch, writer>> /\ dropped' = dropped
  BY DEF Dial, SessionStep, RecvWelcome, GreetingFails, SessionEnds, EndSession,
     HeartbeatTick, SessionWrite, RecvRequest, RecvCancel
<1>2. Awaits(r)
  <2>1. \A q \in Reqs : task'[q] \in Finished => task[q] \in Finished
    <3>1. CASE RecvRequest(c)
      BY <1>0, <3>1 DEF RecvRequest, Finished
    <3> QED
      BY <3>1 DEF Dial, SessionStep, RecvWelcome, GreetingFails, SessionEnds, EndSession,
         HeartbeatTick, SessionWrite, RecvCancel
  <2> QED
    BY <1>1, <2>1 DEF Awaits
<1>3. wc[r] \in Conns /\ sess[wc[r]] \in {"live", "over"} /\ wc'[r] = wc[r]
  BY <1>1, <1>2 DEF Awaits, Active, Finished, StreamInv, Ground, RouteInv, RunsAtHome, Typed,
     HoldConns, Homes
<1>4. Severed(wc[r]) => Severed(wc[r])'
  BY <1>1, <1>3 DEF Severed
<1>5. ASSUME \/ Severed(wc[r])'
             \/ /\ Carries(sOut[wc[r]], "done", r) =>
                      \/ Carries(sOut'[wc[r]], "done", r)
                      \/ Carries(toServer'[wc[r]], "done", r)
                /\ Carries(toServer[wc[r]], "done", r) => Carries(toServer'[wc[r]], "done", r)
      PROVE  Ending(r)'
  BY <1>1, <1>2, <1>4, <1>5 DEF Ending
<1>6. CASE Dial(c)
  <2>1. sOut' = sOut /\ toServer'[wc[r]] = toServer[wc[r]]
    BY <1>0, <1>3, <1>6 DEF Dial
  <2> QED
    BY <1>5, <2>1
<1>7. CASE RecvWelcome(c) \/ RecvRequest(c) \/ RecvCancel(c)
  BY <1>5, <1>7 DEF RecvWelcome, RecvRequest, RecvCancel
<1>8. CASE GreetingFails(c) \/ SessionEnds(c)
  <2>1. toServer' = toServer /\ (sOut'[wc[r]] = sOut[wc[r]] \/ link'[wc[r]] = "down")
    BY <1>0, <1>3, <1>8 DEF GreetingFails, SessionEnds, EndSession
  <2> QED
    BY <1>1, <1>3, <1>5, <2>1 DEF Severed
<1>9. CASE HeartbeatTick(c)
  <2>1. PICK idle \in BOOLEAN :
           sOut' = [sOut EXCEPT ![c] = Append(@, [type |-> "heartbeat", idle |-> idle])]
    BY <1>9 DEF HeartbeatTick
  <2> DEFINE m == [type |-> "heartbeat", idle |-> idle]
  <2>2. m \in SessionMsg /\ toServer' = toServer
    BY <1>9 DEF HeartbeatTick, SessionMsg
  <2>3. Carries(sOut[wc[r]], "done", r) => Carries(Append(sOut[wc[r]], m), "done", r)
    BY <1>0, <1>3, <2>2, CarriesAppend
  <2>4. sOut'[wc[r]] = sOut[wc[r]] \/ sOut'[wc[r]] = Append(sOut[wc[r]], m)
    BY <1>0, <1>3, <2>1
  <2> QED
    BY <1>5, <2>2, <2>3, <2>4
<1>10. CASE SessionWrite(c)
  <2> DEFINE m == Head(sOut[c])
  <2>1. /\ sOut[c] # <<>> /\ sOut'[c] = Tail(sOut[c]) /\ link' = link /\ sess[c] = "live"
        /\ toServer' = Written(toServer, c, m)
        /\ \A d \in Conns : d # c => sOut'[d] = sOut[d]
    BY <1>0, <1>10 DEF SessionWrite
  <2>2. link[c] # "none"
    BY <2>1 DEF GreetInv, Greeting
  <2>3. m \in SessionMsg
    BY <1>0, <2>1, HeadTailProperties
  <2>4. m \in ToServerMsg
    BY <2>3 DEF ToServerMsg
  <2>5. Carries(sOut[c], "done", r) =>
           Carries(Tail(sOut[c]), "done", r) \/ (m.type = "done" /\ m.req = r)
    BY <1>0, <2>1, CarriesTail
  <2>6. Carries(Append(toServer[c], m), "done", r)
           <=> Carries(toServer[c], "done", r) \/ (m.type = "done" /\ m.req = r)
    BY <1>0, <2>4, CarriesAppend
  <2> HIDE DEF m
  <2>7. CASE c # wc[r]
    <3>1. sOut'[wc[r]] = sOut[wc[r]] /\ toServer'[wc[r]] = toServer[wc[r]]
      BY <1>0, <1>3, <2>1, <2>7 DEF Written
    <3> QED
      BY <1>5, <3>1
  <2>8. CASE c = wc[r] /\ link[c] = "up"
    <3>1. toServer'[c] = Append(toServer[c], m)
      BY <1>0, <2>1, <2>8 DEF Written
    <3> QED
      BY <1>5, <2>1, <2>5, <2>6, <2>8, <3>1
  <2>9. CASE c = wc[r] /\ link[c] = "down"
    BY <1>3, <1>5, <2>1, <2>9 DEF Severed
  <2> QED
    BY <1>0, <2>2, <2>7, <2>8, <2>9
<1> QED
  BY <1>6, <1>7, <1>8, <1>9, <1>10 DEF SessionStep

LEMMA EndingStep == StreamInv /\ GreetInv /\ EndingInv /\ [Next]_vars => EndingInv'
<1> SUFFICES ASSUME StreamInv, GreetInv, EndingInv, [Next]_vars, NEW r \in Reqs, Awaits(r)'
             PROVE  Ending(r)'
  BY DEF EndingInv
<1>0. Awaits(r) => Ending(r)
  BY DEF EndingInv
<1>1. CASE UNCHANGED vars
  BY <1>0, <1>1 DEF vars, wireVars, serverVars, sessionVars, Awaits, Ending, Severed
<1>2. CASE Next
  <2>1. \A d \in Conns : Severed(d) => Severed(d)'
    BY <1>2, SeveredStays
  <2>2. CASE SessionNext /\ UNCHANGED serverVars
    BY <1>0, <2>1, <2>2, EndingTask, EndingLoops DEF SessionNext
  <2>3. ASSUME NEW c \in Conns, ServeStep(c) \/ WriteOut(c), UNCHANGED sessionVars
        PROVE  Ending(r)'
    <3>1. h' = h /\ task' = task /\ pending' \subseteq pending
      BY <2>3 DEF ServeStep, ReadHello, HelloFails, AddConn, SendWelcome, WelcomeFails,
         ReadHeartbeat, RouteChatReply, ReadFails, Unlink, CleanupCollect, CleanupPush,
         RemoveAndClose, WriteOut, handlerVars, sessionVars
    <3>2. Awaits(r)
      BY <3>1 DEF Awaits
    <3> QED
      BY <1>0, <2>1, <2>3, <3>2, EndingServe
  <2>4. CASE (\E q \in Reqs : HandlerStep(q)) /\ UNCHANGED sessionVars
    BY <1>0, <2>4, EndingHandler
  <2>5. CASE ((\E w \in Workers : Expire(w) \/ ReapOne(w)) \/ ReapScan)
             /\ UNCHANGED sessionVars
    BY <1>0, <2>5 DEF Expire, ReapOne, ReapScan, handlerVars, wireVars, sessionVars, Awaits,
       Ending, Severed
  <2>6. CASE OrchestratorStops
    BY <2>6 DEF OrchestratorStops, Awaits
  <2>7. CASE Breaks
    <3>1. PICK d \in Conns : LinkFails(d)
      BY <2>7 DEF Breaks
    <3>2. /\ UNCHANGED <<serverVars, sessionVars, toServer, dropped>>
          /\ link' = [link EXCEPT ![d] = "down"]
      BY <2>7, <3>1 DEF Breaks, LinkFails
    <3>3. Awaits(r) /\ wc[r] \in Conns
      BY <1>0, <3>2 DEF serverVars, sessionVars, Awaits, Active, StreamInv, Ground, RouteInv,
         Typed, HoldConns
    <3> QED
      BY <1>0, <2>1, <3>2, <3>3 DEF serverVars, sessionVars, Ending, Severed
  <2> QED
    BY <1>2, <2>2, <2>3, <2>4, <2>5, <2>6, <2>7 DEF Next, ServerNext
<1> QED
  BY <1>1, <1>2

\* A handler that is still pending does not wait for nothing: its order or its end
\* of stream is under way, its request runs, its connection is broken, so that a
\* cleanup is due, or a full buffer has dropped the end.
THEOREM AnswersKeepComing == Spec => []AnswerIsComing
<1>1. Init => EndingInv
  BY DEF Init, ServerInit, EndingInv, Awaits
<1>2. RouteInv /\ CancelInv /\ EndingInv => AnswerIsComing
  <2> SUFFICES ASSUME RouteInv, CancelInv, EndingInv, NEW r \in pending, h[r] = "streaming"
               PROVE  LET c == wc[r]
                      IN  \/ link[c] = "down" \/ writer[c] = "failed"
                          \/ Carries(wcOut[c], "request", r)
                          \/ Carries(toWorker[c], "request", r)
                          \/ task[r] \in {"spawned"} \union Running
                          \/ Carries(sOut[c], "done", r) \/ Carries(toServer[c], "done", r)
                          \/ Carries(ch[r], "done", r)
                          \/ <<r, "done">> \in dropped
    BY DEF AnswerIsComing
  <2>1. r \in Reqs /\ wc[r] \in Conns /\ task[r] \in TaskState
    BY DEF RouteInv, Typed, TypeOK, ServerTypeOK, SessionTypeOK, HoldConns, Active
  <2>2. \/ task[r] # "none" \/ Severed(wc[r])
        \/ Asked(wcOut[wc[r]], r) \/ Asked(toWorker[wc[r]], r)
    BY <2>1 DEF CancelInv, CancelOrder, Dispatched
  <2>3. \A s : Asked(s, r) => Carries(s, "request", r)
    BY DEF Asked, Asks, Carries
  <2>4. task[r] \in Finished => Ending(r)
    BY <2>1 DEF EndingInv, Awaits
  <2> QED
    BY <2>1, <2>2, <2>3, <2>4 DEF Severed, Ending, TaskState
<1> QED
  BY <1>1, <1>2, EndingStep, StreamAlways, CancelAlways, PTL DEF Spec
=============================================================================
