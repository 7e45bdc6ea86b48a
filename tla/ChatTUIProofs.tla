--------------------------- MODULE ChatTUIProofs ---------------------------
(***************************************************************************)
(* Proofs about ChatTUI, for any number of questions, any length of the    *)
(* answers and any capacity of the channels.                               *)
(***************************************************************************)
EXTENDS ChatTUI, TLAPS, SequenceTheorems

LogEntry == [role : {"user", "assistant"}, s : 0..MaxStreams, n : Nat]

\* Streams are used one after the other; those before the current one are over.
StreamOrder ==
  /\ \A s \in Streams : s > cur => /\ producer[s] = "none"
                                   /\ nsent[s] = 0
                                   /\ chan[s] = <<>>
  /\ \A s \in Streams : s < cur \/ (s = cur /\ ~streaming) => producer[s] = "over"
  /\ streaming => cur > 0 /\ producer[cur] # "none"
  /\ ~streaming => buf = <<>>

\* The k-th message that runStream sends on the channel of s.
Sent(s, k) == IF k <= nsent[s] THEN [s |-> s, n |-> k] ELSE End(s)

Over(s) == IF producer[s] = "over" THEN 1 ELSE 0

\* Everything sent is, in order, on the screen, on its way to the loop or in the
\* channel.
Pipeline ==
  streaming =>
    /\ \A i \in 1..Len(buf) : buf[i] = [s |-> cur, n |-> i]
    /\ \A i \in 1..Len(inbox) : inbox[i] = Sent(cur, Len(buf) + i)
    /\ \A i \in 1..Len(chan[cur]) : chan[cur][i] = Sent(cur, Len(buf) + Len(inbox) + i)
    /\ Len(buf) + Len(inbox) + Len(chan[cur]) = nsent[cur] + Over(cur)
    /\ Len(buf) <= nsent[cur]

\* The transcript ends with the current question.
Transcript ==
  /\ log \in Seq(LogEntry)
  /\ streaming => log # <<>> /\ log[Len(log)] = Question(cur)
  /\ \A i \in 1..Len(log) : log[i].role = "assistant" =>
       /\ i > 1
       /\ log[i - 1] = Question(log[i].s)
       /\ log[i].s \in 1..cur
       /\ producer[log[i].s] = "over"
       /\ log[i].n = nsent[log[i].s]

TuiInv == TuiTypeOK /\ OneListener /\ StreamOrder /\ Pipeline /\ Transcript
-----------------------------------------------------------------------------
\* Sums of lengths.
LEMMA SumIsOne ==
  ASSUME NEW a \in Nat, NEW b \in Nat \ {0}, a + b = 1
  PROVE  a = 0 /\ b = 1
OBVIOUS

LEMMA SumShifts ==
  ASSUME NEW a \in Nat, NEW b \in Nat
  PROVE  a + 1 + b = (a + 1) + 0 + b
OBVIOUS

LEMMA MsgOfStream ==
  ASSUME TuiTypeOK, NEW s \in Streams
  PROVE  /\ End(s) \in Msg
         /\ \A n \in 1..MaxChunks : [s |-> s, n |-> n] \in Msg
         /\ \A k \in 1..nsent[s] : Sent(s, k) = [s |-> s, n |-> k]
         /\ \A k \in Nat : k > nsent[s] => Sent(s, k) = End(s)
         /\ End(s).n = 0
BY TuiAssumption DEF Msg, End, Sent, TuiTypeOK, Streams

LEMMA TuiInvInit == TuiInit => TuiInv
<1> SUFFICES ASSUME TuiInit PROVE TuiInv
  OBVIOUS
<1> USE TuiAssumption DEF TuiInit
<1>0. /\ <<>> \in Seq(Msg) /\ <<>> \in Seq(LogEntry)
      /\ Len(<<>>) = 0
  BY EmptySeq
<1>1. TuiTypeOK
  <2>1. known \in BOOLEAN /\ asked \in BOOLEAN /\ streaming \in BOOLEAN
    OBVIOUS
  <2>2. /\ cur \in 0..MaxStreams /\ cancelled \subseteq Streams
        /\ waits \in [Streams -> Nat] /\ nsent \in [Streams -> 0..MaxChunks]
    OBVIOUS
  <2>3. /\ buf \in Seq(Msg) /\ inbox \in Seq(Msg)
        /\ chan \in [Streams -> Seq(Msg)]
        /\ producer \in [Streams -> {"none", "calling", "reading", "over"}]
    BY <1>0
  <2> QED
    BY <2>1, <2>2, <2>3 DEF TuiTypeOK
<1>2. OneListener
  BY <1>0 DEF OneListener
<1>3. StreamOrder
  BY DEF StreamOrder, Streams
<1>4. Pipeline /\ Transcript
  BY <1>0 DEF Pipeline, Transcript
<1> QED
  BY <1>1, <1>2, <1>3, <1>4 DEF TuiInv

\* The steps that leave streams, screen and transcript alone.
LEMMA QuietKeeps ==
  ASSUME TuiInv, WorkersFetched \/ Esc \/ UNCHANGED tuiVars
  PROVE  TuiInv'
<1> USE DEF TuiInv, streamVars
<1>0. TuiTypeOK /\ (streaming => cur \in Streams)
  BY DEF TuiTypeOK, StreamOrder, Streams
<1>1. /\ UNCHANGED <<streaming, cur, buf, log, chan, waits, inbox, producer, nsent>>
      /\ known' \in BOOLEAN /\ asked' \in BOOLEAN
      /\ cancelled' \subseteq Streams
  <2>1. CASE WorkersFetched
    BY <1>0, <2>1 DEF WorkersFetched, TuiTypeOK
  <2>2. CASE Esc
    BY <1>0, <2>2 DEF Esc, TuiTypeOK
  <2>3. CASE UNCHANGED tuiVars
    BY <1>0, <2>3 DEF tuiVars, TuiTypeOK
  <2> QED
    BY <2>1, <2>2, <2>3
<1>2. TuiTypeOK' /\ OneListener'
  BY <1>1 DEF TuiTypeOK, OneListener
<1>3. StreamOrder' /\ Transcript'
  BY <1>1 DEF StreamOrder, Transcript
<1>4. Pipeline'
  BY <1>1 DEF Pipeline, Sent, Over
<1> QED
  BY <1>2, <1>3, <1>4

\* Enter.
LEMMA AskKeeps ==
  ASSUME TuiInv, AskNobody \/ Ask
  PROVE  TuiInv'
<1> USE TuiAssumption DEF TuiInv
<1>0. /\ log \in Seq(LogEntry) /\ ~streaming
      /\ cur \in 0..MaxStreams
      /\ \A s \in 0..MaxStreams : Question(s) \in LogEntry
  BY DEF Transcript, TuiTypeOK, AskNobody, Ask, LogEntry, Question
<1>1. CASE AskNobody
  <2> USE DEF AskNobody, streamVars
  <2>1. TuiTypeOK' /\ OneListener' /\ StreamOrder' /\ Pipeline'
    BY <1>0, <1>1 DEF TuiTypeOK, OneListener, StreamOrder, Pipeline
  <2>2. Transcript'
    <3>1. /\ log' \in Seq(LogEntry)
          /\ Len(log') = Len(log) + 1
          /\ \A i \in 1..Len(log) : log'[i] = log[i]
          /\ log'[Len(log) + 1].role = "user"
      BY <1>0, <1>1, AppendProperties DEF Question
    <3> QED
      BY <1>0, <1>1, <3>1, LenProperties DEF Transcript
  <2> QED
    BY <2>1, <2>2
<1>2. CASE Ask
  <2> USE DEF Ask
  <2>1. /\ cur' = cur + 1 /\ cur' \in Streams
        /\ producer[cur'] = "none" /\ nsent[cur'] = 0 /\ chan[cur'] = <<>>
    BY <1>0, <1>2 DEF StreamOrder, Streams
  <2>2. /\ log' \in Seq(LogEntry)
        /\ Len(log') = Len(log) + 1
        /\ \A i \in 1..Len(log) : log'[i] = log[i]
        /\ log'[Len(log) + 1] = Question(cur')
        /\ log' # <<>>
    BY <1>0, <1>2, <2>1, AppendProperties DEF Streams
  <2>3. TuiTypeOK'
    BY <1>0, <1>2, <2>1, EmptySeq DEF TuiTypeOK
  <2>4. OneListener'
    BY <1>0, <1>2, <2>1 DEF OneListener, TuiTypeOK, Streams
  <2>5. StreamOrder'
    <3>1. /\ producer \in [Streams -> {"none", "calling", "reading", "over"}]
          /\ \A s \in Streams : s # cur' => producer'[s] = producer[s]
          /\ producer'[cur'] = "calling"
          /\ nsent' = nsent /\ chan' = chan /\ streaming'
      BY <1>2, <2>1 DEF TuiTypeOK
    <3>2. ASSUME NEW s \in Streams, s > cur'
          PROVE  producer'[s] = "none" /\ nsent'[s] = 0 /\ chan'[s] = <<>>
      BY <1>0, <2>1, <3>1, <3>2 DEF StreamOrder, Streams
    <3>3. ASSUME NEW s \in Streams, s < cur'
          PROVE  producer'[s] = "over"
      BY <1>0, <2>1, <3>1, <3>3 DEF StreamOrder, Streams
    <3> QED
      BY <2>1, <3>1, <3>2, <3>3 DEF StreamOrder, Streams
  <2>6. Pipeline'
    <3>1. buf' = <<>> /\ Len(inbox') = 0 /\ chan'[cur'] = <<>> /\ nsent'[cur'] = 0
      BY <1>0, <1>2, <2>1 DEF OneListener, TuiTypeOK
    <3>2. Over(cur)' = 0
      BY <1>2, <2>1 DEF Over, TuiTypeOK
    <3> QED
      BY <3>1, <3>2, EmptySeq DEF Pipeline
  <2>7. Transcript'
    <3>1. log'[Len(log) + 1].role = "user"
      BY <2>2 DEF Question
    <3>2. Len(log) \in Nat
      BY <1>0, LenProperties
    <3>3. \A s \in 1..cur : producer'[s] = producer[s] /\ nsent'[s] = nsent[s]
      BY <1>0, <1>2, <2>1 DEF TuiTypeOK, Streams
    <3>4. streaming' => log' # <<>> /\ log'[Len(log')] = Question(cur)'
      BY <2>2 DEF Question
    <3>5. ASSUME NEW i \in 1..Len(log'), log'[i].role = "assistant"
          PROVE  /\ i > 1
                 /\ log'[i - 1] = Question(log'[i].s)
                 /\ log'[i].s \in 1..cur'
                 /\ producer'[log'[i].s] = "over"
                 /\ log'[i].n = nsent'[log'[i].s]
      <4>1. i \in 1..Len(log) /\ log'[i] = log[i]
        BY <2>2, <3>1, <3>2, <3>5
      <4>2. i > 1 /\ log'[i - 1] = log[i - 1]
        BY <2>2, <3>2, <3>5, <4>1 DEF Transcript
      <4> QED
        BY <1>0, <2>1, <3>3, <3>5, <4>1, <4>2 DEF Transcript
    <3> QED
      BY <2>2, <3>4, <3>5 DEF Transcript, Question
  <2> QED
    BY <2>3, <2>4, <2>5, <2>6, <2>7
<1> QED
  BY <1>1, <1>2

\* What OneListener and Pipeline say of the message the loop takes.
LEMMA TakenMsg ==
  ASSUME TuiInv, inbox # <<>>
  PROVE  /\ streaming /\ cur \in Streams
         /\ Len(inbox) = 1 /\ Tail(inbox) = <<>>
         /\ waits[cur] = 0
         /\ Head(inbox) = Sent(cur, Len(buf) + 1)
         /\ Head(inbox) \in Msg
<1> USE DEF TuiInv
<1>1. Len(inbox) \in Nat \ {0} /\ inbox \in Seq(Msg)
  BY EmptySeq DEF TuiTypeOK
<1>2. streaming /\ cur \in Streams
  BY <1>1 DEF OneListener, StreamOrder, TuiTypeOK, Streams
<1>3. Len(inbox) = 1 /\ waits[cur] = 0
  <2>1. waits[cur] + Len(inbox) = 1
    BY <1>2 DEF OneListener
  <2>2. waits[cur] \in Nat
    BY <1>2 DEF TuiTypeOK
  <2> QED
    BY <1>1, <2>1, <2>2, SumIsOne
<1>4. Tail(inbox) \in Seq(Msg) /\ Len(Tail(inbox)) = 0 /\ Head(inbox) \in Msg
  BY <1>1, <1>3, HeadTailProperties
<1>5. Tail(inbox) = <<>>
  BY <1>4, EmptySeq
<1>6. Head(inbox) = inbox[1]
  BY <1>1
<1>7. Head(inbox) = Sent(cur, Len(buf) + 1)
  BY <1>2, <1>3, <1>6 DEF Pipeline
<1> QED
  BY <1>2, <1>3, <1>4, <1>5, <1>7

\* A chunk is taken in its turn.
LEMMA ChunkIsNext ==
  ASSUME TuiInv, inbox # <<>>, Head(inbox).n > 0
  PROVE  /\ Len(buf) + 1 <= nsent[cur]
         /\ Head(inbox) = [s |-> cur, n |-> Len(buf) + 1]
<1> USE DEF TuiInv
<1>0. TuiTypeOK /\ Len(buf) \in Nat
  BY LenProperties DEF TuiTypeOK
<1>1. /\ streaming /\ cur \in Streams
      /\ Head(inbox) = Sent(cur, Len(buf) + 1)
  BY TakenMsg
<1>2. Len(buf) + 1 <= nsent[cur] /\ Head(inbox) = [s |-> cur, n |-> Len(buf) + 1]
  <2>1. Head(inbox).n > 0
    OBVIOUS
  <2>2. CASE Len(buf) + 1 > nsent[cur]
    BY <1>0, <1>1, <2>1, <2>2, MsgOfStream
  <2>3. CASE Len(buf) + 1 <= nsent[cur]
    BY <1>0, <1>1, <2>3 DEF Sent
  <2> QED
    BY <1>0, <1>1, <2>2, <2>3 DEF TuiTypeOK
<1> QED
  BY <1>2

\* The end of a stream is taken when everything it sent is on the screen.
LEMMA EndIsAll ==
  ASSUME TuiInv, inbox # <<>>, Head(inbox).n = 0
  PROVE  Len(buf) = nsent[cur] /\ producer[cur] = "over"
<1> USE DEF TuiInv
<1>0. TuiTypeOK /\ Len(buf) \in Nat
  BY LenProperties DEF TuiTypeOK
<1>1. /\ streaming /\ cur \in Streams
      /\ Len(inbox) = 1
      /\ Head(inbox) = Sent(cur, Len(buf) + 1)
  BY TakenMsg
<1>2. Len(buf) = nsent[cur] /\ producer[cur] = "over"
  <2>1. Len(buf) + 1 > nsent[cur]
    <3>1. CASE Len(buf) + 1 <= nsent[cur]
      BY <1>0, <1>1, <3>1 DEF Sent
    <3> QED
      BY <1>0, <1>1, <3>1 DEF TuiTypeOK
  <2>2. Len(chan[cur]) \in Nat
    BY <1>0, <1>1, LenProperties DEF TuiTypeOK
  <2>3. /\ Len(buf) + 1 + Len(chan[cur]) = nsent[cur] + Over(cur)
        /\ Len(buf) <= nsent[cur]
        /\ nsent[cur] \in Nat
    BY <1>0, <1>1 DEF Pipeline, TuiTypeOK
  <2>4. Over(cur) \in {0, 1}
    BY DEF Over
  <2>5. Len(buf) = nsent[cur] /\ Over(cur) = 1
    <3> DEFINE a == Len(buf)
               b == Len(chan[cur])
               n == nsent[cur]
               o == Over(cur)
    <3>1. /\ a \in Nat /\ b \in Nat /\ n \in Nat /\ o \in {0, 1}
          /\ a + 1 + b = n + o /\ a <= n /\ a + 1 > n
      BY <1>0, <2>1, <2>2, <2>3, <2>4
    <3> HIDE DEF a, b, n, o
    <3>2. a = n /\ o = 1
      BY <3>1
    <3> QED
      BY <3>2 DEF a, n, o
  <2> QED
    BY <2>5 DEF Over
<1> QED
  BY <1>2

\* A chunk moves from the inbox to the screen.
LEMMA ChunkKeeps ==
  ASSUME TuiInv, ChunkMsg
  PROVE  TuiInv'
<1> USE DEF TuiInv, ChunkMsg, streamVars
<1>0. TuiTypeOK /\ Len(buf) \in Nat
  BY LenProperties DEF TuiTypeOK
<1>1. /\ streaming /\ cur \in Streams
      /\ Len(inbox) = 1 /\ inbox' = <<>> /\ Len(inbox') = 0
      /\ waits[cur] = 0
      /\ Head(inbox) = Sent(cur, Len(buf) + 1)
      /\ Head(inbox) \in Msg
  BY TakenMsg, EmptySeq
<1>2. /\ buf' \in Seq(Msg)
      /\ Len(buf') = Len(buf) + 1
      /\ \A i \in 1..Len(buf) : buf'[i] = buf[i]
      /\ buf'[Len(buf) + 1] = Head(inbox)
  BY <1>0, <1>1, AppendProperties DEF TuiTypeOK
<1>3. Len(buf) + 1 <= nsent[cur] /\ Head(inbox) = [s |-> cur, n |-> Len(buf) + 1]
  BY ChunkIsNext
<1>4. TuiTypeOK'
  BY <1>0, <1>1, <1>2, EmptySeq DEF TuiTypeOK
<1>5. OneListener'
  BY <1>0, <1>1 DEF OneListener, TuiTypeOK
<1>6. StreamOrder'
  BY <1>1 DEF StreamOrder
<1>7. Transcript'
  BY <1>1 DEF Transcript
<1>8. Pipeline'
  <2>1. \A i \in 1..Len(buf') : buf'[i] = [s |-> cur, n |-> i]
    BY <1>0, <1>1, <1>2, <1>3 DEF Pipeline
  <2>2. Len(chan[cur]) \in Nat /\ nsent[cur] \in Nat /\ Over(cur) \in Nat
    BY <1>0, <1>1, LenProperties DEF TuiTypeOK, Over
  <2>3. ASSUME NEW i \in 1..Len(chan[cur])
        PROVE  chan[cur][i] = Sent(cur, Len(buf') + Len(inbox') + i)
    <3>1. chan[cur][i] = Sent(cur, Len(buf) + Len(inbox) + i)
      BY <1>1, <2>3 DEF Pipeline
    <3>2. Len(inbox) = 1 /\ Len(inbox') = 0 /\ Len(buf') = Len(buf) + 1 /\ i \in Nat
      BY <1>1, <1>2, <2>2
    <3> DEFINE a == Len(buf)
    <3>3. a \in Nat /\ Len(buf') = a + 1
      BY <1>0, <3>2
    <3> HIDE DEF a
    <3>4. a + 1 + i = (a + 1) + 0 + i
      BY <3>2, <3>3, SumShifts
    <3> QED
      BY <3>1, <3>2, <3>3, <3>4 DEF a
  <2>4. Len(buf') + Len(inbox') + Len(chan[cur]) = nsent[cur] + Over(cur)
    <3>1. Len(buf) + Len(inbox) + Len(chan[cur]) = nsent[cur] + Over(cur)
      BY <1>1 DEF Pipeline
    <3> QED
      BY <1>0, <1>1, <1>2, <2>2, <3>1, SumShifts
  <2>5. \A i \in 1..Len(inbox') : FALSE
    BY <1>1
  <2>6. Len(buf') <= nsent[cur]
    BY <1>2, <1>3
  <2>7. UNCHANGED <<cur, chan, nsent, producer>>
    OBVIOUS
  <2> QED
    BY <2>1, <2>3, <2>4, <2>5, <2>6, <2>7 DEF Pipeline, Sent, Over
<1> QED
  BY <1>4, <1>5, <1>6, <1>7, <1>8

\* The end of a stream comes after everything that was sent: what is on the
\* screen is the whole of it.
LEMMA DoneKeeps ==
  ASSUME TuiInv, DoneMsg
  PROVE  TuiInv'
<1> USE DEF TuiInv, DoneMsg, streamVars
<1>0. TuiTypeOK /\ Len(buf) \in Nat /\ log \in Seq(LogEntry) /\ Len(log) \in Nat
  BY LenProperties DEF TuiTypeOK, Transcript
<1>1. /\ streaming /\ cur \in Streams
      /\ Len(inbox) = 1 /\ inbox' = <<>> /\ Len(inbox') = 0
      /\ waits[cur] = 0
      /\ Head(inbox) = Sent(cur, Len(buf) + 1)
  BY TakenMsg, EmptySeq
<1>2. Len(buf) = nsent[cur] /\ producer[cur] = "over"
  BY EndIsAll
<1>3. TuiTypeOK'
  BY <1>0, <1>1, EmptySeq DEF TuiTypeOK
<1>4. OneListener'
  BY <1>0, <1>1 DEF OneListener, TuiTypeOK
<1>5. StreamOrder'
  BY <1>0, <1>1, <1>2 DEF StreamOrder, TuiTypeOK
<1>6. Pipeline'
  BY DEF Pipeline
<1>7. Transcript'
  <2>1. CASE buf = <<>>
    BY <2>1 DEF Transcript
  <2>2. CASE buf # <<>>
    <3>1. /\ Answer(cur, Len(buf)) \in LogEntry
          /\ log # <<>> /\ log[Len(log)] = Question(cur)
      BY <1>0, <1>1 DEF Answer, LogEntry, Transcript, TuiTypeOK
    <3>2. /\ log' \in Seq(LogEntry)
          /\ Len(log') = Len(log) + 1
          /\ \A i \in 1..Len(log) : log'[i] = log[i]
          /\ log'[Len(log) + 1] = Answer(cur, Len(buf))
      BY <1>0, <2>2, <3>1, AppendProperties
    <3>3. Len(log) > 0
      BY <1>0, <3>1, EmptySeq
    <3>4. ASSUME NEW i \in 1..Len(log'), log'[i].role = "assistant"
          PROVE  /\ i > 1
                 /\ log'[i - 1] = Question(log'[i].s)
                 /\ log'[i].s \in 1..cur'
                 /\ producer'[log'[i].s] = "over"
                 /\ log'[i].n = nsent'[log'[i].s]
      <4>1. CASE i = Len(log) + 1
        <5>1. log'[i].s = cur /\ log'[i].n = Len(buf)
          BY <3>2, <4>1 DEF Answer
        <5>2. i - 1 = Len(log) /\ i > 1 /\ log'[i - 1] = log[Len(log)]
          BY <1>0, <3>2, <3>3, <4>1
        <5> QED
          BY <1>0, <1>1, <1>2, <3>1, <5>1, <5>2 DEF Streams
      <4>2. CASE i # Len(log) + 1
        <5>1. i \in 1..Len(log) /\ log'[i] = log[i]
          BY <1>0, <3>2, <4>2
        <5>2. i > 1 /\ log'[i - 1] = log[i - 1]
          BY <1>0, <3>2, <3>4, <5>1 DEF Transcript
        <5> QED
          BY <3>4, <5>1, <5>2 DEF Transcript
      <4> QED
        BY <4>1, <4>2
    <3> QED
      BY <3>2, <3>4 DEF Transcript
  <2> QED
    BY <2>1, <2>2
<1> QED
  BY <1>3, <1>4, <1>5, <1>6, <1>7

\* waitForChunk hands the first message of the channel on.  It never meets a
\* channel that is closed and empty.
LEMMA WaitKeeps ==
  ASSUME TuiInv, NEW s \in Streams, WaitReturns(s)
  PROVE  TuiInv'
<1> USE DEF TuiInv
<1>0. TuiTypeOK /\ Len(buf) \in Nat /\ Len(inbox) \in Nat /\ Len(chan[s]) \in Nat
  BY LenProperties DEF TuiTypeOK
<1>1. streaming /\ s = cur
  BY <1>0 DEF OneListener, WaitReturns
<1>2. waits[cur] = 1 /\ Len(inbox) = 0 /\ inbox = <<>>
  <2>1. waits[cur] \in Nat \ {0} /\ Len(inbox) + waits[cur] = 1
    BY <1>0, <1>1 DEF OneListener, WaitReturns, TuiTypeOK
  <2>2. Len(inbox) = 0 /\ waits[cur] = 1
    BY <1>0, <2>1, SumIsOne
  <2> QED
    BY <1>0, <2>2, EmptySeq DEF TuiTypeOK
<1>3. chan[s] # <<>>
  <2> SUFFICES ASSUME chan[s] = <<>> PROVE FALSE
    OBVIOUS
  <2>1. Over(cur) = 1 /\ Len(chan[cur]) = 0
    BY <1>1, EmptySeq DEF WaitReturns, Over
  <2>2. Len(buf) + 0 + 0 = nsent[cur] + 1 /\ Len(buf) <= nsent[cur]
    BY <1>1, <1>2, <2>1 DEF Pipeline
  <2>3. nsent[cur] \in Nat
    BY <1>1 DEF TuiTypeOK
  <2> DEFINE a == Len(buf)
             n == nsent[cur]
  <2>4. a \in Nat /\ n \in Nat /\ a + 0 + 0 = n + 1 /\ a <= n
    BY <1>0, <2>2, <2>3
  <2> HIDE DEF a, n
  <2> QED
    BY <2>4
<1>4. /\ Head(chan[s]) \in Msg
      /\ Head(chan[s]) = chan[s][1]
      /\ Tail(chan[s]) \in Seq(Msg)
      /\ Len(Tail(chan[s])) = Len(chan[s]) - 1
      /\ \A i \in 1..Len(Tail(chan[s])) : Tail(chan[s])[i] = chan[s][i + 1]
  BY <1>0, <1>3, HeadTailProperties DEF TuiTypeOK
<1>5. /\ inbox' = Append(<<>>, Head(chan[s]))
      /\ chan' = [chan EXCEPT ![s] = Tail(@)]
      /\ waits' = [waits EXCEPT ![s] = @ - 1]
      /\ UNCHANGED <<known, asked, streaming, cur, cancelled, buf, log, producer, nsent>>
  BY <1>0, <1>2, <1>3 DEF WaitReturns, TuiTypeOK
<1>6. inbox' \in Seq(Msg) /\ Len(inbox') = 1 /\ inbox'[1] = Head(chan[s])
  <2>1. <<>> \in Seq(Msg) /\ Len(<<>>) = 0
    BY EmptySeq
  <2> QED
    BY <1>4, <1>5, <2>1, AppendProperties
<1>7. waits'[cur] = 0
  BY <1>1, <1>2, <1>5 DEF TuiTypeOK
<1>8. TuiTypeOK'
  <2>1. waits' \in [Streams -> Nat]
    BY <1>0, <1>1, <1>2, <1>5 DEF TuiTypeOK
  <2>2. chan' \in [Streams -> Seq(Msg)]
    BY <1>0, <1>4, <1>5 DEF TuiTypeOK
  <2> QED
    BY <1>0, <1>5, <1>6, <2>1, <2>2 DEF TuiTypeOK
<1>9. OneListener'
  <2>1. \A z \in Streams : z # cur => waits'[z] = 0
    BY <1>0, <1>1, <1>5 DEF OneListener, TuiTypeOK
  <2>2. waits'[cur] + Len(inbox') = 1
    BY <1>6, <1>7
  <2>3. streaming' /\ cur' = cur
    BY <1>1, <1>5
  <2> QED
    BY <2>1, <2>2, <2>3 DEF OneListener
<1>10. StreamOrder'
  BY <1>0, <1>1, <1>5 DEF StreamOrder, TuiTypeOK, Streams
<1>11. Transcript'
  BY <1>5 DEF Transcript
<1>12. Pipeline'
  <2>1. chan'[cur] = Tail(chan[cur])
    BY <1>0, <1>1, <1>5 DEF TuiTypeOK
  <2>2. inbox'[1] = Sent(cur, Len(buf) + 1)
    <3>1. Len(chan[cur]) > 0
      BY <1>0, <1>1, <1>3, EmptySeq DEF TuiTypeOK
    <3>2. chan[cur][1] = Sent(cur, Len(buf) + Len(inbox) + 1)
      BY <1>0, <1>1, <3>1 DEF Pipeline
    <3> QED
      BY <1>0, <1>1, <1>2, <1>4, <1>6, <3>2
  <2>3. ASSUME NEW i \in 1..Len(Tail(chan[cur]))
        PROVE  Tail(chan[cur])[i] = Sent(cur, Len(buf) + 1 + i)
    <3>1. i \in Nat /\ i + 1 \in 1..Len(chan[cur])
      BY <1>0, <1>1, <1>4
    <3>2. chan[cur][i + 1] = Sent(cur, Len(buf) + Len(inbox) + (i + 1))
      BY <1>1, <3>1 DEF Pipeline
    <3>3. Len(buf) + Len(inbox) + (i + 1) = Len(buf) + 1 + i
      BY <1>0, <1>2, <3>1
    <3> QED
      BY <1>1, <1>4, <3>2, <3>3
  <2>4. Len(buf) + 1 + Len(Tail(chan[cur])) = nsent[cur] + Over(cur)
    <3>1. Len(buf) + Len(inbox) + Len(chan[cur]) = nsent[cur] + Over(cur)
      BY <1>1 DEF Pipeline
    <3>2. Len(Tail(chan[cur])) = Len(chan[cur]) - 1
      BY <1>1, <1>4
    <3> DEFINE a == Len(buf)
               b == Len(chan[cur])
               c == Len(Tail(chan[cur]))
               d == nsent[cur] + Over(cur)
    <3>3. a \in Nat /\ b \in Nat /\ a + 0 + b = d /\ c = b - 1
      BY <1>0, <1>1, <1>2, <3>1, <3>2
    <3> HIDE DEF a, b, c, d
    <3>4. a + 1 + c = d
      BY <3>3
    <3> QED
      BY <3>4 DEF a, b, c, d
  <2>5. \A i \in 1..Len(inbox') : inbox'[i] = Sent(cur, Len(buf) + i)
    BY <1>6, <2>2
  <2>6. /\ \A i \in 1..Len(buf) : buf[i] = [s |-> cur, n |-> i]
        /\ Len(buf) <= nsent[cur]
    BY <1>1 DEF Pipeline
  <2> QED
    BY <1>5, <1>6, <2>1, <2>3, <2>4, <2>5, <2>6 DEF Pipeline, Sent, Over
<1> QED
  BY <1>8, <1>9, <1>10, <1>11, <1>12

\* Only the goroutine of the current answer is active.
LEMMA OnlyCurrent ==
  ASSUME TuiInv, NEW s \in Streams, producer[s] \in {"calling", "reading"}
  PROVE  streaming /\ s = cur
<1>1. cur \in 0..MaxStreams /\ ~(s > cur) /\ ~(s < cur)
  BY DEF TuiInv, TuiTypeOK, StreamOrder, Streams
<1>2. s = cur
  BY <1>1, TuiAssumption DEF Streams
<1> QED
  BY <1>2 DEF TuiInv, StreamOrder

LEMMA AnswersAreOver ==
  ASSUME TuiInv, NEW s \in Streams, producer[s] # "over"
  PROVE  \A i \in 1..Len(log) : log[i].role = "assistant" =>
            log[i].s \in Streams /\ log[i].s # s
<1> SUFFICES ASSUME NEW i \in 1..Len(log), log[i].role = "assistant"
             PROVE  log[i].s \in Streams /\ log[i].s # s
  OBVIOUS
<1>1. log[i].s \in 1..cur /\ producer[log[i].s] = "over"
  BY DEF TuiInv, Transcript
<1>2. cur \in 0..MaxStreams
  BY DEF TuiInv, TuiTypeOK
<1> QED
  BY <1>1, <1>2, TuiAssumption DEF Streams

\* A message more in the channel.
LEMMA SendKeeps ==
  ASSUME TuiInv, NEW s \in Streams, producer[s] \in {"calling", "reading"},
         UNCHANGED loopVars,
         NEW m \in Msg, chan' = [chan EXCEPT ![s] = Append(@, m)],
         \/ /\ m = End(s)
            /\ producer' = [producer EXCEPT ![s] = "over"]
            /\ nsent' = nsent
         \/ /\ m = [s |-> s, n |-> nsent[s] + 1]
            /\ nsent[s] < MaxChunks
            /\ nsent' = [nsent EXCEPT ![s] = @ + 1]
            /\ producer' = producer
  PROVE  TuiInv'
<1> USE DEF TuiInv, loopVars
<1>0. /\ TuiTypeOK /\ Len(buf) \in Nat /\ Len(inbox) \in Nat
      /\ chan[s] \in Seq(Msg) /\ Len(chan[s]) \in Nat
      /\ nsent[s] \in 0..MaxChunks /\ nsent[s] \in Nat
  BY LenProperties, TuiAssumption DEF TuiTypeOK
<1>1. streaming /\ s = cur /\ streaming' /\ cur' = cur
  BY OnlyCurrent
<1>2. /\ chan'[s] = Append(chan[s], m)
      /\ chan'[s] \in Seq(Msg)
      /\ Len(chan'[s]) = Len(chan[s]) + 1
      /\ \A i \in 1..Len(chan[s]) : chan'[s][i] = chan[s][i]
      /\ chan'[s][Len(chan[s]) + 1] = m
  BY <1>0, AppendProperties DEF TuiTypeOK
<1>3. \A z \in Streams : z # s => /\ chan'[z] = chan[z]
                                  /\ producer'[z] = producer[z]
                                  /\ nsent'[z] = nsent[z]
  BY <1>0 DEF TuiTypeOK
<1>n. PICK b \in Nat, k \in Nat, c \in Nat, n \in Nat :
        b = Len(buf) /\ k = Len(inbox) /\ c = Len(chan[s]) /\ n = nsent[s]
  BY <1>0
<1>4. /\ producer'[s] # "none"
      /\ nsent'[s] \in Nat /\ nsent'[s] + Over(s)' = n + 1 /\ n <= nsent'[s]
      /\ Sent(s, n + 1)' = m
      /\ nsent' \in [Streams -> 0..MaxChunks]
  <2>1. CASE m = End(s) /\ producer' = [producer EXCEPT ![s] = "over"] /\ nsent' = nsent
    <3>1. producer'[s] = "over" /\ nsent'[s] = n
      BY <1>0, <1>n, <2>1 DEF TuiTypeOK
    <3>2. Over(s)' = 1
      BY <3>1 DEF Over
    <3>3. Sent(s, n + 1)' = m
      BY <2>1, <3>1 DEF Sent, End
    <3> QED
      BY <1>0, <2>1, <3>1, <3>2, <3>3 DEF TuiTypeOK
  <2>2. CASE /\ m = [s |-> s, n |-> nsent[s] + 1]
             /\ nsent[s] < MaxChunks
             /\ nsent' = [nsent EXCEPT ![s] = @ + 1]
             /\ producer' = producer
    <3>1. nsent'[s] = n + 1 /\ m = [s |-> s, n |-> n + 1] /\ n + 1 \in 0..MaxChunks
      BY <1>0, <1>n, <2>2, TuiAssumption DEF TuiTypeOK
    <3>2. Over(s)' = 0 /\ producer'[s] # "none"
      BY <2>2 DEF Over
    <3>3. Sent(s, n + 1)' = m
      BY <3>1 DEF Sent
    <3>4. nsent' \in [Streams -> 0..MaxChunks]
      BY <1>0, <1>n, <2>2, <3>1 DEF TuiTypeOK
    <3> QED
      BY <3>1, <3>2, <3>3, <3>4
  <2> QED
    BY <2>1, <2>2
<1>5. TuiTypeOK'
  <2>1. chan' \in [Streams -> Seq(Msg)]
    BY <1>0, <1>2 DEF TuiTypeOK
  <2>2. producer' \in [Streams -> {"none", "calling", "reading", "over"}]
    BY <1>0 DEF TuiTypeOK
  <2> QED
    BY <1>0, <1>4, <2>1, <2>2 DEF TuiTypeOK
<1>6. OneListener'
  BY DEF OneListener
<1>7. StreamOrder'
  BY <1>0, <1>1, <1>3, <1>4 DEF StreamOrder, TuiTypeOK, Streams
<1>8. Transcript'
  <2>1. \A i \in 1..Len(log) : log[i].role = "assistant" =>
           log[i].s \in Streams /\ log[i].s # s
    BY AnswersAreOver
  <2> QED
    BY <1>1, <1>3, <2>1 DEF Transcript
<1>9. Pipeline'
  <2>1. b + k + c = n
    <3>1. Over(s) = 0
      BY DEF Over
    <3>2. b + k + c = n + Over(s)
      BY <1>1, <1>n DEF Pipeline
    <3> QED
      BY <3>1, <3>2
  <2>2. \A j \in 1..n : Sent(s, j)' = Sent(s, j)
    BY <1>4, <1>n DEF Sent
  <2>3. ASSUME NEW i \in 1..k PROVE inbox[i] = Sent(s, b + i)'
    <3>1. b + i \in 1..n
      BY <2>1
    <3>2. inbox[i] = Sent(s, b + i)
      BY <1>1, <1>n DEF Pipeline
    <3> QED
      BY <2>2, <3>1, <3>2
  <2>4. ASSUME NEW i \in 1..(c + 1) PROVE chan'[s][i] = Sent(s, b + k + i)'
    <3>1. CASE i = c + 1
      <4>1. b + k + i = n + 1
        BY <2>1, <3>1
      <4> QED
        BY <1>2, <1>4, <1>n, <3>1, <4>1
    <3>2. CASE i # c + 1
      <4>1. i \in 1..c /\ b + k + i \in 1..n
        BY <2>1, <3>2
      <4>2. chan[s][i] = Sent(s, b + k + i)
        BY <1>1, <1>n, <4>1 DEF Pipeline
      <4> QED
        BY <1>2, <1>n, <2>2, <4>1, <4>2
    <3> QED
      BY <3>1, <3>2
  <2>5. b + k + (c + 1) = nsent'[s] + Over(s)'
    BY <1>4, <2>1
  <2>6. b <= nsent'[s]
    BY <1>4, <2>1
  <2>7. \A i \in 1..b : buf[i] = [s |-> cur, n |-> i]
    BY <1>1, <1>n DEF Pipeline
  <2>8. Len(buf') = b /\ Len(inbox') = k /\ Len(chan'[s]) = c + 1
    BY <1>2, <1>n
  <2> QED
    BY <1>1, <2>3, <2>4, <2>5, <2>6, <2>7, <2>8 DEF Pipeline
<1> QED
  BY <1>5, <1>6, <1>7, <1>8, <1>9

\* runStream.
LEMMA ProducerKeeps ==
  ASSUME TuiInv, NEW s \in Streams, ProducerStep(s)
  PROVE  TuiInv'
<1>0. TuiTypeOK /\ End(s) \in Msg
  BY MsgOfStream DEF TuiInv
<1>1. CASE StreamCallFails(s) \/ StreamOver(s)
  <2>1. producer[s] \in {"calling", "reading"} /\ Finish(s)
    BY <1>1 DEF StreamCallFails, StreamOver
  <2> QED
    BY <1>0, <2>1, SendKeeps DEF Finish
<1>2. CASE SendChunk(s)
  <2>1. [s |-> s, n |-> nsent[s] + 1] \in Msg
    BY <1>0, <1>2, TuiAssumption DEF SendChunk, TuiTypeOK, Msg
  <2>2. /\ nsent' = [nsent EXCEPT ![s] = @ + 1]
        /\ nsent'[s] = nsent[s] + 1
    BY <1>0, <1>2 DEF SendChunk, TuiTypeOK
  <2> QED
    BY <1>2, <2>1, <2>2, SendKeeps DEF SendChunk
<1>3. CASE StreamAnswered(s)
  <2> USE DEF TuiInv, loopVars
  <2>1. streaming /\ s = cur
    BY <1>3, OnlyCurrent DEF StreamAnswered
  <2>2. /\ UNCHANGED <<chan, nsent, loopVars>>
        /\ producer' = [producer EXCEPT ![s] = "reading"]
        /\ producer'[s] = "reading" /\ producer[s] = "calling"
        /\ \A z \in Streams : z # s => producer'[z] = producer[z]
    BY <1>0, <1>3 DEF StreamAnswered, TuiTypeOK
  <2>3. TuiTypeOK' /\ OneListener'
    BY <1>0, <2>2 DEF TuiTypeOK, OneListener
  <2>4. StreamOrder'
    BY <1>0, <2>1, <2>2 DEF StreamOrder, TuiTypeOK, Streams
  <2>5. Pipeline'
    <3>1. Over(cur)' = Over(cur)
      BY <2>1, <2>2 DEF Over
    <3> QED
      BY <2>2, <3>1 DEF Pipeline, Sent
  <2>6. Transcript'
    <3>1. \A i \in 1..Len(log) : log[i].role = "assistant" =>
             log[i].s \in Streams /\ log[i].s # s
      BY <2>2, AnswersAreOver
    <3> QED
      BY <2>2, <3>1 DEF Transcript
  <2> QED
    BY <2>3, <2>4, <2>5, <2>6
<1> QED
  BY <1>1, <1>2, <1>3 DEF ProducerStep
-----------------------------------------------------------------------------
LEMMA TuiInvHolds == TuiSpec => []TuiInv
<1>1. TuiInit => TuiInv
  BY TuiInvInit
<1>2. TuiInv /\ [TuiNext]_tuiVars => TuiInv'
  BY QuietKeeps, AskKeeps, ChunkKeeps, DoneKeeps, WaitKeeps, ProducerKeeps DEF TuiNext
<1> QED
  BY <1>1, <1>2, PTL DEF TuiSpec

\* Every variable of the terminal client keeps its type.
THEOREM TuiTyped == TuiSpec => []TuiTypeOK
<1>1. TuiInv => TuiTypeOK
  BY DEF TuiInv
<1> QED
  BY <1>1, TuiInvHolds, PTL

\* An answer in progress has exactly one listener, whenever Esc and Enter are
\* pressed (Update in tui/chat.go).
THEOREM ListenerStaysAlone == TuiSpec => []OneListener
<1>1. TuiInv => OneListener
  BY DEF TuiInv
<1> QED
  BY <1>1, TuiInvHolds, PTL

\* The screen shows the current answer from its beginning, without a gap.
THEOREM ScreenStaysInOrder == TuiSpec => []ShownInOrder
<1>1. TuiInv => ShownInOrder
  <2> SUFFICES ASSUME TuiInv PROVE ShownInOrder
    OBVIOUS
  <2>1. buf \in Seq(Msg)
    BY DEF TuiInv, TuiTypeOK
  <2>2. buf = [i \in 1..Len(buf) |-> buf[i]] /\ Len(buf) \in Nat
    BY <2>1, LenProperties
  <2>3. \A i \in 1..Len(buf) : buf[i] = [s |-> cur, n |-> i]
    <3>1. CASE streaming
      BY <3>1 DEF TuiInv, Pipeline
    <3>2. CASE ~streaming
      BY <3>2, EmptySeq DEF TuiInv, StreamOrder
    <3> QED
      BY <3>1, <3>2
  <2> QED
    BY <2>2, <2>3 DEF ShownInOrder
<1> QED
  BY <1>1, TuiInvHolds, PTL

\* In the transcript an answer comes right after its own question.
THEOREM AnswersStayPaired == TuiSpec => []AnswerFollowsQuestion
<1>1. TuiInv => AnswerFollowsQuestion
  <2> SUFFICES ASSUME TuiInv PROVE AnswerFollowsQuestion
    OBVIOUS
  <2>1. DOMAIN log = 1..Len(log)
    BY LenProperties DEF TuiInv, Transcript
  <2> QED
    BY <2>1 DEF TuiInv, Transcript, AnswerFollowsQuestion
<1> QED
  BY <1>1, TuiInvHolds, PTL

\* An answer in the transcript has every chunk runStream sent.
THEOREM AnswersStayWhole == TuiSpec => []AnswerIsAll
<1>1. TuiInv => AnswerIsAll
  <2> SUFFICES ASSUME TuiInv PROVE AnswerIsAll
    OBVIOUS
  <2>1. DOMAIN log = 1..Len(log)
    BY LenProperties DEF TuiInv, Transcript
  <2> QED
    BY <2>1 DEF TuiInv, Transcript, AnswerIsAll
<1> QED
  BY <1>1, TuiInvHolds, PTL
-----------------------------------------------------------------------------
(* The refinement of Dialogue. *)

\* Enter asks, with or without a model to answer.
LEMMA EnterTalks ==
  ASSUME TuiInv, AskNobody \/ Ask
  PROVE  Screen!AskInVain \/ Screen!Ask
<1>1. CASE AskNobody
  BY <1>1 DEF AskNobody, streamVars, Question, Screen!AskInVain, Screen!Question
<1>2. CASE Ask
  <2>1. /\ ~streaming /\ cur < MaxStreams /\ cur' = cur + 1 /\ streaming' = TRUE
        /\ buf' = <<>> /\ log' = Append(log, Question(cur')) /\ nsent' = nsent
        /\ producer' = [producer EXCEPT ![cur'] = "calling"]
    BY <1>2 DEF Ask
  <2>2. buf = <<>> /\ cur \in 0..MaxStreams
    BY <2>1 DEF TuiInv, StreamOrder, TuiTypeOK
  <2>3. cur' \in Streams /\ producer[cur'] = "none"
    BY <2>1, <2>2, TuiAssumption DEF TuiInv, StreamOrder, Streams
  <2>4. {s \in Streams : producer'[s] = "over"} = {s \in Streams : producer[s] = "over"}
    BY <2>1, <2>3 DEF TuiInv, TuiTypeOK
  <2> QED
    BY <2>1, <2>2, <2>4 DEF Question, Screen!Ask, Screen!Question
<1> QED
  BY <1>1, <1>2

\* The loop shows a piece of the answer, or settles the whole of it.
LEMMA LoopTalks ==
  ASSUME TuiInv, ChunkMsg \/ DoneMsg
  PROVE  Screen!Show \/ Screen!Settle
<1>0. /\ streaming /\ cur \in Streams /\ buf \in Seq(Msg) /\ Len(buf) \in Nat
      /\ nsent[cur] \in Nat
  <2>1. buf \in Seq(Msg)
    BY DEF TuiInv, TuiTypeOK
  <2>2. streaming /\ cur \in Streams
    BY TakenMsg DEF ChunkMsg, DoneMsg
  <2> QED
    BY <2>1, <2>2, LenProperties DEF TuiInv, TuiTypeOK
<1>1. CASE ChunkMsg
  <2>1. Len(buf) + 1 <= nsent[cur] /\ Head(inbox) \in Msg
    BY <1>1, ChunkIsNext, TakenMsg DEF ChunkMsg
  <2>2. Len(buf') = Len(buf) + 1
    BY <1>0, <1>1, <2>1, AppendProperties DEF ChunkMsg
  <2> QED
    BY <1>0, <1>1, <2>1, <2>2 DEF ChunkMsg, streamVars, Screen!Show
<1>2. CASE DoneMsg
  <2>1. Len(buf) = nsent[cur] /\ producer[cur] = "over"
    BY <1>2, EndIsAll DEF DoneMsg
  <2>2. buf = <<>> <=> Len(buf) = 0
    BY <1>0, EmptySeq
  <2>3. Len(buf') = 0
    BY <1>2, EmptySeq DEF DoneMsg
  <2> QED
    BY <1>0, <1>2, <2>1, <2>2, <2>3
       DEF DoneMsg, streamVars, Answer, Screen!Settle, Screen!Answer
<1> QED
  BY <1>1, <1>2

\* runStream speaks or falls silent.
LEMMA ProducerTalks ==
  ASSUME TuiInv, NEW s \in Streams, ProducerStep(s)
  PROVE  Screen!Speak \/ Screen!FallSilent \/ UNCHANGED Screen!dialogueVars
<1>0. /\ producer \in [Streams -> {"none", "calling", "reading", "over"}]
      /\ producer[s] \in {"calling", "reading"}
      /\ UNCHANGED loopVars
  BY DEF TuiInv, TuiTypeOK, ProducerStep, StreamCallFails, StreamAnswered, SendChunk,
     StreamOver, Finish
<1>1. streaming /\ s = cur
  BY <1>0, OnlyCurrent
<1>2. UNCHANGED <<streaming, cur, buf, log>>
  BY <1>0 DEF loopVars
<1>3. CASE SendChunk(s)
  <2>1. producer' = producer /\ nsent' = [nsent EXCEPT ![s] = nsent[s] + 1]
    BY <1>3 DEF SendChunk
  <2> QED
    BY <1>0, <1>1, <1>2, <2>1 DEF Screen!Speak
<1>4. CASE StreamAnswered(s)
  <2>1. nsent' = nsent /\ producer' = [producer EXCEPT ![s] = "reading"]
    BY <1>4 DEF StreamAnswered
  <2>2. {q \in Streams : producer'[q] = "over"} = {q \in Streams : producer[q] = "over"}
    BY <1>0, <2>1
  <2> QED
    BY <1>2, <2>1, <2>2 DEF Screen!dialogueVars
<1>5. CASE StreamCallFails(s) \/ StreamOver(s)
  <2>1. nsent' = nsent /\ producer' = [producer EXCEPT ![s] = "over"]
    BY <1>5 DEF StreamCallFails, StreamOver, Finish
  <2>2. {q \in Streams : producer'[q] = "over"} =
          {q \in Streams : producer[q] = "over"} \union {s}
    BY <1>0, <2>1
  <2> QED
    BY <1>0, <1>1, <1>2, <2>1, <2>2 DEF Screen!FallSilent
<1> QED
  BY <1>3, <1>4, <1>5 DEF ProducerStep

LEMMA StepTalks ==
  ASSUME TuiInv, [TuiNext]_tuiVars
  PROVE  [Screen!DialogueNext]_Screen!dialogueVars
<1>1. CASE AskNobody \/ Ask
  BY <1>1, EnterTalks DEF Screen!DialogueNext
<1>2. CASE ChunkMsg \/ DoneMsg
  BY <1>2, LoopTalks DEF Screen!DialogueNext
<1>3. CASE \E s \in Streams : ProducerStep(s)
  BY <1>3, ProducerTalks DEF Screen!DialogueNext
<1>4. CASE WorkersFetched \/ Esc \/ (\E s \in Streams : WaitReturns(s)) \/ UNCHANGED tuiVars
  <2>1. UNCHANGED <<streaming, cur, buf, log, producer, nsent>>
    BY <1>4 DEF WorkersFetched, Esc, WaitReturns, tuiVars, streamVars
  <2> QED
    BY <2>1 DEF Screen!dialogueVars
<1> QED
  BY <1>1, <1>2, <1>3, <1>4 DEF TuiNext

\* The terminal client keeps the dialogue, for any number of questions and of
\* pieces, and channels of any capacity: whatever is cancelled or cut, each
\* answer is shown and kept whole, in its turn.
THEOREM ClientKeepsDialogue == TuiSpec => KeepsDialogue
<1>1. TuiInit => Screen!DialogueInit
  <2> SUFFICES ASSUME TuiInit PROVE Screen!DialogueInit
    OBVIOUS
  <2>1. Len(<<>>) = 0
    OBVIOUS
  <2>2. {s \in Streams : producer[s] = "over"} = {}
    BY DEF TuiInit
  <2> QED
    BY <2>1, <2>2 DEF TuiInit, Streams, Screen!DialogueInit
<1>2. TuiInv /\ [TuiNext]_tuiVars => [Screen!DialogueNext]_Screen!dialogueVars
  BY StepTalks
<1> QED
  BY <1>1, <1>2, TuiInvHolds, PTL DEF TuiSpec, KeepsDialogue, Screen!DialogueSpec
============================================================================
