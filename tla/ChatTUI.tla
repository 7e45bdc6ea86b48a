------------------------------ MODULE ChatTUI ------------------------------
(***************************************************************************)
(* The terminal client, internal/tui/chat.go: the update loop of the       *)
(* program, one runStream goroutine per question, and the waitForChunk     *)
(* commands that carry what it sends to the loop, one message each.        *)
(* The orchestrator is external: it answers with some chunks and ends, or  *)
(* fails, at any time or never.  System lines of the transcript are left   *)
(* out, as runStream leaves them out of its requests.                      *)
(***************************************************************************)
EXTENDS Integers, Sequences

CONSTANTS MaxStreams,  \* bound: questions that are sent
          MaxChunks,   \* bound: chunks of an answer
          MaxLog,      \* bound: messages of the transcript
          ChanCap      \* capacity of the channel of a stream (64)

ASSUME TuiAssumption == /\ MaxStreams \in Nat /\ MaxChunks \in Nat
                        /\ MaxLog \in Nat /\ ChanCap \in Nat \ {0}

VARIABLES known,      \* currentModel # ""
          asked,      \* the answer to fetchWorkers has not come yet
          streaming,  \* an answer is being received
          cur,        \* the last question sent; m.stream and cancelFn are its
          cancelled,  \* streams whose context is cancelled
          buf,        \* streamingBuf
          log,        \* history
          chan,       \* chan[s]: the channel of stream s
          waits,      \* waits[s]: waitForChunk commands that read it
          inbox,      \* messages on their way to the update loop
          producer,   \* where the runStream goroutine of a stream is
          nsent       \* chunks it has sent

tuiVars == <<known, asked, streaming, cur, cancelled, buf, log, chan, waits,
             inbox, producer, nsent>>
streamVars == <<chan, producer, nsent>>

Streams == 1..MaxStreams

\* 0 is the end of a stream, doneMsg, whatever its error.
Msg == [s : Streams, n : 0..MaxChunks]
End(s) == [s |-> s, n |-> 0]
Question(s) == [role |-> "user", s |-> s, n |-> 0]
Answer(s, n) == [role |-> "assistant", s |-> s, n |-> n]

TuiInit == /\ known = FALSE
           /\ asked = TRUE
           /\ streaming = FALSE
           /\ cur = 0
           /\ cancelled = {}
           /\ buf = <<>>
           /\ log = <<>>
           /\ chan = [s \in Streams |-> <<>>]
           /\ waits = [s \in Streams |-> 0]
           /\ inbox = <<>>
           /\ producer = [s \in Streams |-> "none"]
           /\ nsent = [s \in Streams |-> 0]
-----------------------------------------------------------------------------
(* Update *)

\* The one answer to the one fetchWorkers of Init.
WorkersFetched == /\ asked
                  /\ asked' = FALSE
                  /\ known' \in BOOLEAN
                  /\ UNCHANGED <<streaming, cur, cancelled, buf, log, waits, inbox,
                                 streamVars>>

\* Enter before a model is known: the question stays in the transcript.
AskNobody == /\ ~streaming
             /\ ~known
             /\ Len(log) < MaxLog
             /\ log' = Append(log, Question(0))
             /\ UNCHANGED <<known, asked, streaming, cur, cancelled, buf, waits,
                            inbox, streamVars>>

\* Variant: Enter is not ignored during an answer.
AskAnyTime == /\ known
              /\ cur < MaxStreams
              /\ Len(log) < MaxLog
              /\ cur' = cur + 1
              /\ streaming' = TRUE
              /\ buf' = <<>>
              /\ log' = Append(log, Question(cur'))
              /\ producer' = [producer EXCEPT ![cur'] = "calling"]
              /\ waits' = [waits EXCEPT ![cur'] = 1]
              /\ UNCHANGED <<known, asked, cancelled, chan, inbox, nsent>>

Ask == /\ ~streaming
       /\ known
       /\ cur < MaxStreams
       /\ Len(log) < MaxLog
       /\ cur' = cur + 1
       /\ streaming' = TRUE
       /\ buf' = <<>>
       /\ log' = Append(log, Question(cur'))
       /\ producer' = [producer EXCEPT ![cur'] = "calling"]
       /\ waits' = [waits EXCEPT ![cur'] = 1]
       /\ UNCHANGED <<known, asked, cancelled, chan, inbox, nsent>>

\* Variant: Esc also ends the answer on the screen.
EscStops == /\ streaming
            /\ streaming' = FALSE
            /\ cancelled' = cancelled \union {cur}
            /\ UNCHANGED <<known, asked, cur, buf, log, waits, inbox, streamVars>>

\* Esc cancels the request; the answer ends when its doneMsg comes.
Esc == /\ streaming
       /\ cancelled' = cancelled \union {cur}
       /\ UNCHANGED <<known, asked, streaming, cur, buf, log, waits, inbox, streamVars>>

\* Variant: a chunk that arrives after Esc is thrown away.
ChunkUnlessCancelled ==
  /\ inbox # <<>>
  /\ Head(inbox).n > 0
  /\ inbox' = Tail(inbox)
  /\ IF cur \in cancelled THEN UNCHANGED <<buf, waits>>
     ELSE /\ buf' = Append(buf, Head(inbox))
          /\ waits' = [waits EXCEPT ![cur] = @ + 1]
  /\ UNCHANGED <<known, asked, streaming, cur, cancelled, log, streamVars>>

\* Variant: nothing waits for the next chunk.
ChunkOnly == /\ inbox # <<>>
             /\ Head(inbox).n > 0
             /\ inbox' = Tail(inbox)
             /\ buf' = Append(buf, Head(inbox))
             /\ UNCHANGED <<known, asked, streaming, cur, cancelled, log, waits,
                            streamVars>>

\* A chunk is shown, and the next one of m.stream waited for.
ChunkMsg == /\ inbox # <<>>
            /\ Head(inbox).n > 0
            /\ inbox' = Tail(inbox)
            /\ buf' = Append(buf, Head(inbox))
            /\ waits' = [waits EXCEPT ![cur] = @ + 1]
            /\ UNCHANGED <<known, asked, streaming, cur, cancelled, log, streamVars>>

\* Variant: an answer without content goes into the transcript too.
DoneAlwaysAnswers ==
  /\ inbox # <<>>
  /\ Head(inbox).n = 0
  /\ inbox' = Tail(inbox)
  /\ streaming' = FALSE
  /\ cancelled' = IF streaming THEN cancelled \union {cur} ELSE cancelled
  /\ log' = Append(log, Answer(cur, Len(buf)))
  /\ buf' = <<>>
  /\ UNCHANGED <<known, asked, cur, waits, streamVars>>

\* doneMsg: what was shown becomes the answer, complete or not.
DoneMsg == /\ inbox # <<>>
           /\ Head(inbox).n = 0
           /\ inbox' = Tail(inbox)
           /\ streaming' = FALSE
           /\ cancelled' = IF streaming THEN cancelled \union {cur} ELSE cancelled
           /\ log' = IF buf = <<>> THEN log ELSE Append(log, Answer(cur, Len(buf)))
           /\ buf' = <<>>
           /\ UNCHANGED <<known, asked, cur, waits, streamVars>>
-----------------------------------------------------------------------------
(* waitForChunk *)

\* A closed channel that is empty reads as a doneMsg too.
WaitReturns(s) ==
  /\ waits[s] > 0
  /\ chan[s] # <<>> \/ producer[s] = "over"
  /\ inbox' = Append(inbox, IF chan[s] = <<>> THEN End(s) ELSE Head(chan[s]))
  /\ chan' = [chan EXCEPT ![s] = IF @ = <<>> THEN <<>> ELSE Tail(@)]
  /\ waits' = [waits EXCEPT ![s] = @ - 1]
  /\ UNCHANGED <<known, asked, streaming, cur, cancelled, buf, log, producer, nsent>>
-----------------------------------------------------------------------------
(* runStream *)

loopVars == <<known, asked, streaming, cur, cancelled, buf, log, waits, inbox>>

Room(s) == Len(chan[s]) < ChanCap

\* The last send, then the deferred close.
Finish(s) == /\ Room(s)
             /\ chan' = [chan EXCEPT ![s] = Append(@, End(s))]
             /\ producer' = [producer EXCEPT ![s] = "over"]
             /\ UNCHANGED <<nsent, loopVars>>

\* No answer, a status other than 200, or the context cancelled.
StreamCallFails(s) == producer[s] = "calling" /\ Finish(s)

StreamAnswered(s) == /\ producer[s] = "calling"
                     /\ s \notin cancelled
                     /\ producer' = [producer EXCEPT ![s] = "reading"]
                     /\ UNCHANGED <<chan, nsent, loopVars>>

\* Variant: a chunk that finds the channel full is dropped.
SendOrDrop(s) ==
  /\ producer[s] = "reading"
  /\ nsent[s] < MaxChunks
  /\ nsent' = [nsent EXCEPT ![s] = @ + 1]
  /\ chan' = IF Room(s) THEN [chan EXCEPT ![s] = Append(@, [s |-> s, n |-> nsent'[s]])]
             ELSE chan
  /\ UNCHANGED <<producer, loopVars>>

\* A data line with content; lines read before a cancellation still come.
SendChunk(s) ==
  /\ producer[s] = "reading"
  /\ nsent[s] < MaxChunks
  /\ Room(s)
  /\ nsent' = [nsent EXCEPT ![s] = @ + 1]
  /\ chan' = [chan EXCEPT ![s] = Append(@, [s |-> s, n |-> nsent'[s]])]
  /\ UNCHANGED <<producer, loopVars>>

\* [DONE], a finish_reason, the end of the body, an error or the cancellation.
StreamOver(s) == producer[s] = "reading" /\ Finish(s)

ProducerStep(s) == \/ StreamCallFails(s) \/ StreamAnswered(s)
                   \/ SendChunk(s) \/ StreamOver(s)

TuiNext == \/ WorkersFetched \/ AskNobody \/ Ask \/ Esc \/ ChunkMsg \/ DoneMsg
           \/ \E s \in Streams : WaitReturns(s) \/ ProducerStep(s)

TuiSpec == TuiInit /\ [][TuiNext]_tuiVars

\* The update loop and its commands are scheduled; a cancelled request returns.
\* Nothing obliges the orchestrator to answer or the user to press a key.
TuiFairSpec ==
  /\ TuiSpec
  /\ WF_tuiVars(ChunkMsg)
  /\ WF_tuiVars(DoneMsg)
  /\ \A s \in Streams :
       /\ WF_tuiVars(WaitReturns(s))
       /\ WF_tuiVars(s \in cancelled /\ (StreamCallFails(s) \/ StreamOver(s)))
-----------------------------------------------------------------------------
TuiTypeOK == /\ known \in BOOLEAN /\ asked \in BOOLEAN /\ streaming \in BOOLEAN
             /\ cur \in 0..MaxStreams
             /\ cancelled \subseteq Streams
             /\ buf \in Seq(Msg)
             /\ inbox \in Seq(Msg)
             /\ chan \in [Streams -> Seq(Msg)]
             /\ waits \in [Streams -> Nat]
             /\ producer \in [Streams -> {"none", "calling", "reading", "over"}]
             /\ nsent \in [Streams -> 0..MaxChunks]

\* During an answer exactly one message of its stream is waited for or on its way
\* to the loop, otherwise none: with none the answer would never end, with two
\* it could be shown out of order.
OneListener ==
  /\ \A s \in Streams : (~streaming \/ s # cur) => waits[s] = 0
  /\ (IF streaming THEN waits[cur] ELSE 0) + Len(inbox) = IF streaming THEN 1 ELSE 0

\* What is on the screen is the beginning of the current answer: no chunk is lost,
\* repeated, out of order or left from a cancelled answer.
ShownInOrder == buf = [i \in 1..Len(buf) |-> [s |-> cur, n |-> i]]

\* In the transcript, which is sent back with every question, an answer comes
\* right after its own question.
AnswerFollowsQuestion ==
  \A i \in DOMAIN log : log[i].role = "assistant" =>
     i > 1 /\ log[i - 1] = Question(log[i].s)

\* An answer in the transcript has every chunk that runStream sent.
AnswerIsAll ==
  \A i \in DOMAIN log : log[i].role = "assistant" => log[i].n = nsent[log[i].s]

(* The client implements Dialogue: the channel, the commands and the inbox are how  *)
(* the pieces of an answer get to the screen.                                       *)

Screen == INSTANCE Dialogue
            WITH Most <- MaxStreams,
                 open <- streaming,
                 asked <- cur,
                 spoken <- nsent,
                 over <- {s \in Streams : producer[s] = "over"},
                 shown <- Len(buf),
                 transcript <- log

\* Whenever Enter and Esc are pressed and however the goroutine, the commands and
\* the update loop interleave, the user follows one dialogue: no answer is cut
\* before its last piece is shown, and none runs into the next.
KeepsDialogue == Screen!DialogueSpec
-----------------------------------------------------------------------------
\* Esc ends the answer and its goroutine, even one that is blocked on its
\* channel, and even when the orchestrator never ends the stream.
EscEnds ==
  \A s \in Streams :
     s \in cancelled ~> producer[s] = "over" /\ (cur # s \/ ~streaming)
============================================================================
