----------------------------- MODULE Dialogue -----------------------------
(***************************************************************************)
(* What the terminal client is to its user, whatever goroutines, channels  *)
(* and cancellations carry the answers: one question at a time, an answer  *)
(* that grows on the screen as it is spoken, and a transcript in which the *)
(* whole of it, unless it is empty, comes after its question before the    *)
(* next one is asked.  ChatTUI implements it (ChatTUI!KeepsDialogue).      *)
(***************************************************************************)
EXTENDS Naturals, Sequences

CONSTANT Most  \* questions

VARIABLES open,       \* an answer is awaited
          asked,      \* number of the last question
          spoken,     \* pieces of each answer spoken so far
          over,       \* answers of which nothing more will be spoken
          shown,      \* pieces of the current answer on the screen
          transcript  \* questions and answers

dialogueVars == <<open, asked, spoken, over, shown, transcript>>

Question(q) == [role |-> "user", s |-> q, n |-> 0]
Answer(q, n) == [role |-> "assistant", s |-> q, n |-> n]

DialogueInit == /\ open = FALSE
                /\ asked = 0
                /\ spoken = [q \in 1..Most |-> 0]
                /\ over = {}
                /\ shown = 0
                /\ transcript = <<>>

\* A question that nobody is there to answer.
AskInVain == /\ ~open
             /\ transcript' = Append(transcript, Question(0))
             /\ UNCHANGED <<open, asked, spoken, over, shown>>

Ask == /\ ~open
       /\ asked < Most
       /\ open' = TRUE
       /\ asked' = asked + 1
       /\ transcript' = Append(transcript, Question(asked'))
       /\ UNCHANGED <<spoken, over, shown>>

Speak == /\ open
         /\ asked \notin over
         /\ spoken' = [spoken EXCEPT ![asked] = @ + 1]
         /\ UNCHANGED <<open, asked, over, shown, transcript>>

\* Its end, a failure or the user's Esc.
FallSilent == /\ open
              /\ asked \notin over
              /\ over' = over \union {asked}
              /\ UNCHANGED <<open, asked, spoken, shown, transcript>>

Show == /\ open
        /\ shown < spoken[asked]
        /\ shown' = shown + 1
        /\ UNCHANGED <<open, asked, spoken, over, transcript>>

Settle == /\ open
          /\ asked \in over
          /\ shown = spoken[asked]
          /\ open' = FALSE
          /\ shown' = 0
          /\ transcript' = IF shown = 0 THEN transcript
                           ELSE Append(transcript, Answer(asked, shown))
          /\ UNCHANGED <<asked, spoken, over>>

DialogueNext == AskInVain \/ Ask \/ Speak \/ FallSilent \/ Show \/ Settle

DialogueSpec == DialogueInit /\ [][DialogueNext]_dialogueVars
============================================================================
