---------------------------- MODULE PullCommand ----------------------------
(***************************************************************************)
(* griad model pull (cmd/griad/model.go) and the event stream that answers *)
(* it (handlePullModel, internal/server/models.go).  The handler runs the  *)
(* pull of ModelStore and writes its events to the response as it goes: it *)
(* waits while a client that is still there does not read, and writes into *)
(* the void once the client has gone.  The command reads until the stream  *)
(* ends and turns what it has read into an exit code.                      *)
(***************************************************************************)
EXTENDS ModelFiles

CONSTANTS Watched,   \* pulls asked for by the command
          EventCap   \* events the connection holds between write and read

ASSUME EventAssumption == Watched \subseteq Pulls /\ EventCap \in Nat \ {0}

VARIABLES cmd,     \* the command of a pull: none, reads, told, exit0, exit1, killed
          events,  \* events written and not yet read
          due,     \* the event the handler is writing, "no", or "dead": no handler
          lost     \* pulls whose command got no stream, or not all of it

commandVars == <<cmd, events, due, lost>>
pullVars == <<filesVars, commandVars>>

\* start and progress tell the command nothing it keeps.
Event == {"note", "done", "error"}
Settled == {"done", "error", "dead"}

CommandState == {"none", "other", "reads", "told", "exit0", "exit1", "killed"}

CommandInit == /\ cmd = [p \in Pulls |-> "none"]
               /\ events = [p \in Pulls |-> <<>>]
               /\ due = [p \in Pulls |-> "no"]
               /\ lost = {}

PullInit == FilesInit /\ CommandInit

\* Its handler has not returned.
Handled(p) == /\ cmd[p] # "none"
              /\ \/ due[p] \in Event
                 \/ due[p] = "no" /\ pull[p] \notin Settled

Waits(p) == cmd[p] \in {"reads", "told"}
Connected(p) == Waits(p) /\ p \notin lost
-----------------------------------------------------------------------------
(* handlePullModel *)

\* The request arrives, and the handler writes its start event.
Ask(p) ==
  /\ cmd[p] = "none"
  /\ Overlap \/ \A q \in Pulls : ~Handled(q)
  /\ IF p \in Watched
     THEN /\ cmd' = [cmd EXCEPT ![p] = "reads"]
          /\ due' = [due EXCEPT ![p] = "note"]
     ELSE /\ cmd' = [cmd EXCEPT ![p] = "other"]
          /\ due' = due
  /\ UNCHANGED <<filesVars, events, lost>>

\* No orchestrator answers the command, or one with a status other than 200: no
\* pull is started.
AskFails(p) ==
  /\ cmd[p] = "none"
  /\ p \in Watched
  /\ cmd' = [cmd EXCEPT ![p] = "exit1"]
  /\ due' = [due EXCEPT ![p] = "dead"]
  /\ lost' = lost \union {p}
  /\ UNCHANGED <<filesVars, events>>

\* Variant: emit waits for room, whether or not the client is there.
EmitWaits(p) ==
  /\ due[p] \in Event
  /\ due' = [due EXCEPT ![p] = "no"]
  /\ Len(events[p]) < EventCap
  /\ events' = [events EXCEPT ![p] = IF Connected(p) THEN Append(@, due[p]) ELSE @]
  /\ UNCHANGED <<filesVars, cmd, lost>>

\* emit ignores the error of a Write to a client that has gone.
Emit(p) ==
  /\ due[p] \in Event
  /\ due' = [due EXCEPT ![p] = "no"]
  /\ \/ /\ Connected(p)
        /\ Len(events[p]) < EventCap
        /\ events' = [events EXCEPT ![p] = Append(@, due[p])]
     \/ ~Connected(p) /\ events' = events
  /\ UNCHANGED <<filesVars, cmd, lost>>

\* A step of the pull, and the event it makes due: progress at most every 250 ms
\* while blocks come, and once more at their end; the outcome when pull returns.
PullMoves(p) ==
  /\ cmd[p] # "none"
  /\ due[p] = "no"
  /\ PullStep(p)
  /\ \E e \in IF p \notin Watched THEN {"no"}
             ELSE IF pull'[p] \in {"done", "error"} THEN {pull'[p]}
             ELSE IF pull'[p] = "copied" /\ pull[p] = "copying" THEN {"note"}
             ELSE IF off'[p] # off[p] THEN {"note", "no"}
             ELSE {"no"} :
       due' = [due EXCEPT ![p] = e]
  /\ UNCHANGED <<cacheVars, cmd, events, lost>>

\* The orchestrator is killed, and its handlers with it.
OrchestratorDies ==
  /\ \E p \in Pulls : Handled(p)
  /\ IF \E p \in Pulls : pull[p] \in Running THEN StoreCrash
     ELSE UNCHANGED storeVars
  /\ due' = [p \in Pulls |-> IF Handled(p) THEN "dead" ELSE due[p]]
  /\ lost' = lost \union {p \in Pulls : Waits(p) /\ Handled(p)}
  /\ UNCHANGED <<cacheVars, cmd, events>>
-----------------------------------------------------------------------------
(* griad model pull *)

\* Variant: only an error event makes the command fail.
ReadsForError(p) ==
  /\ Waits(p)
  /\ events[p] # <<>>
  /\ events' = [events EXCEPT ![p] = Tail(@)]
  /\ cmd' = [cmd EXCEPT ![p] = IF Head(events[p]) = "error" THEN "reads" ELSE "told"]
  /\ UNCHANGED <<filesVars, due, lost>>

\* The exit code becomes 0 when the done event is read.
ReadEvent(p) ==
  /\ Waits(p)
  /\ events[p] # <<>>
  /\ events' = [events EXCEPT ![p] = Tail(@)]
  /\ cmd' = [cmd EXCEPT ![p] = IF Head(events[p]) = "done" THEN "told" ELSE @]
  /\ UNCHANGED <<filesVars, due, lost>>

\* The stream has ended, or a broken connection ends the scan with events still
\* to be read.
Exit(p) ==
  /\ Waits(p)
  /\ \/ ~Handled(p) /\ events[p] = <<>>
     \/ p \in lost
  /\ cmd' = [cmd EXCEPT ![p] = IF @ = "told" THEN "exit0" ELSE "exit1"]
  /\ events' = [events EXCEPT ![p] = <<>>]
  /\ UNCHANGED <<filesVars, due, lost>>

Interrupted(p) ==
  /\ Waits(p)
  /\ cmd' = [cmd EXCEPT ![p] = "killed"]
  /\ events' = [events EXCEPT ![p] = <<>>]
  /\ UNCHANGED <<filesVars, due, lost>>

ConnectionBreaks(p) ==
  /\ Connected(p)
  /\ lost' = lost \union {p}
  /\ UNCHANGED <<filesVars, cmd, events, due>>
-----------------------------------------------------------------------------
PullNext == \/ \E p \in Pulls : \/ Ask(p) \/ AskFails(p) \/ Emit(p) \/ PullMoves(p)
                                \/ ReadEvent(p) \/ Exit(p) \/ Interrupted(p)
                                \/ ConnectionBreaks(p)
            \/ OrchestratorDies
            \/ FetchNext /\ UNCHANGED commandVars

PullSpec == PullInit /\ [][PullNext]_pullVars

CommandTypeOK == /\ cmd \in [Pulls -> CommandState]
                 /\ events \in [Pulls -> Seq(Event)]
                 /\ \A p \in Pulls : Len(events[p]) <= EventCap
                 /\ due \in [Pulls -> Event \union {"no", "dead"}]
                 /\ lost \subseteq Pulls

PullTypeOK == FilesTypeOK /\ CommandTypeOK

\* The command exits with 0 only if its own pull has published the model, and with
\* 1, on a connection that held, only if the pull failed (model.go:122-167).
ExitTellsOutcome ==
  \A p \in Pulls :
     /\ cmd[p] \in {"told", "exit0"} => pull[p] = "done" /\ final # None
     /\ cmd[p] = "exit1" /\ p \notin lost => pull[p] = "error"

(* A catalog implements CatalogService: what a file's name leads to, and what the   *)
(* states of a pull, a launch and a command mean to those who wait for them.        *)

Contents(d, file) == IF file = None THEN <<>> ELSE d[file]

OutcomeOf(p) == IF pull[p] \in {"done", "error", "dead"} THEN pull[p] ELSE "open"

LaunchOf(f) == CASE fetch[f] \in Fetching \union {"idle"} -> "open"
                 [] fetch[f] = "have" -> "ready"
                 [] OTHER -> "stopped"

ToldBy(p) == CASE cmd[p] = "exit0" -> "success"
               [] cmd[p] = "exit1" -> "failure"
               [] OTHER -> "nothing"

Service == INSTANCE CatalogService
             WITH Versions <- {Model(v) : v \in Gguf},
                  Nothing <- <<>>,
                  listed <- Contents(data, final),
                  cached <- Contents(cdata, target),
                  outcome <- [p \in Pulls |-> OutcomeOf(p)],
                  launch <- [f \in Fetches |-> LaunchOf(f)],
                  given <- [f \in Fetches |-> Contents(data, body[f])],
                  cut <- lost,
                  told <- [p \in Pulls |-> ToldBy(p)]

\* However a model is written and read, block by block, under temporary names, by
\* processes that are killed: it is published at one moment, given as it was at one
\* moment, cached only as it was given, and reported as it was pulled.
ServesModels == Service!ServiceSpec
-----------------------------------------------------------------------------
\* The errors of Write are dropped (models.go:230-232), so the handler of a command
\* that has gone waits for nothing: whatever it was doing, it has a step that needs
\* neither a reader nor the source.
GoneNeverBlocks ==
  \A p \in Watched : Handled(p) /\ ~Connected(p) =>
     ENABLED (Emit(p) \/ (PullMoves(p) /\ off' = off))
============================================================================
