---------------------------- MODULE ChatService ----------------------------
(***************************************************************************)
(* What the grid promises for each chat request, whatever goroutines,      *)
(* connections and buffers carry it out: a request that is refused is      *)
(* never run, one that is accepted is run at most once, its client sees    *)
(* the lines of that one run in their order, and a stream that ends        *)
(* without error was run to its end and, unless a full buffer lost a line, *)
(* is whole.  Grid implements it (Grid!ServesChats).                       *)
(***************************************************************************)
EXTENDS Integers, Sequences

CONSTANTS Reqs,   \* chat requests
          Lines   \* most lines of an answer

VARIABLES client,  \* what the client of a request was told
          run,     \* the run of llama-server for a request
          made,    \* lines the run has produced
          shown,   \* lines the client has received
          lossy    \* requests of which a full buffer lost a line

serviceVars == <<client, run, made, shown, lossy>>

ClientState == {"waits", "refused", "reads", "whole", "short"}
RunState == {"none", "begun", "answered", "broken"}

ServiceTypeOK == /\ client \in [Reqs -> ClientState]
                 /\ run \in [Reqs -> RunState]
                 /\ made \in [Reqs -> 0..Lines]
                 /\ shown \in [Reqs -> Seq(1..Lines)]
                 /\ lossy \subseteq Reqs

ServiceInit == /\ client = [r \in Reqs |-> "waits"]
               /\ run = [r \in Reqs |-> "none"]
               /\ made = [r \in Reqs |-> 0]
               /\ shown = [r \in Reqs |-> <<>>]
               /\ lossy = {}

\* The number of the last line the client has.
Last(r) == IF shown[r] = <<>> THEN 0 ELSE shown[r][Len(shown[r])]

Accept(r) == /\ client[r] = "waits"
             /\ client' = [client EXCEPT ![r] = "reads"]
             /\ UNCHANGED <<run, made, shown, lossy>>

\* The run may begin after the client has left: nobody calls it back.
Begin(r) == /\ client[r] \notin {"waits", "refused"}
            /\ run[r] = "none"
            /\ run' = [run EXCEPT ![r] = "begun"]
            /\ UNCHANGED <<client, made, shown, lossy>>

Produce(r) == /\ run[r] = "begun"
              /\ made[r] < Lines
              /\ made' = [made EXCEPT ![r] = @ + 1]
              /\ lossy' \in {lossy, lossy \union {r}}
              /\ UNCHANGED <<client, run, shown>>

Finish(r) == /\ run[r] = "begun"
             /\ \E end \in {"answered", "broken"} : run' = [run EXCEPT ![r] = end]
             /\ UNCHANGED <<client, made, shown, lossy>>

\* Somewhere on its way to the client a line finds a buffer full.
Lose(r) == /\ lossy' = lossy \union {r}
           /\ UNCHANGED <<client, run, made, shown>>

\* The next line, or a later one once some were lost.
Show(r) == /\ client[r] = "reads"
           /\ \E n \in (Last(r) + 1)..made[r] :
                /\ n = Last(r) + 1 \/ r \in lossy
                /\ shown' = [shown EXCEPT ![r] = Append(@, n)]
           /\ UNCHANGED <<client, run, made, lossy>>

EndWhole(r) == /\ client[r] = "reads"
               /\ run[r] = "answered"
               /\ Last(r) = made[r] \/ r \in lossy
               /\ client' = [client EXCEPT ![r] = "whole"]
               /\ UNCHANGED <<run, made, shown, lossy>>

\* Requests that are refused, fail or are left by their clients: one at a time, or
\* all that are under way when the orchestrator stops.
GiveUp(S) == /\ \A r \in S : client[r] \in {"waits", "reads"}
             /\ client' = [r \in Reqs |->
                  IF r \notin S THEN client[r]
                  ELSE IF client[r] = "waits" THEN "refused" ELSE "short"]
             /\ UNCHANGED <<run, made, shown, lossy>>

ServiceNext == \/ \E r \in Reqs : \/ Accept(r) \/ Begin(r) \/ Produce(r)
                                  \/ Finish(r) \/ Lose(r)
                                  \/ Show(r) \/ EndWhole(r)
               \/ \E S \in SUBSET Reqs : GiveUp(S)

ServiceSpec == ServiceInit /\ [][ServiceNext]_serviceVars
-----------------------------------------------------------------------------
\* A stream that ended without error is the whole answer of a run that reached
\* its end, unless a full buffer lost a line.
WholeIsWhole ==
  \A r \in Reqs : client[r] = "whole" =>
     /\ run[r] = "answered"
     /\ r \in lossy \/ shown[r] = [n \in 1..made[r] |-> n]

\* Lines come in order, each once, and only after they were produced.
Ascending ==
  \A r \in Reqs : /\ \A i, j \in DOMAIN shown[r] : i < j => shown[r][i] < shown[r][j]
                  /\ \A i \in DOMAIN shown[r] : shown[r][i] <= made[r]

\* A refused request is never run.
RefusedNeverRuns ==
  \A r \in Reqs : client[r] \in {"waits", "refused"} => run[r] = "none"
============================================================================
