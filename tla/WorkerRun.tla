----------------------------- MODULE WorkerRun -----------------------------
(***************************************************************************)
(* The life of a worker process: Run in internal/worker/worker.go, from    *)
(* the installation of llama.cpp to the loop that dials the orchestrator   *)
(* again and again, and the llama-server child it supervises               *)
(* (internal/worker/llama/supervisor.go).  The process is launched again   *)
(* after it has ended or was killed.  What happens inside a session is     *)
(* WorkerSession; how the model is fetched is CatalogFetch.                *)
(***************************************************************************)
EXTENDS LlamaInstall

CONSTANT Launches   \* bound: launches 1..Launches of the worker

ASSUME RunAssumption == Launches \in Nat \ {0}

VARIABLES launch,   \* how many times the worker was launched
          phase,    \* where Run is
          llama,    \* llama[l]: the child of launch l
          stopping, \* the process got SIGINT: ctx is cancelled
          killed    \* launches that ended without running their deferred calls

runVars == <<launch, phase, llama, stopping, killed, installVars>>

Up == {"installing", "extracting", "fetching", "starting", "waiting", "dialing",
       "greeting", "session", "backoff"}
LlamaState == {"none", "loading", "healthy", "exited"}

RunInit == /\ InstallInit
           /\ launch = 0
           /\ phase = "off"
           /\ llama = [l \in 1..Launches |-> "none"]
           /\ stopping = FALSE
           /\ killed = {}

MyLlama == llama[launch]
Alive(l) == llama[l] \in {"loading", "healthy"}

Goes(p) == /\ phase' = p
           /\ UNCHANGED <<launch, llama, stopping, killed>>

\* Supervisor.Stop, and what the end of its context does: the child is killed.
Stopped == IF launch \in DOMAIN llama /\ Alive(launch)
           THEN [llama EXCEPT ![launch] = "exited"] ELSE llama

\* Variant: Run returns without the deferred Stop.
ReturnsOnly == /\ phase' = "off"
               /\ stopping' = FALSE
               /\ InstallStops
               /\ UNCHANGED <<launch, llama, killed>>

\* Run returns, after the deferred Stop once the child was started.
Returns == /\ phase' = "off"
           /\ stopping' = FALSE
           /\ llama' = Stopped
           /\ InstallStops
           /\ UNCHANGED <<launch, killed>>

\* runSession has returned: Run ends too if it was told to, or waits to dial again.
SessionOver == IF stopping THEN Returns ELSE Goes("backoff") /\ UNCHANGED installVars

-----------------------------------------------------------------------------
Launch == /\ phase = "off"
          /\ launch < Launches
          /\ launch' = launch + 1
          /\ phase' = "installing"
          /\ UNCHANGED <<llama, stopping, killed, installVars>>

FindInstalled == /\ phase = "installing"
                 /\ Cached
                 /\ Goes("fetching")
                 /\ UNCHANGED installVars

DownloadZip == /\ phase = "installing"
               /\ Downloaded
               /\ Goes("extracting")

ExtractEntry == /\ phase = "extracting"
                /\ WriteEntry \/ \E e \in Entries : OpenEntry(e)
                /\ UNCHANGED <<launch, phase, llama, stopping, killed>>

EndExtraction == /\ phase = "extracting"
                 /\ Extracted
                 /\ Goes("fetching")
                 /\ UNCHANGED installVars

FetchModel == /\ phase = "fetching"
              /\ Goes("starting")
              /\ UNCHANGED installVars

\* Supervisor.Start; the child is in another process from here on.
StartLlama == /\ phase = "starting"
              /\ ~stopping
              /\ llama' = [llama EXCEPT ![launch] = "loading"]
              /\ phase' = "waiting"
              /\ UNCHANGED <<launch, stopping, killed, installVars>>

\* Installation, fetch or start failed, or their context was cancelled.
StartupFails == /\ phase \in {"installing", "extracting", "fetching", "starting"}
                /\ Returns

\* Variant: the worker dials as soon as the child is started.
DialsAtOnce == /\ phase = "waiting"
               /\ Goes("dialing")
               /\ UNCHANGED installVars

\* WaitReady: /health has answered 200.
SeesReady == /\ phase = "waiting"
             /\ MyLlama = "healthy"
             /\ Goes("dialing")
             /\ UNCHANGED installVars

\* The child exited first, the time ran out or the context was cancelled.
WaitFails == /\ phase = "waiting"
             /\ Returns

\* DialContext and Hello, with the model's name.
Announce == /\ phase = "dialing"
            /\ ~stopping
            /\ Goes("greeting")
            /\ UNCHANGED installVars

DialFails == /\ phase = "dialing"
             /\ SessionOver

\* The Welcome is awaited without a deadline, and without a look at the context
\* or at the child.
Welcomed == /\ phase = "greeting"
            /\ Goes("session")
            /\ UNCHANGED installVars

\* The connection ends while the Welcome is awaited.
NotWelcomed == /\ phase = "greeting"
               /\ SessionOver

\* A loop of the session failed.
ConnectionLost == /\ phase = "session"
                  /\ SessionOver

\* Variant: nobody watches the child.
IgnoresExit == /\ phase = "session"
               /\ MyLlama = "exited"
               /\ UNCHANGED runVars

\* The goroutine that watches Supervisor.Done.
NoticesExit == /\ phase = "session"
               /\ MyLlama = "exited"
               /\ SessionOver

\* The loop dials again, whatever has become of the child.
Redial == /\ phase = "backoff"
          /\ ~stopping
          /\ Goes("dialing")
          /\ UNCHANGED installVars

\* Variant: the wait between two sessions is a plain sleep.
SleepsOn == /\ stopping
            /\ phase \in Up \ {"greeting", "extracting", "backoff"}
            /\ Returns

\* The select statements that have a ctx.Done case, and what takes the context.
NoticesStop == /\ stopping
               /\ phase \in Up \ {"greeting", "extracting"}
               /\ Returns
-----------------------------------------------------------------------------
(* The child, the user and the system *)

\* /health answers once the model is loaded; a llama-server without its
\* libraries never gets there.
LlamaReady(l) == /\ llama[l] = "loading"
                 /\ Complete
                 /\ llama' = [llama EXCEPT ![l] = "healthy"]
                 /\ UNCHANGED <<launch, phase, stopping, killed, installVars>>

LlamaExits(l) == /\ Alive(l)
                 /\ llama' = [llama EXCEPT ![l] = "exited"]
                 /\ UNCHANGED <<launch, phase, stopping, killed, installVars>>

\* SIGINT cancels the context of Run, and with it kills the child
\* (exec.CommandContext).
Interrupt == /\ phase \in Up
             /\ ~stopping
             /\ stopping' = TRUE
             /\ llama' = Stopped
             /\ UNCHANGED <<launch, phase, killed, installVars>>

\* The process is killed, or the machine's user logs off.
Killed == /\ phase \in Up
          /\ phase' = "off"
          /\ stopping' = FALSE
          /\ killed' = killed \union {launch}
          /\ InstallStops
          /\ UNCHANGED <<launch, llama>>

RunStep == \/ FindInstalled \/ DownloadZip \/ ExtractEntry \/ EndExtraction
           \/ FetchModel \/ StartLlama \/ StartupFails
           \/ SeesReady \/ WaitFails
           \/ Announce \/ DialFails \/ Welcomed \/ NotWelcomed
           \/ ConnectionLost \/ NoticesExit \/ Redial \/ NoticesStop

RunNext == \/ Launch \/ RunStep \/ Interrupt \/ Killed
           \/ \E l \in 1..Launches : LlamaReady(l) \/ LlamaExits(l)

RunSpec == RunInit /\ [][RunNext]_runVars

\* Goroutines and selects are scheduled.  Nothing obliges the orchestrator to
\* send a Welcome, a connection to fail or a child to exit.
RunFairSpec == /\ RunSpec
               /\ WF_runVars(ExtractEntry \/ EndExtraction)
               /\ WF_runVars(NoticesExit)
               /\ WF_runVars(NoticesStop)
-----------------------------------------------------------------------------
RunTypeOK == /\ InstallTypeOK
             /\ launch \in 0..Launches
             /\ phase \in Up \union {"off"}
             /\ llama \in [1..Launches -> LlamaState]
             /\ stopping \in BOOLEAN
             /\ killed \subseteq 1..Launches

\* supervisor.go:5, "stops it cleanly when the parent context is cancelled": no
\* llama-server outlives the worker that started it, however Run returns, unless
\* the worker was killed.
NoOrphan ==
  \A l \in 1..Launches : Alive(l) => \/ l = launch /\ phase \in Up
                                     \/ l \in killed

\* README.md:83, "attend que /health reponde OK, puis se declare": a model is
\* announced only after its llama-server was healthy.
AnnouncedWasReady ==
  phase \in {"greeting", "session"} => MyLlama \in {"healthy", "exited"} /\ Complete

\* llama_install.go:25-28, "the whole release zip is extracted": a binary taken
\* from the cache has its libraries beside it, unless an earlier installation
\* was cut short, in whatever order the zip is packed.
FoundIsComplete ==
  phase \in Up \ {"installing", "extracting"} => Complete \/ cut

\* README.md:83, "si llama-server crashe, le worker se deconnecte": an open
\* session ends once llama-server has exited.
ExitEndsSession ==
  phase = "session" /\ MyLlama = "exited" ~> phase # "session"

\* SIGINT ends the worker, except while it waits for a Welcome.
InterruptEnds == stopping ~> phase \in {"off", "greeting"}
============================================================================
