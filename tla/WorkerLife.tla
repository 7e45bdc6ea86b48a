----------------------------- MODULE WorkerLife -----------------------------
(***************************************************************************)
(* A worker process with the heartbeat loop of its sessions: while a       *)
(* session is open (WorkerRun) the loop measures whether the user is away  *)
(* (IdleClock).  The clocks are looked at only then, so the time they have *)
(* reached is chosen anew when a session opens.                            *)
(***************************************************************************)
EXTENDS WorkerRun, IdleClock

lifeVars == <<runVars, idleVars>>

LifeInit == RunInit /\ IdleInit

\* heartbeatLoop runs from the Welcome to the end of the session.
Runs == /\ RunNext
        /\ IF phase' # "session" THEN LoopStops
           ELSE IF phase = "session" THEN UNCHANGED idleVars
           ELSE LoopStarts

Beats == phase = "session" /\ IdleNext /\ UNCHANGED runVars

LifeNext == Runs \/ Beats

LifeSpec == LifeInit /\ [][LifeNext]_lifeVars

LifeFairSpec == /\ LifeSpec
                /\ WF_lifeVars(Runs /\ (ExtractEntry \/ EndExtraction))
                /\ WF_lifeVars(Runs /\ NoticesExit)
                /\ WF_lifeVars(Runs /\ NoticesStop)
=============================================================================
