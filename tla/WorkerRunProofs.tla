-------------------------- MODULE WorkerRunProofs --------------------------
(***************************************************************************)
(* Proofs about WorkerRun, for any zip and any number of launches, and     *)
(* about WorkerLife, for any width of the tick counter and any threshold.  *)
(***************************************************************************)
EXTENDS WorkerLife, TLAPS

\* The phases after the installation, and those after WaitReady.
Installed == Up \ {"installing", "extracting"}
Serving == {"dialing", "greeting", "session", "backoff"}

\* Before StartLlama the launch has no child; after WaitReady it had a healthy
\* one, which may have exited since.
ChildOfPhase ==
  /\ launch = 0 => phase = "off"
  /\ \A l \in 1..Launches : l > launch => llama[l] = "none"
  /\ phase \in {"installing", "extracting", "fetching", "starting"} => MyLlama = "none"
  /\ phase \in Serving => MyLlama \in {"healthy", "exited"}

\* No child is started without a binary, so an extraction, which needs a missing
\* one, disturbs none.
ChildHasBinary ==
  /\ phase \in Installed => Cached
  /\ \A l \in 1..Launches : llama[l] # "none" => Cached /\ phase # "extracting"
  /\ \A l \in 1..Launches : llama[l] = "healthy" => Complete
  /\ phase \in Serving => Complete

\* What an installation leaves when none was ever cut short.
Uncut ==
  /\ phase # "extracting" => todo = {} /\ open = None
  /\ open # None => open \in todo
  /\ ~cut =>
       IF phase = "extracting"
       THEN /\ \A e \in Entries \ todo : disk[e] = "whole"
            /\ \A e \in todo \ {open} : disk[e] = "missing"
       ELSE Complete \/ \A e \in Entries : disk[e] = "missing"

RunInv == RunTypeOK /\ ChildOfPhase /\ ChildHasBinary /\ Uncut /\ NoOrphan

LEMMA RunInvInit ==
  ASSUME RunInit
  PROVE  RunInv
<1> USE InstallAssumption, RunAssumption
    DEF RunInit, InstallInit, Up, Installed, Serving, LlamaState, Cached, Complete
<1>1. RunTypeOK
  <2>1. InstallTypeOK
    BY DEF InstallTypeOK
  <2>2. launch \in 0..Launches /\ phase \in Up \union {"off"}
    OBVIOUS
  <2>3. llama \in [1..Launches -> LlamaState]
    OBVIOUS
  <2>4. stopping \in BOOLEAN /\ killed \subseteq 1..Launches
    OBVIOUS
  <2>5. QED
    BY <2>1, <2>2, <2>3, <2>4 DEF RunTypeOK
<1>2. ChildOfPhase /\ ChildHasBinary /\ NoOrphan
  BY DEF ChildOfPhase, ChildHasBinary, NoOrphan, Alive
<1>3. Uncut
  BY DEF Uncut
<1>4. QED
  BY <1>1, <1>2, <1>3 DEF RunInv

LEMMA RunInvStep ==
  ASSUME RunInv, [RunNext]_runVars
  PROVE  RunInv'
<1> USE InstallAssumption, RunAssumption
    DEF RunInv, RunTypeOK, InstallTypeOK, ChildOfPhase, ChildHasBinary, Uncut, NoOrphan,
        Up, LlamaState, Installed, Serving, Alive, Cached, Complete, Goes, MyLlama,
        installVars
<1>1. CASE Launch
  BY <1>1 DEF Launch
<1>2. CASE FindInstalled \/ FetchModel \/ EndExtraction
  BY <1>2 DEF FindInstalled, FetchModel, EndExtraction, Extracted
<1>3. CASE DownloadZip
  BY <1>3 DEF DownloadZip, Downloaded
<1>4. CASE ExtractEntry
  <2>1. CASE WriteEntry
    BY <1>4, <2>1 DEF ExtractEntry, WriteEntry
  <2>2. ASSUME NEW e \in Entries, OpenEntry(e) PROVE RunInv'
    BY <1>4, <2>2 DEF ExtractEntry, OpenEntry
  <2>3. QED
    BY <1>4, <2>1, <2>2 DEF ExtractEntry
<1>5. CASE StartLlama
  BY <1>5 DEF StartLlama
<1>6. CASE SeesReady \/ Announce \/ Welcomed \/ Redial
  <2>1. /\ phase' \in Serving /\ phase \in Serving \union {"waiting"}
        /\ phase = "waiting" => MyLlama = "healthy"
        /\ UNCHANGED <<launch, llama, stopping, killed, disk, todo, open, cut>>
    BY <1>6 DEF SeesReady, Announce, Welcomed, Redial
  <2>2. launch \in 1..Launches
    BY <2>1
  <2>3. Complete /\ MyLlama \in {"healthy", "exited"}
    BY <2>1, <2>2
  <2>4. RunTypeOK' /\ Uncut'
    BY <2>1
  <2>5. ChildOfPhase' /\ ChildHasBinary' /\ NoOrphan'
    BY <2>1, <2>3
  <2>6. QED
    BY <2>4, <2>5
<1>7. ASSUME phase \in Up, Returns PROVE RunInv'
  <2>1. /\ phase' = "off" /\ stopping' = FALSE /\ launch' = launch /\ killed' = killed
        /\ disk' = disk /\ todo' = {} /\ open' = None
        /\ cut' = (cut \/ open # None \/ todo \notin {{}, Entries})
        /\ llama' = IF launch \in 1..Launches /\ Alive(launch)
                    THEN [llama EXCEPT ![launch] = "exited"] ELSE llama
    BY <1>7 DEF Returns, Stopped, InstallStops
  <2>2. launch \in 1..Launches
    BY <1>7
  <2>3. \A l \in 1..Launches : llama'[l] # llama[l] => llama'[l] = "exited" /\ llama[l] # "none"
    BY <2>1
  <2>4. RunTypeOK'
    BY <2>1, <2>3
  <2>5. ChildOfPhase' /\ ChildHasBinary'
    BY <2>1, <2>3
  <2>6. ~Alive(launch)'
    BY <2>1, <2>2
  <2>7. NoOrphan'
    BY <2>1, <2>3, <2>6
  <2>8. Uncut'
    BY <2>1
  <2>9. QED
    BY <2>4, <2>5, <2>7, <2>8
<1>8. CASE StartupFails \/ WaitFails \/ NoticesStop
  BY <1>7, <1>8 DEF StartupFails, WaitFails, NoticesStop
<1>9. CASE DialFails \/ NotWelcomed \/ ConnectionLost \/ NoticesExit
  <2>1. phase \in Serving
    BY <1>9 DEF DialFails, NotWelcomed, ConnectionLost, NoticesExit
  <2>2. CASE Goes("backoff") /\ UNCHANGED installVars
    BY <2>1, <2>2
  <2>3. QED
    BY <1>7, <1>9, <2>1, <2>2 DEF DialFails, NotWelcomed, ConnectionLost, NoticesExit,
       SessionOver
<1>10. CASE Interrupt
  <2>1. launch \in 1..Launches /\ phase' = phase /\ launch' = launch /\ killed' = killed
        /\ stopping' = TRUE /\ UNCHANGED installVars
        /\ llama' = IF Alive(launch) THEN [llama EXCEPT ![launch] = "exited"] ELSE llama
    BY <1>10 DEF Interrupt, Stopped
  <2>2. \A l \in 1..Launches :
          llama'[l] # llama[l] => l = launch /\ llama'[l] = "exited" /\ llama[l] # "none"
    BY <2>1
  <2>3. RunTypeOK' /\ Uncut'
    BY <2>1
  <2>4. ChildOfPhase' /\ ChildHasBinary' /\ NoOrphan'
    BY <2>1, <2>2
  <2>5. QED
    BY <2>3, <2>4
<1>11. CASE Killed
  <2>1. /\ phase \in Up /\ phase' = "off" /\ stopping' = FALSE /\ launch' = launch
        /\ llama' = llama /\ killed' = killed \union {launch}
        /\ disk' = disk /\ todo' = {} /\ open' = None
        /\ cut' = (cut \/ open # None \/ todo \notin {{}, Entries})
    BY <1>11 DEF Killed, InstallStops
  <2>2. launch \in 1..Launches
    BY <2>1
  <2>3. RunTypeOK'
    BY <2>1, <2>2
  <2>4. ChildOfPhase' /\ ChildHasBinary'
    BY <2>1
  <2>5. NoOrphan'
    BY <2>1
  <2>6. Uncut'
    BY <2>1
  <2>7. QED
    BY <2>3, <2>4, <2>5, <2>6
<1>12. ASSUME NEW l \in 1..Launches, LlamaReady(l) PROVE RunInv'
  BY <1>12 DEF LlamaReady
<1>13. ASSUME NEW l \in 1..Launches, LlamaExits(l) PROVE RunInv'
  BY <1>13 DEF LlamaExits
<1>14. CASE UNCHANGED runVars
  BY <1>14 DEF runVars
<1>15. QED
  BY <1>1, <1>2, <1>3, <1>4, <1>5, <1>6, <1>8, <1>9, <1>10, <1>11, <1>12, <1>13, <1>14
     DEF RunNext, RunStep

LEMMA RunInvHolds == RunSpec => []RunInv
BY RunInvInit, RunInvStep, PTL DEF RunSpec

\* Every variable of the worker's life keeps its type.
THEOREM RunTyped == RunSpec => []RunTypeOK
<1>1. RunInv => RunTypeOK
  BY DEF RunInv
<1>2. QED
  BY <1>1, RunInvHolds, PTL

\* No llama-server outlives a worker that was not killed.
THEOREM ChildNeverOrphaned == RunSpec => []NoOrphan
<1>1. RunInv => NoOrphan
  BY DEF RunInv
<1>2. QED
  BY <1>1, RunInvHolds, PTL

\* A model is announced only after its llama-server was healthy.
THEOREM OnlyReadyAnnounced == RunSpec => []AnnouncedWasReady
<1>1. RunInv => AnnouncedWasReady
  BY DEF RunInv, ChildOfPhase, ChildHasBinary, AnnouncedWasReady, Serving
<1>2. QED
  BY <1>1, RunInvHolds, PTL

\* An installation that was never cut short is complete when it is found.
THEOREM FoundStaysComplete == RunSpec => []FoundIsComplete
<1>1. RunInv => FoundIsComplete
  BY InstallAssumption
     DEF RunInv, RunTypeOK, InstallTypeOK, ChildHasBinary, Uncut, FoundIsComplete,
         Installed, Up, Cached, Complete
<1>2. QED
  BY <1>1, RunInvHolds, PTL
-----------------------------------------------------------------------------
(* WorkerLife *)

\* A worker with its heartbeat loop is a worker.
THEOREM LifeRefinesRun == LifeSpec => RunSpec
<1>1. LifeInit => RunInit
  BY DEF LifeInit
<1>2. [LifeNext]_lifeVars => [RunNext]_runVars
  BY DEF LifeNext, Runs, Beats, lifeVars
<1>3. QED
  BY <1>1, <1>2, PTL DEF LifeSpec, RunSpec

LEMMA Division ==
  ASSUME NEW a \in Int
  PROVE  \E k \in Int, r \in 0..(Wrap - 1) : a = (Wrap * k) + r /\ r = a % Wrap
<1>1. /\ a % Wrap \in 0..(Wrap - 1)
      /\ a \div Wrap \in Int
      /\ a = (Wrap * (a \div Wrap)) + (a % Wrap)
  BY ClockAssumption
<1>2. QED
  BY <1>1

LEMMA ShortMultiple ==
  ASSUME NEW j \in Int, NEW d \in Int, Wrap * j = d, d < Wrap, d > 0 - Wrap
  PROVE  d = 0
<1>1. j >= 1 => Wrap * j >= Wrap
  BY ClockAssumption
<1>2. j <= 0 - 1 => Wrap * j <= 0 - Wrap
  BY ClockAssumption
<1>3. j = 0
  BY <1>1, <1>2, ClockAssumption
<1>4. QED
  BY <1>3, ClockAssumption

LEMMA Distributes ==
  ASSUME NEW a \in Int, NEW b \in Int
  PROVE  /\ Wrap * a \in Int
         /\ Wrap * (a - b) = (Wrap * a) - (Wrap * b)
BY ClockAssumption

LEMMA RemainderIsUnique ==
  ASSUME NEW a \in Int, NEW q \in Int, NEW r \in 0..(Wrap - 1), a = (Wrap * q) + r
  PROVE  a % Wrap = r
<1>1. PICK p \in Int, s \in 0..(Wrap - 1) : a = (Wrap * p) + s /\ s = a % Wrap
  BY Division
<1> DEFINE P == Wrap * p
           Q == Wrap * q
<1>2. P \in Int /\ Q \in Int /\ Wrap * (p - q) = P - Q
  BY Distributes
<1>3. a = P + s /\ a = Q + r
  BY <1>1
<1> HIDE DEF P, Q
<1>4. P - Q = r - s
  BY <1>2, <1>3, ClockAssumption
<1>5. p - q \in Int /\ r - s \in Int /\ r - s < Wrap /\ r - s > 0 - Wrap
  BY ClockAssumption
<1>6. r - s = 0
  BY <1>2, <1>4, <1>5, ShortMultiple
<1>7. r = s
  <2>1. r \in Int /\ s \in Int
    BY ClockAssumption
  <2>2. QED
    BY <1>6, <2>1
<1>8. QED
  BY <1>1, <1>7

\* The difference of two ticks, in the width of the counter, is the difference
\* of the times they stand for.
LEMMA TicksSubtract ==
  ASSUME NEW a \in Int, NEW b \in Int
  PROVE  ((a % Wrap) - (b % Wrap)) % Wrap = (a - b) % Wrap
<1>1. PICK p \in Int, r \in 0..(Wrap - 1) : a = (Wrap * p) + r /\ r = a % Wrap
  BY Division
<1>2. PICK q \in Int, s \in 0..(Wrap - 1) : b = (Wrap * q) + s /\ s = b % Wrap
  BY Division
<1>3. PICK k \in Int, t \in 0..(Wrap - 1) : a - b = (Wrap * k) + t /\ t = (a - b) % Wrap
  <2>1. a - b \in Int
    OBVIOUS
  <2>2. QED
    BY <2>1, Division
<1> DEFINE m == p - q
           j == k - m
           u == r - s
<1>4. m \in Int /\ Wrap * m = (Wrap * p) - (Wrap * q)
  BY Distributes
<1>5. j \in Int /\ Wrap * j = (Wrap * k) - (Wrap * m)
  BY <1>4, Distributes
<1>6. u \in Int /\ u = r - s
  BY ClockAssumption
<1>7. u = (Wrap * j) + t
  <2> DEFINE P == Wrap * p
             Q == Wrap * q
             K == Wrap * k
             M == Wrap * m
             J == Wrap * j
  <2>1. P \in Int /\ Q \in Int /\ K \in Int /\ M \in Int /\ J \in Int
    BY <1>4, <1>5, Distributes
  <2>2. a = P + r /\ b = Q + s /\ a - b = K + t /\ M = P - Q /\ J = K - M
    BY <1>1, <1>2, <1>3, <1>4, <1>5
  <2> HIDE DEF P, Q, K, M, J, u
  <2>3. u = J + t
    BY <2>1, <2>2, <1>6, ClockAssumption
  <2>4. QED
    BY <2>3 DEF J
<1> HIDE DEF j, u
<1>8. u % Wrap = t
  BY <1>5, <1>6, <1>7, RemainderIsUnique
<1>9. QED
  BY <1>1, <1>2, <1>3, <1>6, <1>8

\* Counted modulo Wrap, a time never grows, and a time below Wrap is exact.
LEMMA RemainderBounds ==
  ASSUME NEW d \in Nat
  PROVE  d % Wrap <= d /\ (d < Wrap => d % Wrap = d)
<1>0. d \in Int
  OBVIOUS
<1>1. PICK k \in Int, r \in 0..(Wrap - 1) : d = (Wrap * k) + r /\ r = d % Wrap
  BY <1>0, Division
<1>2. ASSUME k <= 0 - 1 PROVE FALSE
  <2>1. Wrap * k <= 0 - Wrap
    BY <1>2, ClockAssumption
  <2>2. QED
    BY <1>1, <2>1, Distributes, ClockAssumption
<1>3. k >= 0 /\ Wrap * k >= 0
  BY <1>2, ClockAssumption
<1>4. r <= d
  BY <1>1, <1>3, Distributes, ClockAssumption
<1>5. d < Wrap => d % Wrap = d
  <2>1. Wrap * 0 = 0
    BY ClockAssumption
  <2>2. d < Wrap => d \in 0..(Wrap - 1) /\ d = (Wrap * 0) + d
    BY <2>1, ClockAssumption
  <2>3. QED
    BY <2>2, RemainderIsUnique
<1>6. QED
  BY <1>1, <1>4, <1>5

\* What has been read is the tick of the input it is held for.
TickOfSeen == dwTime # Unread => dwTime = seen % Wrap

\* Between two sessions nothing is measured.
Dormant == phase # "session" => seen = 0 /\ dwTime = Unread

IdleInv == IdleTypeOK /\ TickOfSeen /\ Dormant

LEMMA IdleInvInit ==
  ASSUME IdleInit
  PROVE  IdleInv
BY ClockAssumption DEF IdleInit, IdleInv, IdleTypeOK, TickOfSeen, Dormant

LEMMA IdleInvStep ==
  ASSUME IdleInv, [LifeNext]_lifeVars
  PROVE  IdleInv'
<1> USE ClockAssumption DEF IdleInv, IdleTypeOK, TickOfSeen, Dormant
<1>1. CASE LoopStarts /\ phase # "session" /\ phase' = "session"
  BY <1>1 DEF LoopStarts
<1>2. CASE LoopStops
  BY <1>2 DEF LoopStops
<1>3. CASE Beats
  <2> USE <1>3 DEF Beats, runVars
  <2>1. CASE TimePasses \/ UserActs
    BY <2>1 DEF TimePasses, UserActs
  <2>2. CASE GetLastInputInfo
    <3>1. seen' = input /\ dwTime' = input % Wrap /\ UNCHANGED <<clock, input, idle>>
      BY <2>2 DEF GetLastInputInfo, Tick
    <3>2. input \in Int /\ input % Wrap \in 0..(Wrap - 1)
      OBVIOUS
    <3>3. QED
      BY <3>1, <3>2
  <2>3. CASE LastInputFails
    BY <2>3 DEF LastInputFails, IsIdle
  <2>4. CASE GetTickCount
    BY <2>4 DEF GetTickCount, IsIdle
  <2>5. QED
    BY <2>1, <2>2, <2>3, <2>4 DEF IdleNext
<1>4. CASE UNCHANGED idleVars /\ (phase # "session" <=> phase' # "session")
  BY <1>4 DEF idleVars
<1>5. QED
  BY <1>1, <1>2, <1>3, <1>4 DEF LifeNext, Runs, lifeVars, runVars

LEMMA IdleInvHolds == LifeSpec => []IdleInv
<1>1. LifeInit => IdleInv
  BY IdleInvInit DEF LifeInit
<1>2. IdleInv /\ [LifeNext]_lifeVars => IdleInv'
  BY IdleInvStep
<1>3. QED
  BY <1>1, <1>2, PTL DEF LifeSpec

\* A heartbeat says that the user is away exactly if nothing was touched for the
\* threshold, in spite of the wrap of the counter and of input between the two
\* system calls; an absence longer than a turn of the counter may look short.
THEOREM AwayMeasured == LifeSpec => AwayIsMeasured
<1> DEFINE Measured ==
             dwTime # Unread /\ dwTime' = Unread /\ idle' # Unread =>
               /\ idle' => clock - seen >= Threshold
               /\ clock - seen \in Threshold..(Wrap - 1) => idle'
<1>1. ASSUME IdleInv, [LifeNext]_lifeVars PROVE [Measured]_idleVars
  <2> SUFFICES ASSUME dwTime # Unread, dwTime' = Unread, idle' # Unread
               PROVE  /\ idle' => clock - seen >= Threshold
                      /\ clock - seen \in Threshold..(Wrap - 1) => idle'
    OBVIOUS
  <2>1. GetTickCount
    BY <1>1 DEF LifeNext, Runs, Beats, IdleNext, lifeVars, idleVars, LoopStarts, LoopStops,
       TimePasses, UserActs, GetLastInputInfo, LastInputFails
  <2>2. clock - seen \in Nat /\ clock \in Int /\ seen \in Int
    BY <1>1, ClockAssumption DEF IdleInv, IdleTypeOK
  <2>3. Elapsed(dwTime, Tick(clock)) = (clock - seen) % Wrap
    BY <1>1, <2>2, TicksSubtract DEF IdleInv, TickOfSeen, Elapsed, Tick
  <2>4. /\ (clock - seen) % Wrap <= clock - seen
        /\ clock - seen < Wrap => (clock - seen) % Wrap = clock - seen
    BY <2>2, RemainderBounds
  <2>5. idle' = (Threshold <= 0 \/ (clock - seen) % Wrap >= Threshold)
    BY <2>1, <2>3 DEF GetTickCount, IsIdle
  <2> DEFINE d == clock - seen
             e == (clock - seen) % Wrap
  <2>6. e \in Nat
    BY <2>2, ClockAssumption
  <2>7. d \in Nat /\ e <= d /\ (d < Wrap => e = d)
        /\ idle' = (Threshold <= 0 \/ e >= Threshold)
    BY <2>2, <2>4, <2>5
  <2> HIDE DEF d, e
  <2>8. /\ (Threshold <= 0 \/ e >= Threshold) => d >= Threshold
        /\ d \in Threshold..(Wrap - 1) => e >= Threshold
    BY <2>6, <2>7, ClockAssumption
  <2>9. /\ idle' => d >= Threshold
        /\ d \in Threshold..(Wrap - 1) => idle'
    BY <2>7, <2>8
  <2>10. QED
    BY <2>9 DEF d
<1>2. QED
  BY <1>1, IdleInvHolds, PTL DEF LifeSpec, AwayIsMeasured
============================================================================
