----------------------------- MODULE IdleClock -----------------------------
(***************************************************************************)
(* How a worker decides that its user is away: computeIdle in              *)
(* internal/worker/worker.go and SinceLastInput in                         *)
(* internal/worker/idle/idle_windows.go.  Windows counts milliseconds since*)
(* boot in 32 bits, and the tick of the last input and the tick of now are *)
(* read by two system calls; the user may touch the keyboard, and the      *)
(* counter may wrap, between them.                                         *)
(***************************************************************************)
EXTENDS Integers

CONSTANTS Wrap,       \* ticks before the counter starts again at 0 (2^32)
          Threshold,  \* --idle-threshold
          MaxClock,   \* bound on the clock
          Unread      \* no call has been made, no heartbeat sent

ASSUME ClockAssumption == /\ Wrap \in Nat \ {0}
                          /\ Threshold \in Nat
                          /\ MaxClock \in Nat
                          /\ Unread \notin Nat \union BOOLEAN

VARIABLES clock,   \* time since boot
          input,   \* when the user last touched the keyboard or the mouse
          dwTime,  \* what GetLastInputInfo returned, or Unread
          seen,    \* the input it is the tick of
          idle     \* what the last heartbeat of the session said, or Unread

idleVars == <<clock, input, dwTime, seen, idle>>

Tick(t) == t % Wrap

IdleInit == /\ clock = 0
            /\ input = 0
            /\ dwTime = Unread
            /\ seen = 0
            /\ idle = Unread

\* A session opens on a machine that has run for any time and was last used at
\* any moment of it.
LoopStarts == /\ clock' \in 0..MaxClock
              /\ input' \in 0..clock'
              /\ UNCHANGED <<dwTime, seen, idle>>

\* A session ends, between two heartbeats or in the middle of a measurement.
LoopStops == /\ clock' = 0
             /\ input' = 0
             /\ dwTime' = Unread
             /\ seen' = 0
             /\ idle' = Unread

TimePasses == /\ clock < MaxClock
              /\ clock' = clock + 1
              /\ UNCHANGED <<input, dwTime, seen, idle>>

UserActs == /\ input' = clock
            /\ UNCHANGED <<clock, dwTime, seen, idle>>

\* Variant: the counters are subtracted as 64-bit numbers.
ElapsedWide(from, to) == to - from

\* Subtraction of two uint32.
Elapsed(from, to) == (to - from) % Wrap

\* computeIdle; a threshold of 0 means that the user does not matter.
IsIdle(sinceLastInput) == Threshold <= 0 \/ sinceLastInput >= Threshold

GetLastInputInfo == /\ dwTime = Unread
                    /\ dwTime' = Tick(input)
                    /\ seen' = input
                    /\ UNCHANGED <<clock, input, idle>>

\* The call fails: the user counts as active.
LastInputFails == /\ dwTime = Unread
                  /\ idle' = IsIdle(0)
                  /\ UNCHANGED <<clock, input, dwTime, seen>>

GetTickCount == /\ dwTime # Unread
                /\ idle' = IsIdle(Elapsed(dwTime, Tick(clock)))
                /\ dwTime' = Unread
                /\ UNCHANGED <<clock, input, seen>>

IdleNext == \/ TimePasses \/ UserActs
            \/ GetLastInputInfo \/ LastInputFails \/ GetTickCount

IdleTypeOK == /\ clock \in 0..MaxClock
              /\ input \in 0..clock
              /\ dwTime \in 0..(Wrap - 1) \union {Unread}
              /\ seen \in 0..input
              /\ idle \in BOOLEAN \union {Unread}

\* idle_windows.go:23-26, "the subtraction is correct even across the 32-bit
\* wrap": a heartbeat says that the user is away exactly if nothing was touched
\* for the threshold up to the moment it was measured, whatever the counters
\* did in between.  After a whole turn of the counter (49.7 days without an
\* input) an absence may look too short, and never too long.
AwayIsMeasured ==
  [][dwTime # Unread /\ dwTime' = Unread /\ idle' # Unread =>
       /\ idle' => clock - seen >= Threshold
       /\ clock - seen \in Threshold..(Wrap - 1) => idle']_idleVars
============================================================================
