----------------------------- MODULE RateLimiter ----------------------------
(***************************************************************************)
(* tradier::RateLimiter of include/tradier/common/async.hpp: a fixed       *)
(* window of grants guarded by mutex_.  tryAcquire() is one critical       *)
(* section.  waitForSlot() keeps the mutex across its loop, reads the      *)
(* clock a second time to compute how long to sleep, and gives the mutex   *)
(* up only inside wait_for; the clock may advance between any two steps.   *)
(*                                                                         *)
(* Time is kept relative to the present so that the state space is finite  *)
(* without a horizon: the code looks at the clock only through             *)
(* now - windowStart_, and of that only whether it exceeds windowDuration_ *)
(* and by how much it falls short of it.                                   *)
(***************************************************************************)
EXTENDS Naturals, FiniteSets

CONSTANTS Callers,      \* threads that use one limiter
          MaxRequests,  \* maxRequests_
          Window,       \* windowDuration_, in clock ticks
          Calls,        \* bound: acquisitions per caller
          NoCaller

ASSUME LimiterAssumption ==
    /\ MaxRequests \in Nat \ {0}
    /\ Window \in Nat \ {0}
    /\ Calls \in Nat
    /\ NoCaller \notin Callers

VARIABLES age,           \* now - windowStart_, Window + 1 for anything longer
          requestCount,  \* requestCount_
          holder,        \* who owns mutex_ across steps of waitForSlot()
          rpc,           \* where each caller is
          left,          \* what remains of each caller's wait_for
          calls          \* acquisitions each caller may still begin

limiterVars == <<age, requestCount, holder, rpc, left, calls>>

LimiterInit ==
    /\ age = 0
    /\ requestCount = 0
    /\ holder = NoCaller
    /\ rpc = [c \in Callers |-> "idle"]
    /\ left = [c \in Callers |-> 0]
    /\ calls = [c \in Callers |-> Calls]

-----------------------------------------------------------------------------
\* Mutant: the count is reset, the start of the window is not moved.
AcquireNoRestart(c, granted, refused) ==
    LET base == IF age > Window THEN 0 ELSE requestCount
    IN  /\ age' = age
        /\ IF base < MaxRequests
           THEN /\ requestCount' = base + 1
                /\ rpc' = [rpc EXCEPT ![c] = granted]
           ELSE /\ requestCount' = base
                /\ rpc' = [rpc EXCEPT ![c] = refused]

\* Mutant: one grant too many per window.
AcquireOneMore(c, granted, refused) ==
    LET expired == age > Window
        base == IF expired THEN 0 ELSE requestCount
    IN  /\ age' = IF expired THEN 0 ELSE age
        /\ IF base <= MaxRequests
           THEN /\ requestCount' = base + 1
                /\ rpc' = [rpc EXCEPT ![c] = granted]
           ELSE /\ requestCount' = base
                /\ rpc' = [rpc EXCEPT ![c] = refused]

\* The body shared by tryAcquire() and tryAcquireInternal(): restart an expired
\* window, then grant if the window has room.
Acquire(c, granted, refused) ==
    LET expired == age > Window
        base == IF expired THEN 0 ELSE requestCount
    IN  /\ age' = IF expired THEN 0 ELSE age
        /\ IF base < MaxRequests
           THEN /\ requestCount' = base + 1
                /\ rpc' = [rpc EXCEPT ![c] = granted]
           ELSE /\ requestCount' = base
                /\ rpc' = [rpc EXCEPT ![c] = refused]

TryAcquire(c) ==
    /\ rpc[c] = "idle"
    /\ calls[c] > 0
    /\ holder = NoCaller
    /\ Acquire(c, "idle", "limited")
    /\ calls' = [calls EXCEPT ![c] = @ - 1]
    /\ UNCHANGED <<holder, left>>

\* waitForSlot() takes the mutex; its caller does so after a refusal.
WaitEnter(c) ==
    /\ rpc[c] = "limited"
    /\ holder = NoCaller
    /\ holder' = c
    /\ rpc' = [rpc EXCEPT ![c] = "check"]
    /\ UNCHANGED <<age, requestCount, left, calls>>

WaitCheck(c) ==
    /\ rpc[c] = "check"
    /\ Acquire(c, "idle", "compute")
    /\ holder' = IF rpc'[c] = "idle" THEN NoCaller ELSE c
    /\ UNCHANGED <<left, calls>>

\* Mutant: a whole window is slept whatever has passed of it.
WaitComputeWhole(c) ==
    /\ rpc[c] = "compute"
    /\ holder' = NoCaller
    /\ rpc' = [rpc EXCEPT ![c] = "sleep"]
    /\ left' = [left EXCEPT ![c] = Window]
    /\ UNCHANGED <<age, requestCount, calls>>

\* The second reading of the clock.  At the very end of a window, or after it,
\* there is nothing to wait for and the loop spins with the mutex held.
WaitCompute(c) ==
    /\ rpc[c] = "compute"
    /\ IF age < Window
       THEN /\ holder' = NoCaller
            /\ rpc' = [rpc EXCEPT ![c] = "sleep"]
            /\ left' = [left EXCEPT ![c] = Window - age]
       ELSE /\ rpc' = [rpc EXCEPT ![c] = "check"]
            /\ UNCHANGED <<holder, left>>
    /\ UNCHANGED <<age, requestCount, calls>>

\* Mutant: wait() instead of wait_for(); nobody ever notifies condition_.
SleepUntilNotified(c) ==
    /\ rpc[c] = "sleep"
    /\ FALSE
    /\ UNCHANGED limiterVars

SleepTimeout(c) ==
    /\ rpc[c] = "sleep"
    /\ left[c] = 0
    /\ holder = NoCaller
    /\ holder' = c
    /\ rpc' = [rpc EXCEPT ![c] = "check"]
    /\ UNCHANGED <<age, requestCount, left, calls>>

\* wait_for may return before its time without a notification.
SpuriousWake(c) ==
    /\ rpc[c] = "sleep"
    /\ left[c] > 0
    /\ holder = NoCaller
    /\ holder' = c
    /\ rpc' = [rpc EXCEPT ![c] = "check"]
    /\ left' = [left EXCEPT ![c] = 0]
    /\ UNCHANGED <<age, requestCount, calls>>

\* The steady clock advances by one tick.
Tick ==
    /\ age' = IF age > Window THEN age ELSE age + 1
    /\ left' = [c \in Callers |-> IF left[c] > 0 THEN left[c] - 1 ELSE 0]
    /\ UNCHANGED <<requestCount, holder, rpc, calls>>

-----------------------------------------------------------------------------
WaitForSlot(c) ==
    WaitEnter(c) \/ WaitCheck(c) \/ WaitCompute(c) \/ SleepTimeout(c)

LimiterNext ==
    \/ \E c \in Callers : TryAcquire(c) \/ WaitForSlot(c) \/ SpuriousWake(c)
    \/ Tick

\* A thread inside waitForSlot() keeps running and time passes; nobody has to
\* start another acquisition.
LimiterFairness ==
    /\ \A c \in Callers : WF_limiterVars(WaitForSlot(c))
    /\ WF_limiterVars(Tick)

LimiterSpec == LimiterInit /\ [][LimiterNext]_limiterVars /\ LimiterFairness

-----------------------------------------------------------------------------
LimiterTypeOK ==
    /\ age \in 0..(Window + 1)
    /\ requestCount \in 0..MaxRequests
    /\ holder \in Callers \cup {NoCaller}
    /\ rpc \in [Callers -> {"idle", "limited", "check", "compute", "sleep"}]
    /\ left \in [Callers -> 0..Window]
    /\ calls \in [Callers -> 0..Calls]

\* No caller sleeps past the end of the window it waits for: when its wait_for
\* ends, the window is over or some caller has started the next one.
NeverOversleeps ==
    \A c \in Callers : rpc[c] = "sleep" => left[c] = 0 \/ left[c] + age <= Window

=============================================================================
