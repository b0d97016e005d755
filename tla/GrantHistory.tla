---------------------------- MODULE GrantHistory ----------------------------
(***************************************************************************)
(* The rate limiter together with the history of its grants, to say how    *)
(* many requests it lets through in a stretch of time.  The history        *)
(* variable is written and never read by the limiter.                      *)
(***************************************************************************)
EXTENDS RateLimiter

VARIABLE recent   \* recent[k]: grants given within the last k ticks

historyVars == <<limiterVars, recent>>

HistoryInit == LimiterInit /\ recent = [k \in 0..Window |-> 0]

Grants(c) ==
    recent' = IF rpc'[c] = "idle" THEN [k \in 0..Window |-> recent[k] + 1] ELSE recent

Tries(c) == TryAcquire(c) /\ Grants(c)

Waits(c) ==
    \/ WaitCheck(c) /\ Grants(c)
    \/ (WaitEnter(c) \/ WaitCompute(c) \/ SleepTimeout(c)) /\ UNCHANGED recent

WakesEarly(c) == SpuriousWake(c) /\ UNCHANGED recent

Passes ==
    /\ Tick
    /\ recent' = [k \in 0..Window |-> IF k = 0 THEN 0 ELSE recent[k - 1]]

HistoryNext == (\E c \in Callers : Tries(c) \/ Waits(c) \/ WakesEarly(c)) \/ Passes

HistorySpec == HistoryInit /\ [][HistoryNext]_historyVars

\* A fixed window lets two budgets through around its edge, and never more:
\* any stretch of time as long as the window sees at most twice maxRequests_.
AtMostTwoBudgets == recent[Window] <= 2 * MaxRequests

=============================================================================
