-------------------------- MODULE HttpClientProofs --------------------------
(***************************************************************************)
(* Proofs about the rate limiter, the history of its grants and the HTTP   *)
(* client, for any number of callers, any budget, any window and any retry *)
(* limits.                                                                 *)
(*                                                                         *)
(* The bound on a sleep is inductive only with the types: a window that    *)
(* another caller restarts while c sleeps leaves c a sleep of at most one  *)
(* whole window, which is what left is typed by.  The bound on the grants  *)
(* needs to know which of them belong to the current window.  The bound on *)
(* the sends and the ownership of the answers need to know that a request  *)
(* which uses the handle alone finds itself in it.                         *)
(***************************************************************************)
EXTENDS GrantHistory, HttpClient, FiniteSetTheorems, TLAPS

LimiterInv == LimiterTypeOK /\ NeverOversleeps

\* The shared body of tryAcquire() and tryAcquireInternal() keeps the count
\* within the budget, and moves the age of the window only back to zero.
LEMMA AcquireKeeps ==
    ASSUME LimiterTypeOK, NEW c \in Callers, NEW granted, NEW refused,
           Acquire(c, granted, refused)
    PROVE  /\ age' \in {0, age}
           /\ requestCount' \in 0..MaxRequests
           /\ \/ rpc' = [rpc EXCEPT ![c] = granted]
              \/ rpc' = [rpc EXCEPT ![c] = refused]
BY LimiterAssumption DEF LimiterTypeOK, Acquire

\* A new limiter has an empty window and nobody inside.
LEMMA LimiterInitially == LimiterInit => LimiterInv
BY LimiterAssumption DEF LimiterInit, LimiterInv, LimiterTypeOK, NeverOversleeps

\* Every step keeps the bound on the sleeps.
LEMMA LimiterStep == LimiterInv /\ [LimiterNext]_limiterVars => LimiterInv'
<1> SUFFICES ASSUME LimiterInv, [LimiterNext]_limiterVars PROVE LimiterInv'
    OBVIOUS
<1> USE LimiterAssumption DEF LimiterInv, NeverOversleeps
<1>1. ASSUME NEW c \in Callers, TryAcquire(c) PROVE LimiterInv'
  <2>1. /\ age' \in {0, age}
        /\ requestCount' \in 0..MaxRequests
        /\ \/ rpc' = [rpc EXCEPT ![c] = "idle"]
           \/ rpc' = [rpc EXCEPT ![c] = "limited"]
    BY <1>1, AcquireKeeps DEF TryAcquire
  <2> QED
    BY <1>1, <2>1 DEF TryAcquire, LimiterTypeOK
<1>2. ASSUME NEW c \in Callers, WaitEnter(c) PROVE LimiterInv'
    BY <1>2 DEF WaitEnter, LimiterTypeOK
<1>3. ASSUME NEW c \in Callers, WaitCheck(c) PROVE LimiterInv'
  <2>1. /\ age' \in {0, age}
        /\ requestCount' \in 0..MaxRequests
        /\ \/ rpc' = [rpc EXCEPT ![c] = "idle"]
           \/ rpc' = [rpc EXCEPT ![c] = "compute"]
    BY <1>3, AcquireKeeps DEF WaitCheck
  <2>2. holder' \in {NoCaller, c} /\ UNCHANGED <<left, calls>>
    BY <1>3 DEF WaitCheck
  <2> QED
    BY <2>1, <2>2 DEF LimiterTypeOK
<1>4. ASSUME NEW c \in Callers, WaitCompute(c) PROVE LimiterInv'
    BY <1>4 DEF WaitCompute, LimiterTypeOK
<1>5. ASSUME NEW c \in Callers, SleepTimeout(c) PROVE LimiterInv'
    BY <1>5 DEF SleepTimeout, LimiterTypeOK
<1>6. ASSUME NEW c \in Callers, SpuriousWake(c) PROVE LimiterInv'
    BY <1>6 DEF SpuriousWake, LimiterTypeOK
<1>7. CASE Tick
    BY <1>7 DEF Tick, LimiterTypeOK
<1>8. CASE UNCHANGED limiterVars
    BY <1>8 DEF limiterVars, LimiterTypeOK
<1> QED
    BY <1>1, <1>2, <1>3, <1>4, <1>5, <1>6, <1>7, <1>8 DEF LimiterNext, WaitForSlot

\* The invariant of the limiter holds in every state.
THEOREM LimiterInvariant == LimiterSpec => []LimiterInv
BY LimiterInitially, LimiterStep, PTL DEF LimiterSpec

\* requestCount_ stays within maxRequests_ and every variable within its type,
\* whatever the callers of tryAcquire() and waitForSlot() do.
THEOREM LimiterTypes == LimiterSpec => []LimiterTypeOK
<1>1. LimiterInv => LimiterTypeOK
    BY DEF LimiterInv
<1> QED
    BY <1>1, LimiterInvariant, PTL

\* No wait_for of waitForSlot() lasts past the window that is current, also
\* when other callers restart the window while it lasts.
THEOREM NoOversleep == LimiterSpec => []NeverOversleeps
<1>1. LimiterInv => NeverOversleeps
    BY DEF LimiterInv
<1> QED
    BY <1>1, LimiterInvariant, PTL

-----------------------------------------------------------------------------
(* The grants of a stretch of time.                                        *)

\* The grants of the current window are those of the last age ticks; what else
\* the history holds is from before, and a window ago there was at most one
\* budget of it.  A window that is over has seen no grant in this tick.
HistoryInv ==
    /\ recent \in [0..Window -> Nat]
    /\ \A j, k \in 0..Window : j <= k => recent[j] <= recent[k]
    /\ age <= Window => recent[age] = requestCount
    /\ age > Window => recent[0] = 0 /\ recent[Window] <= requestCount
    /\ \A k \in 0..Window : recent[k] <= requestCount + MaxRequests

\* A grant is counted in the window and in every stretch that reaches the present;
\* a refusal, which no expired window gives, leaves the history alone.
LEMMA GrantStep ==
    ASSUME HistoryInv, LimiterTypeOK, NEW c \in Callers, NEW refused, refused # "idle",
           Acquire(c, "idle", refused), Grants(c)
    PROVE  HistoryInv'
<1>1. /\ age \in Nat /\ requestCount \in Nat /\ requestCount <= MaxRequests
      /\ Window \in Nat /\ MaxRequests \in Nat /\ MaxRequests > 0
    BY LimiterAssumption DEF LimiterTypeOK
<1>2. \/ rpc'[c] = "idle" /\ age > Window /\ age' = 0 /\ requestCount' = 1
      \/ rpc'[c] = "idle" /\ age <= Window /\ age' = age /\ requestCount' = requestCount + 1
      \/ rpc'[c] # "idle" /\ age' = age /\ requestCount' = requestCount
    BY LimiterAssumption DEF LimiterTypeOK, Acquire
<1>3. CASE rpc'[c] = "idle"
  <2>1. recent' = [k \in 0..Window |-> recent[k] + 1]
    BY <1>3 DEF Grants
  <2>2. recent \in [0..Window -> Nat] /\ recent' \in [0..Window -> Nat]
    BY <2>1 DEF HistoryInv
  <2>3. \A k \in 0..Window : recent'[k] = recent[k] + 1
    BY <2>1
  <2>4. \A j, k \in 0..Window : j <= k => recent'[j] <= recent'[k]
    BY <2>2, <2>3 DEF HistoryInv
  <2>5. /\ age' <= Window => recent'[age'] = requestCount'
        /\ age' > Window => recent'[0] = 0 /\ recent'[Window] <= requestCount'
    BY <1>1, <1>2, <1>3, <2>2, <2>3 DEF HistoryInv
  <2>6. \A k \in 0..Window : recent'[k] <= requestCount' + MaxRequests
    BY <1>1, <1>2, <1>3, <2>2, <2>3 DEF HistoryInv
  <2> QED
    BY <2>2, <2>4, <2>5, <2>6 DEF HistoryInv
<1>4. CASE rpc'[c] # "idle"
    BY <1>2, <1>4 DEF HistoryInv, Grants
<1> QED
    BY <1>3, <1>4

\* A tick makes every stretch of k ticks one of k + 1.
LEMMA PassesStep == ASSUME HistoryInv, LimiterTypeOK, Passes PROVE HistoryInv'
<1>1. /\ age \in Nat /\ requestCount \in Nat /\ requestCount <= MaxRequests
      /\ Window \in Nat /\ Window > 0 /\ MaxRequests \in Nat /\ age <= Window + 1
    BY LimiterAssumption DEF LimiterTypeOK
<1>2. /\ recent' = [k \in 0..Window |-> IF k = 0 THEN 0 ELSE recent[k - 1]]
      /\ age' = IF age > Window THEN age ELSE age + 1
      /\ requestCount' = requestCount
    BY DEF Passes, Tick
<1>3. \A k \in 0..Window : k = 0 \/ k - 1 \in 0..Window
    BY <1>1
<1>4. recent \in [0..Window -> Nat] /\ recent' \in [0..Window -> Nat]
    BY <1>2, <1>3 DEF HistoryInv
<1>5. /\ recent'[0] = 0
      /\ \A k \in 0..Window : k # 0 => recent'[k] = recent[k - 1]
    BY <1>1, <1>2
<1>6. \A j, k \in 0..Window : j <= k => recent'[j] <= recent'[k]
  <2> SUFFICES ASSUME NEW j \in 0..Window, NEW k \in 0..Window, j <= k
               PROVE  recent'[j] <= recent'[k]
    OBVIOUS
  <2>1. CASE j = 0
    BY <1>4, <1>5, <2>1
  <2>2. CASE j # 0
    BY <1>1, <1>3, <1>5, <2>2 DEF HistoryInv
  <2> QED
    BY <2>1, <2>2
<1>7. age' <= Window => recent'[age'] = requestCount'
    BY <1>1, <1>2, <1>5 DEF HistoryInv
<1>8. age' > Window => recent'[0] = 0 /\ recent'[Window] <= requestCount'
  <2>1. recent'[Window] = recent[Window - 1] /\ recent[Window - 1] <= recent[Window]
    BY <1>1, <1>5 DEF HistoryInv
  <2>2. recent[Window - 1] \in Nat /\ recent[Window] \in Nat
    BY <1>1, <1>4
  <2> QED
    BY <1>1, <1>2, <1>5, <2>1, <2>2, SMTT(30) DEF HistoryInv
<1>9. \A k \in 0..Window : recent'[k] <= requestCount' + MaxRequests
  <2> SUFFICES ASSUME NEW k \in 0..Window PROVE recent'[k] <= requestCount' + MaxRequests
    OBVIOUS
  <2>1. CASE k = 0
    BY <1>1, <1>2, <1>5, <2>1
  <2>2. CASE k # 0
    BY <1>1, <1>2, <1>3, <1>5, <2>2 DEF HistoryInv
  <2> QED
    BY <2>1, <2>2
<1> QED
    BY <1>4, <1>6, <1>7, <1>8, <1>9 DEF HistoryInv

\* Every step keeps it.
LEMMA HistoryStep ==
    HistoryInv /\ LimiterTypeOK /\ [HistoryNext]_historyVars => HistoryInv'
<1> SUFFICES ASSUME HistoryInv, LimiterTypeOK, [HistoryNext]_historyVars PROVE HistoryInv'
    OBVIOUS
<1>1. ASSUME NEW c \in Callers, Tries(c) PROVE HistoryInv'
    BY <1>1, GrantStep DEF Tries, TryAcquire
<1>2. ASSUME NEW c \in Callers, WaitCheck(c), Grants(c) PROVE HistoryInv'
    BY <1>2, GrantStep DEF WaitCheck
<1>3. ASSUME UNCHANGED <<age, requestCount, recent>> PROVE HistoryInv'
    BY <1>3 DEF HistoryInv
<1>4. CASE Passes
    BY <1>4, PassesStep
<1> QED
    BY <1>1, <1>2, <1>3, <1>4
    DEF HistoryNext, Waits, WakesEarly, WaitEnter, WaitCompute, SleepTimeout, SpuriousWake,
        historyVars, limiterVars

\* A stretch of time as long as the window sees at most two budgets of grants,
\* for any budget, any window and any callers.
THEOREM TwoBudgets == HistorySpec => []AtMostTwoBudgets
<1>1. HistoryInit => HistoryInv /\ LimiterInv
  <2> SUFFICES ASSUME HistoryInit PROVE HistoryInv /\ LimiterInv
    OBVIOUS
  <2>1. LimiterInv
    BY LimiterInitially DEF HistoryInit
  <2> QED
    BY <2>1, LimiterAssumption DEF HistoryInit, LimiterInit, HistoryInv, LimiterInv
<1>2. [HistoryNext]_historyVars => [LimiterNext]_limiterVars
    BY DEF HistoryNext, Tries, Waits, WakesEarly, Passes, LimiterNext, WaitForSlot, historyVars,
           limiterVars
<1>3. LimiterInv => LimiterTypeOK
    BY DEF LimiterInv
<1>4. HistoryInv /\ LimiterTypeOK => AtMostTwoBudgets
    BY LimiterAssumption DEF HistoryInv, AtMostTwoBudgets, LimiterTypeOK
<1> QED
    BY <1>1, <1>2, <1>3, <1>4, LimiterStep, HistoryStep, PTL DEF HistorySpec

-----------------------------------------------------------------------------
(* The client: its steps.                                                  *)

Settings == [rateLimit : BOOLEAN, retriesEnabled : BOOLEAN, maxRetries : RetryLimits]
Underway == {r \in Requests : Active(r)}

\* The gate, the wait for a slot and the pause between two attempts only move
\* the request on, and it stays under way.
Moves(r) ==
    /\ pc[r] \in {"gate", "wait", "backoff"}
    /\ \E label \in {"wait", "loop"} : Goto(r, label)
    /\ UNCHANGED <<attempts, response, body, handle, cargo, wire, settings, stats, carried,
                   changed, overlap>>

\* A change of the settings or of the counters leaves the requests alone.
Reconfigures ==
    /\ Change
    /\ settings' \in Settings
    /\ \/ UNCHANGED <<stats, carried>>
       \/ settings' = settings /\ stats' = ZeroStats /\ carried' = Cardinality(Underway)
    /\ UNCHANGED <<pc, attempts, response, body, handle, cargo, wire, overlap>>

\* The kinds of steps the proofs tell apart.
RequestStep(r) ==
    \/ Begin(r) \/ Moves(r) \/ Configure(r) \/ LoopEnds(r) \/ Perform(r) \/ Finish(r)
    \/ \E s \in Statuses : Answered(r, s)
    \/ \E b \in BOOLEAN : NoAnswer(r, b)

\* Every step is of one of these kinds.
LEMMA ClientSteps ==
    ASSUME HttpTypeOK, [HttpNext]_httpVars
    PROVE  (\E r \in Requests : RequestStep(r)) \/ Reconfigures \/ UNCHANGED ownVars
<1>1. ASSUME NEW r \in Requests, Gate(r) \/ WaitSlot(r) \/ WaitSpurious(r) \/ BackoffOver(r)
      PROVE  Moves(r)
    BY <1>1 DEF Moves, Gate, WaitSlot, WaitSpurious, InLimiter, BackoffOver, Goto
<1>2. ASSUME Reconfigure PROVE Reconfigures
  <2>1. settings \in Settings
    BY DEF HttpTypeOK, Settings
  <2>2. CASE SetRetryPolicy
    BY <2>1, <2>2 DEF SetRetryPolicy, Settings, Reconfigures
  <2>3. CASE EnableRetries
    <3>1. PICK b \in BOOLEAN : settings' = [settings EXCEPT !.retriesEnabled = b]
      BY <2>3 DEF EnableRetries
    <3>2. settings' \in Settings
      BY <2>1, <3>1, Zenon DEF Settings
    <3> QED
      BY <2>3, <3>2 DEF EnableRetries, Reconfigures
  <2>4. CASE EnableRateLimit
    BY <2>1, <2>4 DEF EnableRateLimit, Settings, Reconfigures
  <2> QED
    BY <1>2, <2>1, <2>2, <2>3, <2>4
    DEF Reconfigure, Reconfigures, SetRateLimit, ResetStatistics, Underway
<1>3. ASSUME Clock \/ UNCHANGED httpVars PROVE UNCHANGED ownVars
    BY <1>3 DEF Clock, httpVars
<1>4. ASSUME NEW r \in Requests, Begin(r) \/ Proceed(r) \/ WaitSpurious(r)
      PROVE  RequestStep(r)
    BY <1>1, <1>4 DEF Proceed, RequestStep
<1>5. CASE \E r \in Requests : Begin(r) \/ Proceed(r) \/ WaitSpurious(r)
    BY <1>4, <1>5, Zenon
<1> QED
    BY <1>2, <1>3, <1>5 DEF HttpNext

\* The client takes the limiter through the limiter's own steps, or puts a new one
\* in its place when nobody is inside.
LEMMA LimiterInside == LimiterInv /\ [HttpNext]_httpVars => LimiterInv'
<1> SUFFICES ASSUME LimiterInv, [HttpNext]_httpVars PROVE LimiterInv'
    OBVIOUS
<1>1. CASE [LimiterNext]_limiterVars
    BY <1>1, LimiterStep
<1>2. CASE SetRateLimit
    BY <1>2, LimiterAssumption
    DEF SetRateLimit, LimiterInv, LimiterTypeOK, NeverOversleeps, Requests
<1>3. ASSUME NEW r \in Requests, Gate(r) \/ WaitSlot(r) \/ WaitSpurious(r)
      PROVE  [LimiterNext]_limiterVars
    BY <1>3 DEF Gate, WaitSlot, WaitSpurious, InLimiter, LimiterNext, Requests
<1>4. ASSUME NEW r \in Requests,
             \/ Begin(r) \/ Configure(r) \/ LoopEnds(r) \/ Perform(r) \/ BackoffOver(r)
             \/ Finish(r) \/ (\E s \in Statuses : Answered(r, s))
             \/ (\E b \in BOOLEAN : NoAnswer(r, b))
      PROVE  UNCHANGED limiterVars
    BY <1>4 DEF Begin, Configure, LoopEnds, Perform, BackoffOver, Finish, Answered, NoAnswer
<1>5. ASSUME SetRetryPolicy \/ EnableRetries \/ EnableRateLimit \/ ResetStatistics
      PROVE  UNCHANGED limiterVars
    BY <1>5 DEF SetRetryPolicy, EnableRetries, EnableRateLimit, ResetStatistics
<1>6. CASE Clock
    BY <1>1, <1>6 DEF Clock, LimiterNext
<1>7. CASE UNCHANGED httpVars
    BY <1>1, <1>7 DEF httpVars
<1> QED
    BY <1>1, <1>2, <1>3, <1>4, <1>5, <1>6, <1>7 DEF HttpNext, Proceed, Reconfigure

-----------------------------------------------------------------------------
(* The client: its invariant.                                              *)

\* Using the handle: between writing its options and the end of the transfer.
Using(r) == pc[r] \in {"configured", "inflight"}
Ended(r) == pc[r] \in {"finish", "returned", "threw"}

\* A request that uses the handle finds a buffer and a cargo in it, and as long as
\* requests have not overlapped they are its own and nobody else uses it.
HandleInv ==
    \A r \in Requests :
        /\ Using(r) => handle \in Requests
        /\ pc[r] = "inflight" => cargo[r] \in Requests
        /\ ~overlap => /\ Using(r) => handle = r /\ \A q \in Requests : Using(q) => q = r
                       /\ pc[r] = "inflight" => cargo[r] = r

\* A request whose loop is not over has no final answer.
UnansweredInv ==
    \A r \in Requests : pc[r] \notin {"finish", "returned"} => response[r] \in {"none", "retryable"}

\* A request that has not begun has made no attempt; while the policy stays, an
\* attempt under way is within it, and so is a repetition.
AttemptsInv ==
    \A r \in Requests :
        /\ pc[r] = "idle" => attempts[r] = 0
        /\ changed = 0 => /\ attempts[r] = 0 \/ attempts[r] <= Budget
                          /\ Using(r) => attempts[r] <= Budget

\* Each attempt has sent the request at most once; the last one ends the loop.
SendsInv ==
    ~overlap => \A r \in Requests :
        /\ wire[r] <= IF Ended(r) THEN attempts[r] + 1 ELSE attempts[r]
        /\ changed = 0 /\ Ended(r) => wire[r] <= (IF Budget < 0 THEN 0 ELSE Budget + 1)

\* A buffer holds nothing foreign, and under a policy that stays the loop ends
\* with an answer in it.
BodyInv ==
    ~overlap => \A r \in Requests :
        /\ body[r] \subseteq {r}
        /\ changed = 0 /\ Budget >= 0 /\ pc[r] \in {"finish", "returned"} =>
               body[r] = {r} /\ response[r] # "none"

\* The retry budget is an integer, and the settings alone determine it.
LEMMA BudgetIsInt == HttpTypeOK => Budget \in Int
<1> SUFFICES ASSUME HttpTypeOK PROVE Budget \in Int
    OBVIOUS
<1>1. settings.maxRetries \in Int
    BY HttpAssumption DEF HttpTypeOK
<1> QED
    BY <1>1 DEF Budget

\* The retry budget changes with the settings only.
LEMMA BudgetStays == settings' = settings => Budget' = Budget
BY DEF Budget

\* Every step keeps the types; that of a buffer needs the transfer's cargo.
LEMMA ClientTypeStep ==
    ASSUME HttpTypeOK, LimiterTypeOK', HandleInv, IsFiniteSet(Underway), [HttpNext]_httpVars
    PROVE  HttpTypeOK'
<1> USE DEF HttpTypeOK, Requests
<1>1. ASSUME NEW r \in Requests, Begin(r) PROVE HttpTypeOK'
    BY <1>1 DEF Begin, Goto
<1>2. ASSUME NEW r \in Requests, Moves(r) PROVE HttpTypeOK'
    BY <1>2 DEF Moves, Goto
<1>3. ASSUME NEW r \in Requests, Configure(r) PROVE HttpTypeOK'
  <2>1. overlap' \in BOOLEAN
    BY <1>3, Zenon DEF Configure
  <2>2. /\ handle' = r /\ body' = [body EXCEPT ![r] = {}] /\ pc' = [pc EXCEPT ![r] = "configured"]
        /\ UNCHANGED <<attempts, response, cargo, wire, settings, stats, carried, changed>>
    BY <1>3 DEF Configure, Goto
  <2> QED
    BY <2>1, <2>2
<1>4. ASSUME NEW r \in Requests, LoopEnds(r) PROVE HttpTypeOK'
    BY <1>4 DEF LoopEnds, Goto
<1>5. ASSUME NEW r \in Requests, Perform(r) PROVE HttpTypeOK'
    BY <1>5 DEF Perform, Goto
<1>6. ASSUME NEW r \in Requests, Finish(r) PROVE HttpTypeOK'
  <2>1. stats' \in [total : Nat, successful : Nat, failed : Nat, threw : Nat]
    BY <1>6 DEF Finish
  <2>2. /\ pc' = [pc EXCEPT ![r] = "returned"]
        /\ UNCHANGED <<attempts, response, body, handle, cargo, wire, settings, carried, changed,
                       overlap>>
    BY <1>6 DEF Finish, Goto
  <2> QED
    BY <2>1, <2>2
<1>7. ASSUME NEW r \in Requests, NEW s \in Statuses, Answered(r, s) PROVE HttpTypeOK'
  <2>1. cargo[r] \in Requests /\ handle \in Requests
    BY <1>7 DEF Answered, HandleInv, Using
  <2>2. /\ wire' = [wire EXCEPT ![cargo[r]] = @ + 1]
        /\ body' = [body EXCEPT ![handle] = @ \cup {cargo[r]}]
        /\ response' = [response EXCEPT ![r] = s]
        /\ cargo' = [cargo EXCEPT ![r] = NoCaller]
        /\ UNCHANGED <<handle, settings, stats, carried, changed, overlap>>
    BY <1>7 DEF Answered, Retry
  <2>3. /\ attempts' \in [Requests -> Nat]
        /\ pc' = [pc EXCEPT ![r] = "backoff"] \/ pc' = [pc EXCEPT ![r] = "finish"]
    BY <1>7 DEF Answered, Retry, Goto
  <2>4. body' \in [Requests -> SUBSET Requests] /\ wire' \in [Requests -> Nat]
    BY <2>1, <2>2
  <2> QED
    BY <2>2, <2>3, <2>4
<1>8. ASSUME NEW r \in Requests, NEW b \in BOOLEAN, NoAnswer(r, b) PROVE HttpTypeOK'
  <2>0. cargo[r] \in Requests
    BY <1>8 DEF NoAnswer, HandleInv
  <2>1. wire' \in [Requests -> Nat]
    <3>1. wire' = [wire EXCEPT ![cargo[r]] = @ + 1] \/ wire' = wire
      BY <1>8 DEF NoAnswer
    <3> QED
      BY <2>0, <3>1
  <2>2. /\ cargo' = [cargo EXCEPT ![r] = NoCaller]
        /\ UNCHANGED <<response, body, handle, settings, carried, changed, overlap>>
    BY <1>8 DEF NoAnswer
  <2>3. /\ attempts' \in [Requests -> Nat]
        /\ pc' = [pc EXCEPT ![r] = "backoff"] \/ pc' = [pc EXCEPT ![r] = "threw"]
    BY <1>8 DEF NoAnswer, Retry, Goto
  <2>4. stats' \in [total : Nat, successful : Nat, failed : Nat, threw : Nat]
    BY <1>8 DEF NoAnswer, Retry
  <2> QED
    BY <2>1, <2>2, <2>3, <2>4
<1>9. CASE Reconfigures
  <2>0. carried' \in Nat
    BY <1>9, FS_CardinalityType DEF Reconfigures
  <2>1. stats' \in [total : Nat, successful : Nat, failed : Nat, threw : Nat]
    BY <1>9 DEF Reconfigures, ZeroStats
  <2>2. changed' \in 0..LiveChanges
    BY <1>9, HttpAssumption DEF Reconfigures, Change
  <2> QED
    BY <1>9, <2>0, <2>1, <2>2 DEF Reconfigures, Settings
<1>10. CASE UNCHANGED ownVars
    BY <1>10 DEF ownVars
<1> QED
    BY <1>1, <1>2, <1>3, <1>4, <1>5, <1>6, <1>7, <1>8, <1>9, <1>10, ClientSteps
    DEF RequestStep

\* The requests under way are finitely many, and the counters account for them.
StatsInv == IsFiniteSet(Underway) /\ StatsBalance

\* Every step keeps the account.
LEMMA StatsStep == ASSUME HttpTypeOK, StatsInv, [HttpNext]_httpVars PROVE StatsInv'
<1> DEFINE total == stats.total
           ended == stats.successful + stats.failed + stats.threw
<1>1. /\ total + carried = ended + Cardinality(Underway)
      /\ IsFiniteSet(Underway)
      /\ Cardinality(Underway) \in Nat
    BY FS_CardinalityType DEF StatsInv, StatsBalance, Underway
<1>2. total \in Nat /\ ended \in Nat /\ carried \in Nat
    BY DEF HttpTypeOK
<1>3. ASSUME IsFiniteSet(Underway'), total' + carried' = ended' + Cardinality(Underway')
      PROVE  StatsInv'
    BY <1>3 DEF StatsInv, StatsBalance, Underway
<1> HIDE DEF total, ended
<1>4. ASSUME NEW r \in Requests,
             NEW label \in {"wait", "loop", "configured", "inflight", "backoff", "finish"},
             Active(r), pc' = [pc EXCEPT ![r] = label], UNCHANGED <<stats, carried>>
      PROVE  StatsInv'
  <2>1. Underway' = Underway
    BY <1>4 DEF Underway, Active, HttpTypeOK
  <2> QED
    BY <1>1, <1>3, <1>4, <2>1 DEF total, ended
<1>5. ASSUME NEW r \in Requests, Active(r),
             pc' = [pc EXCEPT ![r] = "returned"] \/ pc' = [pc EXCEPT ![r] = "threw"],
             total' = total, ended' = ended + 1, carried' = carried
      PROVE  StatsInv'
  <2>1. Underway' = Underway \ {r} /\ r \in Underway
    BY <1>5 DEF Underway, Active, HttpTypeOK
  <2>2. IsFiniteSet(Underway') /\ Cardinality(Underway') = Cardinality(Underway) - 1
    BY <1>1, <2>1, FS_RemoveElement
  <2> QED
    BY <1>1, <1>2, <1>3, <1>5, <2>2
<1>6. ASSUME NEW r \in Requests, Begin(r) PROVE StatsInv'
  <2>1. Underway' = Underway \cup {r} /\ r \notin Underway
    BY <1>6 DEF Begin, Goto, Underway, Active, HttpTypeOK
  <2>2. IsFiniteSet(Underway') /\ Cardinality(Underway') = Cardinality(Underway) + 1
    BY <1>1, <2>1, FS_AddElement
  <2>3. total' = total + 1 /\ ended' = ended /\ carried' = carried
    BY <1>6 DEF Begin, HttpTypeOK, total, ended
  <2> QED
    BY <1>1, <1>2, <1>3, <2>2, <2>3
<1>7. ASSUME NEW r \in Requests, Moves(r) \/ Configure(r) \/ LoopEnds(r) \/ Perform(r)
      PROVE  StatsInv'
    BY <1>4, <1>7 DEF Moves, Configure, LoopEnds, Perform, Goto, Active
<1>8. ASSUME NEW r \in Requests, NEW s \in Statuses, Answered(r, s) PROVE StatsInv'
    BY <1>4, <1>8 DEF Answered, Retry, Goto, Active
<1>9. ASSUME NEW r \in Requests, Finish(r) PROVE StatsInv'
  <2>1. total' = total /\ ended' = ended + 1
    BY <1>9 DEF Finish, HttpTypeOK, total, ended
  <2> QED
    BY <1>5, <1>9, <2>1 DEF Finish, Goto, Active
<1>10. ASSUME NEW r \in Requests, NEW b \in BOOLEAN, NoAnswer(r, b) PROVE StatsInv'
  <2>1. CASE attempts[r] < Budget
    BY <1>4, <1>10, <2>1 DEF NoAnswer, Retry, Goto, Active
  <2>2. CASE ~(attempts[r] < Budget)
    <3>1. total' = total /\ ended' = ended + 1
      BY <1>10, <2>2 DEF NoAnswer, HttpTypeOK, total, ended
    <3> QED
      BY <1>5, <1>10, <2>2, <3>1 DEF NoAnswer, Goto, Active
  <2> QED
    BY <2>1, <2>2
<1>11. CASE Reconfigures
  <2>1. Underway' = Underway
    BY <1>11 DEF Reconfigures, Underway, Active
  <2>2. CASE UNCHANGED <<stats, carried>>
    BY <1>1, <1>3, <2>1, <2>2 DEF total, ended
  <2>3. CASE stats' = ZeroStats /\ carried' = Cardinality(Underway)
    <3>1. total' = 0 /\ ended' = 0
      BY <2>3 DEF ZeroStats, total, ended
    <3> QED
      BY <1>1, <1>3, <2>1, <2>3, <3>1
  <2> QED
    BY <1>11, <2>2, <2>3 DEF Reconfigures
<1>12. CASE UNCHANGED ownVars
    BY <1>1, <1>3, <1>12 DEF ownVars, Underway, Active, total, ended
<1> QED
    BY <1>6, <1>7, <1>8, <1>9, <1>10, <1>11, <1>12, ClientSteps DEF RequestStep

\* Nobody else uses the handle once a request has taken it without an overlap.
LEMMA OverlapStep ==
    ASSUME HttpTypeOK, [HttpNext]_httpVars, ~overlap'
    PROVE  /\ ~overlap
           /\ \A r \in Requests : Configure(r) => \A q \in Requests : ~Using(q)
<1>1. ASSUME NEW r \in Requests, Configure(r) PROVE ~overlap /\ \A q \in Requests : ~Using(q)
    BY <1>1, Zenon DEF Configure, Using
<1>2. ASSUME NEW r \in Requests, RequestStep(r), ~Configure(r) PROVE overlap' = overlap
    BY <1>2 DEF RequestStep, Begin, Moves, LoopEnds, Perform, Finish, Answered, NoAnswer
<1>3. ASSUME Reconfigures \/ UNCHANGED ownVars PROVE overlap' = overlap
    BY <1>3 DEF Reconfigures, ownVars
<1> QED
    BY <1>1, <1>2, <1>3, ClientSteps

\* Every step keeps the handle with the one request that uses it.
LEMMA HandleStep == ASSUME HttpTypeOK, HandleInv, [HttpNext]_httpVars PROVE HandleInv'
<1> USE DEF HandleInv, Using
<1>1. ASSUME NEW r \in Requests, Begin(r) \/ Moves(r) \/ LoopEnds(r) \/ Finish(r)
      PROVE  HandleInv'
    BY <1>1 DEF HttpTypeOK, Begin, Moves, LoopEnds, Finish, Goto
<1>2. ASSUME NEW r \in Requests, Configure(r) PROVE HandleInv'
  <2>1. /\ handle' = r /\ cargo' = cargo /\ pc' = [pc EXCEPT ![r] = "configured"]
        /\ pc = [q \in Requests |-> pc[q]]
    BY <1>2 DEF Configure, Goto, HttpTypeOK
  <2>2. ~overlap' => ~overlap /\ \A q \in Requests : ~Using(q)
    BY <1>2, OverlapStep
  <2> QED
    BY <2>1, <2>2
<1>3. ASSUME NEW r \in Requests, Perform(r) PROVE HandleInv'
    BY <1>3 DEF HttpTypeOK, Perform, Goto
<1>4. ASSUME NEW r \in Requests, NEW s \in Statuses, Answered(r, s) PROVE HandleInv'
    BY <1>4 DEF HttpTypeOK, Answered, Retry, Goto
<1>5. ASSUME NEW r \in Requests, NEW b \in BOOLEAN, NoAnswer(r, b) PROVE HandleInv'
    BY <1>5 DEF HttpTypeOK, NoAnswer, Retry, Goto
<1>6. ASSUME Reconfigures \/ UNCHANGED ownVars PROVE HandleInv'
    BY <1>6 DEF Reconfigures, ownVars
<1> QED
    BY <1>1, <1>2, <1>3, <1>4, <1>5, <1>6, ClientSteps DEF RequestStep

\* Every step keeps a request with a final answer out of the loop.
LEMMA UnansweredStep ==
    ASSUME HttpTypeOK, UnansweredInv, [HttpNext]_httpVars PROVE UnansweredInv'
<1> USE DEF UnansweredInv, HttpTypeOK
<1>1. ASSUME NEW r \in Requests, Begin(r) \/ Moves(r) \/ Configure(r) \/ LoopEnds(r) \/ Perform(r)
      PROVE  UnansweredInv'
    BY <1>1 DEF Begin, Moves, Configure, LoopEnds, Perform, Goto
<1>2. ASSUME NEW r \in Requests, Finish(r) PROVE UnansweredInv'
    BY <1>2 DEF Finish, Goto
<1>3. ASSUME NEW r \in Requests, NEW s \in Statuses, Answered(r, s) PROVE UnansweredInv'
    BY <1>3 DEF Answered, Retry, Goto, Statuses
<1>4. ASSUME NEW r \in Requests, NEW b \in BOOLEAN, NoAnswer(r, b) PROVE UnansweredInv'
    BY <1>4 DEF NoAnswer, Retry, Goto
<1>5. ASSUME Reconfigures \/ UNCHANGED ownVars PROVE UnansweredInv'
    BY <1>5 DEF Reconfigures, ownVars
<1> QED
    BY <1>1, <1>2, <1>3, <1>4, <1>5, ClientSteps DEF RequestStep

\* Every step keeps the attempts within a policy that stays.
LEMMA AttemptsStep == ASSUME HttpTypeOK, AttemptsInv, [HttpNext]_httpVars PROVE AttemptsInv'
<1> USE DEF AttemptsInv, Using
<1>0. /\ pc = [q \in Requests |-> pc[q]] /\ attempts \in [Requests -> Nat]
      /\ Budget \in Int /\ changed \in Nat
    BY BudgetIsInt, HttpAssumption DEF HttpTypeOK
<1>1. ASSUME NEW r \in Requests,
             Begin(r) \/ Moves(r) \/ Configure(r) \/ LoopEnds(r) \/ Perform(r) \/ Finish(r)
      PROVE  AttemptsInv'
  <2>1. settings' = settings /\ changed' = changed /\ attempts' = attempts
    BY <1>1 DEF Begin, Moves, Configure, LoopEnds, Perform, Finish
  <2>2. \E label \in {"gate", "wait", "loop", "configured", "inflight", "finish", "returned"} :
            /\ pc' = [pc EXCEPT ![r] = label]
            /\ label = "configured" => attempts[r] <= Budget
            /\ label = "inflight" => pc[r] = "configured"
    BY <1>1 DEF Begin, Moves, Configure, LoopEnds, Perform, Finish, Goto
  <2> QED
    BY <1>0, <2>1, <2>2, BudgetStays
<1>2. ASSUME NEW r \in Requests,
             (\E s \in Statuses : Answered(r, s)) \/ (\E b \in BOOLEAN : NoAnswer(r, b))
      PROVE  AttemptsInv'
  <2>1. settings' = settings /\ changed' = changed
    BY <1>2 DEF Answered, NoAnswer
  <2>2. \/ /\ attempts[r] < Budget
           /\ attempts' = [attempts EXCEPT ![r] = @ + 1] /\ pc' = [pc EXCEPT ![r] = "backoff"]
        \/ /\ attempts' = attempts
           /\ pc' = [pc EXCEPT ![r] = "finish"] \/ pc' = [pc EXCEPT ![r] = "threw"]
    BY <1>2 DEF Answered, NoAnswer, Retry, Goto
  <2> QED
    BY <1>0, <2>1, <2>2, BudgetStays
<1>3. CASE Reconfigures
  <2>1. pc' = pc /\ attempts' = attempts
    BY <1>3 DEF Reconfigures
  <2>2. (\A r \in Requests : pc[r] = "idle") \/ changed' # 0
    BY <1>0, <1>3 DEF Reconfigures, Change
  <2> QED
    BY <1>0, <2>1, <2>2
<1>4. CASE UNCHANGED ownVars
    BY <1>4, BudgetStays DEF ownVars
<1> QED
    BY <1>1, <1>2, <1>3, <1>4, ClientSteps DEF RequestStep

\* What an answer, or a transfer without one, does to a request that has the
\* handle for itself: one more send at most, and another round only within the
\* budget.
LEMMA TransferEnds ==
    ASSUME HttpTypeOK, HandleInv, ~overlap, NEW r \in Requests,
           (\E s \in Statuses : Answered(r, s)) \/ (\E b \in BOOLEAN : NoAnswer(r, b))
    PROVE  /\ settings' = settings /\ changed' = changed
           /\ Using(r)
           /\ wire' = wire \/ wire' = [wire EXCEPT ![r] = @ + 1]
           /\ \/ /\ attempts[r] < Budget
                 /\ attempts' = [attempts EXCEPT ![r] = @ + 1]
                 /\ pc' = [pc EXCEPT ![r] = "backoff"]
              \/ /\ attempts' = attempts
                 /\ pc' = [pc EXCEPT ![r] = "finish"] \/ pc' = [pc EXCEPT ![r] = "threw"]
<1>1. pc[r] = "inflight" /\ cargo[r] = r
    BY DEF Answered, NoAnswer, HandleInv
<1> QED
    BY <1>1 DEF Answered, NoAnswer, Retry, Goto, Using

\* Every step keeps the sends within the attempts.
LEMMA SendsStep ==
    ASSUME HttpTypeOK, HandleInv, AttemptsInv, SendsInv, [HttpNext]_httpVars PROVE SendsInv'
<1> SUFFICES ASSUME ~overlap' PROVE SendsInv'
    BY DEF SendsInv
<1>0. /\ pc = [q \in Requests |-> pc[q]] /\ attempts \in [Requests -> Nat]
      /\ wire \in [Requests -> Nat] /\ Budget \in Int /\ changed \in Nat /\ ~overlap
    BY BudgetIsInt, HttpAssumption, OverlapStep DEF HttpTypeOK
<1> USE DEF SendsInv, Ended, Using
<1>1. ASSUME NEW r \in Requests, Begin(r) \/ Moves(r) \/ Configure(r) \/ Perform(r)
      PROVE  SendsInv'
  <2>1. settings' = settings /\ changed' = changed /\ attempts' = attempts /\ wire' = wire
    BY <1>1 DEF Begin, Moves, Configure, Perform
  <2>2. ~Ended(r) /\ \E label \in {"gate", "wait", "loop", "configured", "inflight"} :
            pc' = [pc EXCEPT ![r] = label]
    BY <1>1 DEF Begin, Moves, Configure, Perform, Goto
  <2> QED
    BY <1>0, <2>1, <2>2, BudgetStays
<1>2. ASSUME NEW r \in Requests, LoopEnds(r) PROVE SendsInv'
  <2>1. /\ settings' = settings /\ changed' = changed /\ attempts' = attempts /\ wire' = wire
        /\ pc[r] = "loop" /\ attempts[r] > Budget /\ pc' = [pc EXCEPT ![r] = "finish"]
    BY <1>2 DEF LoopEnds, Goto
  <2> QED
    BY <1>0, <2>1, BudgetStays DEF AttemptsInv
<1>3. ASSUME NEW r \in Requests, Finish(r) PROVE SendsInv'
  <2>1. /\ settings' = settings /\ changed' = changed /\ attempts' = attempts /\ wire' = wire
        /\ pc[r] = "finish" /\ pc' = [pc EXCEPT ![r] = "returned"]
    BY <1>3 DEF Finish, Goto
  <2> QED
    BY <1>0, <2>1, BudgetStays
<1>4. ASSUME NEW r \in Requests,
             (\E s \in Statuses : Answered(r, s)) \/ (\E b \in BOOLEAN : NoAnswer(r, b))
      PROVE  SendsInv'
  <2>1. /\ settings' = settings /\ changed' = changed
        /\ Using(r)
        /\ wire' = wire \/ wire' = [wire EXCEPT ![r] = @ + 1]
        /\ \/ /\ attempts[r] < Budget
              /\ attempts' = [attempts EXCEPT ![r] = @ + 1]
              /\ pc' = [pc EXCEPT ![r] = "backoff"]
           \/ /\ attempts' = attempts
              /\ pc' = [pc EXCEPT ![r] = "finish"] \/ pc' = [pc EXCEPT ![r] = "threw"]
    BY <1>0, <1>4, TransferEnds
  <2>2. Budget' = Budget
    BY <2>1, BudgetStays
  <2>3. /\ wire[r] <= attempts[r] /\ wire'[r] \in Nat /\ wire'[r] <= wire[r] + 1
        /\ changed = 0 => attempts[r] <= Budget
    BY <1>0, <2>1 DEF AttemptsInv
  <2>4. ASSUME NEW q \in Requests
        PROVE  /\ wire'[q] <= IF Ended(q)' THEN attempts'[q] + 1 ELSE attempts'[q]
               /\ changed' = 0 /\ Ended(q)' => wire'[q] <= (IF Budget' < 0 THEN 0 ELSE Budget' + 1)
    <3>1. CASE q = r
      BY <1>0, <2>1, <2>2, <2>3, <3>1
    <3>2. CASE q # r
      BY <1>0, <2>1, <2>2, <3>2
    <3> QED
      BY <3>1, <3>2
  <2> QED
    BY <2>4
<1>5. CASE Reconfigures
  <2>1. pc' = pc /\ attempts' = attempts /\ wire' = wire
    BY <1>5 DEF Reconfigures
  <2>2. (\A r \in Requests : pc[r] = "idle") \/ changed' # 0
    BY <1>0, <1>5 DEF Reconfigures, Change
  <2> QED
    BY <1>0, <2>1, <2>2
<1>6. CASE UNCHANGED ownVars
    BY <1>0, <1>6, BudgetStays DEF ownVars
<1> QED
    BY <1>1, <1>2, <1>3, <1>4, <1>5, <1>6, ClientSteps DEF RequestStep

\* Every step keeps foreign bytes out of a buffer, and the answer in it.
LEMMA BodyStep ==
    ASSUME HttpTypeOK, HandleInv, AttemptsInv, BodyInv, [HttpNext]_httpVars PROVE BodyInv'
<1> SUFFICES ASSUME ~overlap' PROVE BodyInv'
    BY DEF BodyInv
<1>0. /\ pc = [q \in Requests |-> pc[q]] /\ attempts \in [Requests -> Nat]
      /\ response = [q \in Requests |-> response[q]] /\ body = [q \in Requests |-> body[q]]
      /\ Budget \in Int /\ changed \in Nat /\ ~overlap
    BY BudgetIsInt, HttpAssumption, OverlapStep DEF HttpTypeOK
<1> USE DEF BodyInv
<1>1. ASSUME NEW r \in Requests, Begin(r) \/ Moves(r) \/ Perform(r) PROVE BodyInv'
  <2>1. settings' = settings /\ changed' = changed /\ body' = body /\ response' = response
    BY <1>1 DEF Begin, Moves, Perform
  <2>2. \E label \in {"gate", "wait", "loop", "inflight"} : pc' = [pc EXCEPT ![r] = label]
    BY <1>1 DEF Begin, Moves, Perform, Goto
  <2> QED
    BY <1>0, <2>1, <2>2, BudgetStays
<1>2. ASSUME NEW r \in Requests, Configure(r) PROVE BodyInv'
  <2>1. /\ settings' = settings /\ changed' = changed /\ response' = response
        /\ body' = [body EXCEPT ![r] = {}] /\ pc' = [pc EXCEPT ![r] = "configured"]
    BY <1>2 DEF Configure, Goto
  <2> QED
    BY <1>0, <2>1, BudgetStays
<1>3. ASSUME NEW r \in Requests, LoopEnds(r) PROVE BodyInv'
  <2>1. /\ settings' = settings /\ changed' = changed /\ body' = body /\ response' = response
        /\ attempts[r] > Budget /\ pc' = [pc EXCEPT ![r] = "finish"]
    BY <1>3 DEF LoopEnds, Goto
  <2>2. ~(changed = 0 /\ Budget >= 0)
    BY <1>0, <2>1 DEF AttemptsInv
  <2> QED
    BY <1>0, <2>1, <2>2, BudgetStays
<1>4. ASSUME NEW r \in Requests, Finish(r) PROVE BodyInv'
  <2>1. /\ settings' = settings /\ changed' = changed /\ body' = body /\ response' = response
        /\ pc[r] = "finish" /\ pc' = [pc EXCEPT ![r] = "returned"]
    BY <1>4 DEF Finish, Goto
  <2> QED
    BY <1>0, <2>1, BudgetStays
<1>5. ASSUME NEW r \in Requests, NEW s \in Statuses, Answered(r, s) PROVE BodyInv'
  <2>1. cargo[r] = r /\ handle = r
    BY <1>0, <1>5 DEF Answered, HandleInv, Using
  <2>2. /\ settings' = settings /\ changed' = changed
        /\ body' = [body EXCEPT ![r] = @ \cup {r}] /\ response' = [response EXCEPT ![r] = s]
        /\ pc' = [pc EXCEPT ![r] = "backoff"] \/ pc' = [pc EXCEPT ![r] = "finish"]
    BY <1>5, <2>1 DEF Answered, Retry, Goto
  <2>3. body'[r] = {r} /\ response'[r] # "none"
    BY <1>0, <2>2 DEF Statuses
  <2> QED
    BY <1>0, <2>2, <2>3, BudgetStays
<1>6. ASSUME NEW r \in Requests, NEW b \in BOOLEAN, NoAnswer(r, b) PROVE BodyInv'
  <2>1. /\ settings' = settings /\ changed' = changed /\ body' = body /\ response' = response
        /\ pc' = [pc EXCEPT ![r] = "backoff"] \/ pc' = [pc EXCEPT ![r] = "threw"]
    BY <1>6 DEF NoAnswer, Retry, Goto
  <2> QED
    BY <1>0, <2>1, BudgetStays
<1>7. CASE Reconfigures
  <2>1. pc' = pc /\ body' = body /\ response' = response
    BY <1>7 DEF Reconfigures
  <2>2. (\A r \in Requests : pc[r] = "idle") \/ changed' # 0
    BY <1>0, <1>7 DEF Reconfigures, Change
  <2> QED
    BY <1>0, <2>1, <2>2
<1>8. CASE UNCHANGED ownVars
    BY <1>0, <1>8, BudgetStays DEF ownVars
<1> QED
    BY <1>1, <1>2, <1>3, <1>4, <1>5, <1>6, <1>7, <1>8, ClientSteps DEF RequestStep

-----------------------------------------------------------------------------
(* The client: what follows.                                               *)

ClientInv ==
    /\ LimiterInv /\ HttpTypeOK /\ StatsInv
    /\ HandleInv /\ UnansweredInv /\ AttemptsInv /\ SendsInv /\ BodyInv

\* A new client has made no request.
LEMMA ClientInitially == HttpInit => ClientInv
<1> SUFFICES ASSUME HttpInit PROVE ClientInv
    OBVIOUS
<1>1. LimiterInv
    BY LimiterInitially DEF HttpInit
<1>2. HttpTypeOK
  <2>1. /\ settings \in [rateLimit : BOOLEAN, retriesEnabled : BOOLEAN, maxRetries : RetryLimits]
        /\ overlap \in BOOLEAN
    BY HttpAssumption, Zenon DEF HttpInit
  <2>2. stats \in [total : Nat, successful : Nat, failed : Nat, threw : Nat]
    BY DEF HttpInit, ZeroStats
  <2>3. carried \in Nat /\ changed \in 0..LiveChanges
    BY HttpAssumption DEF HttpInit
  <2> QED
    BY <1>1, <2>1, <2>2, <2>3 DEF HttpInit, HttpTypeOK, LimiterInv, Requests
<1>3. StatsInv
  <2>1. Underway = {}
    BY DEF HttpInit, Underway, Active
  <2>2. stats = ZeroStats /\ carried = 0
    BY DEF HttpInit
  <2> QED
    BY <2>1, <2>2, FS_EmptySet DEF StatsInv, StatsBalance, Underway, ZeroStats
<1>4. /\ \A r \in Requests : /\ pc[r] = "idle" /\ response[r] = "none" /\ attempts[r] = 0
                             /\ wire[r] = 0 /\ body[r] = {}
    BY DEF HttpInit
<1>5. HandleInv /\ UnansweredInv /\ AttemptsInv /\ BodyInv
    BY <1>4 DEF HandleInv, UnansweredInv, AttemptsInv, BodyInv, Using
<1>6. SendsInv
    BY <1>4 DEF SendsInv, Ended
<1> QED
    BY <1>1, <1>2, <1>3, <1>5, <1>6 DEF ClientInv

\* The invariant of the client, for any requests, limits, settings and failures:
\* it needs no bound on how often the settings change.
THEOREM ClientInvariant == HttpSpec => []ClientInv
<1>1. ClientInv /\ [HttpNext]_httpVars => ClientInv'
  <2> SUFFICES ASSUME ClientInv, [HttpNext]_httpVars PROVE ClientInv'
    OBVIOUS
  <2>1. LimiterInv'
    BY LimiterInside DEF ClientInv
  <2>2. HttpTypeOK'
    BY <2>1, ClientTypeStep DEF ClientInv, LimiterInv, StatsInv
  <2> QED
    BY <2>1, <2>2, StatsStep, HandleStep, UnansweredStep, AttemptsStep, SendsStep, BodyStep
    DEF ClientInv
<1> QED
    BY <1>1, ClientInitially, PTL DEF HttpSpec

\* The client and its limiter keep their types: no window of the limiter grants
\* performRequest() more than a budget.
THEOREM ClientTypes == HttpSpec => []HttpTypeOK
<1>1. ClientInv => HttpTypeOK
    BY DEF ClientInv
<1> QED
    BY <1>1, ClientInvariant, PTL

\* stats_ accounts for every request, also across resetStatistics().
THEOREM StatsAlwaysBalance == HttpSpec => []StatsBalance
<1>1. ClientInv => StatsBalance
    BY DEF ClientInv, StatsInv
<1> QED
    BY <1>1, ClientInvariant, PTL

\* Without overlap on the handle performRequest() sends a request at most once per
\* attempt, and under a policy that stays never more often than it allows.
THEOREM SendsAlwaysBounded == HttpSpec => []SendsBounded
<1>1. ClientInv => SendsBounded
  <2> SUFFICES ASSUME ClientInv, ~overlap, NEW r \in Requests
               PROVE  /\ wire[r] <= attempts[r] + 1
                      /\ changed = 0 => wire[r] <= (IF Budget < 0 THEN 0 ELSE Budget + 1)
    BY DEF SendsBounded
  <2>1. wire[r] \in Nat /\ attempts[r] \in Nat /\ Budget \in Int
    BY BudgetIsInt DEF ClientInv, HttpTypeOK
  <2>2. /\ wire[r] <= IF Ended(r) THEN attempts[r] + 1 ELSE attempts[r]
        /\ changed = 0 /\ Ended(r) => wire[r] <= (IF Budget < 0 THEN 0 ELSE Budget + 1)
    BY DEF ClientInv, SendsInv
  <2>3. changed = 0 => attempts[r] = 0 \/ attempts[r] <= Budget
    BY DEF ClientInv, AttemptsInv
  <2> QED
    BY <2>1, <2>2, <2>3
<1> QED
    BY <1>1, ClientInvariant, PTL

\* Calls that do not overlap on the handle return their own answers, under a policy
\* that stays and lets a first attempt be made.
THEOREM AnswersAreOwn == HttpSpec => []ResponseIsOwn
<1>1. ClientInv => ResponseIsOwn
    BY DEF ClientInv, BodyInv, ResponseIsOwn, ReturnsOwnAnswer
<1> QED
    BY <1>1, ClientInvariant, PTL

\* Without overlap on the handle a request the server has answered for good is not
\* sent again.
THEOREM AnsweredNotResent == HttpSpec => NoResendAfterAnswer
<1>1. ASSUME ClientInv, [HttpNext]_httpVars, ~overlap, NEW r \in Requests, wire'[r] > wire[r]
      PROVE  response[r] \notin {"ok", "clientError"}
  <2>1. HttpTypeOK /\ HandleInv /\ UnansweredInv
    BY <1>1 DEF ClientInv
  <2>2. wire[r] \in Nat
    BY <2>1 DEF HttpTypeOK
  <2>3. ASSUME NEW q \in Requests,
               (\E s \in Statuses : Answered(q, s)) \/ (\E b \in BOOLEAN : NoAnswer(q, b))
        PROVE  response[r] \notin {"ok", "clientError"}
    <3>1. Using(q) /\ (wire' = wire \/ wire' = [wire EXCEPT ![q] = @ + 1])
      BY <1>1, <2>1, <2>3, TransferEnds
    <3>2. q = r
      BY <1>1, <2>1, <2>2, <3>1 DEF HttpTypeOK
    <3> QED
      BY <2>1, <3>1, <3>2 DEF UnansweredInv, Using
  <2>4. ASSUME NEW q \in Requests,
               Begin(q) \/ Moves(q) \/ Configure(q) \/ LoopEnds(q) \/ Perform(q) \/ Finish(q)
        PROVE  wire' = wire
    BY <2>4 DEF Begin, Moves, Configure, LoopEnds, Perform, Finish
  <2>5. ASSUME Reconfigures \/ UNCHANGED ownVars PROVE wire' = wire
    BY <2>5 DEF Reconfigures, ownVars
  <2> QED
    BY <1>1, <2>1, <2>2, <2>3, <2>4, <2>5, ClientSteps DEF RequestStep
<1>2. ClientInv /\ [HttpNext]_httpVars =>
        [~overlap => \A r \in Requests :
            wire'[r] > wire[r] => response[r] \notin {"ok", "clientError"}]_httpVars
    BY <1>1
<1> QED
    BY <1>2, ClientInvariant, PTL DEF HttpSpec, NoResendAfterAnswer

=============================================================================
