----------------------------- MODULE HttpClient -----------------------------
(***************************************************************************)
(* HttpClient::Impl of src/common/http_client.cpp: performRequest() with   *)
(* its rate-limit gate, its retry loop and its statistics, the settings    *)
(* that steer it, and the CURL handle that all requests of a client share. *)
(* The limiter is the one of module RateLimiter; a request is one of its   *)
(* callers.                                                                *)
(*                                                                         *)
(* Between curl_easy_reset and curl_easy_perform a request writes its URL, *)
(* its payload and the address of its receive buffer into the handle; a    *)
(* transfer carries what the handle holds when it starts, and its bytes go *)
(* to the buffer the handle holds when they arrive.  Urls, headers and     *)
(* latencies are left out.                                                 *)
(***************************************************************************)
EXTENDS RateLimiter, Integers

CONSTANTS RetryLimits,     \* values of maxRetries_: setRetryPolicy() takes any int
          DefaultRetries,  \* the one it starts with
          LiveChanges      \* bound: settings changed, statistics reset once requests have begun

ASSUME HttpAssumption ==
    /\ RetryLimits \subseteq Int /\ DefaultRetries \in RetryLimits
    /\ LiveChanges \in Nat

Requests == Callers
Statuses == {"ok", "clientError", "retryable"}  \* 2xx; 3xx, 4xx; 5xx and 429

VARIABLES pc,        \* where each request is in performRequest()
          attempts,  \* attempts of the retry loop
          response,  \* status of `response', "none" before it is assigned
          body,      \* whose bytes are in each request's responseBody
          handle,    \* the request that last wrote the options of curlHandle_
          cargo,     \* what each transfer under way carries
          wire,      \* how often the server received each request (history)
          settings,  \* rateLimitEnabled_, retriesEnabled_, maxRetries_
          stats,     \* stats_
          carried,   \* requests under way at the last resetStatistics() (history)
          changed,   \* how much of LiveChanges is used (history)
          overlap    \* two requests have used the handle at the same time (history)

ownVars == <<pc, attempts, response, body, handle, cargo, wire, settings, stats,
             carried, changed, overlap>>
httpVars == <<limiterVars, ownVars>>

Active(r) == pc[r] \notin {"idle", "returned", "threw"}
Budget == IF settings.retriesEnabled THEN settings.maxRetries ELSE 0

\* The counters of requests; those of delays and of repetitions are left out.
\* threw counts requests that ended with an exception: no counter of the code
\* does (history).
ZeroStats == [total |-> 0, successful |-> 0, failed |-> 0, threw |-> 0]

HttpInit ==
    /\ LimiterInit
    /\ pc = [r \in Requests |-> "idle"]
    /\ attempts = [r \in Requests |-> 0]
    /\ response = [r \in Requests |-> "none"]
    /\ body = [r \in Requests |-> {}]
    /\ handle = NoCaller
    /\ cargo = [r \in Requests |-> NoCaller]
    /\ wire = [r \in Requests |-> 0]
    /\ settings = [rateLimit |-> FALSE, retriesEnabled |-> FALSE,
                   maxRetries |-> DefaultRetries]
    /\ stats = ZeroStats
    /\ carried = 0
    /\ changed = 0
    /\ overlap = FALSE

Goto(r, label) == pc' = [pc EXCEPT ![r] = label]

-----------------------------------------------------------------------------
(* The gate.                                                               *)

Begin(r) ==
    /\ pc[r] = "idle"
    /\ stats' = [stats EXCEPT !.total = @ + 1]
    /\ Goto(r, "gate")
    /\ UNCHANGED <<limiterVars, attempts, response, body, handle, cargo, wire,
                   settings, carried, changed, overlap>>

Gate(r) ==
    /\ pc[r] = "gate"
    /\ IF settings.rateLimit
       THEN TryAcquire(r) /\ Goto(r, IF rpc'[r] = "limited" THEN "wait" ELSE "loop")
       ELSE Goto(r, "loop") /\ UNCHANGED limiterVars
    /\ UNCHANGED <<attempts, response, body, handle, cargo, wire, settings, stats,
                   carried, changed, overlap>>

InLimiter(r, step) ==
    /\ pc[r] = "wait"
    /\ step
    /\ Goto(r, IF rpc'[r] = "idle" THEN "loop" ELSE "wait")
    /\ UNCHANGED <<attempts, response, body, handle, cargo, wire, settings, stats,
                   carried, changed, overlap>>

WaitSlot(r) == InLimiter(r, WaitForSlot(r))
WaitSpurious(r) == InLimiter(r, SpuriousWake(r))

-----------------------------------------------------------------------------
(* The retry loop.                                                         *)

\* The loop condition holds; performSingleRequest() resets the handle and
\* writes its options, a fresh responseBody among them.
Configure(r) ==
    /\ pc[r] = "loop"
    /\ attempts[r] <= Budget
    /\ handle' = r
    /\ body' = [body EXCEPT ![r] = {}]
    /\ overlap' = (overlap \/ \E q \in Requests : pc[q] \in {"configured", "inflight"})
    /\ Goto(r, "configured")
    /\ UNCHANGED <<limiterVars, attempts, response, cargo, wire, settings, stats, carried,
                   changed>>

\* The loop condition fails, at once with a negative limit or after a pause in
\* which the settings changed: `response' is returned as it is.
LoopEnds(r) ==
    /\ pc[r] = "loop"
    /\ attempts[r] > Budget
    /\ Goto(r, "finish")
    /\ UNCHANGED <<limiterVars, attempts, response, body, handle, cargo, wire,
                   settings, stats, carried, changed, overlap>>

\* curl_easy_perform starts.
Perform(r) ==
    /\ pc[r] = "configured"
    /\ cargo' = [cargo EXCEPT ![r] = handle]
    /\ Goto(r, "inflight")
    /\ UNCHANGED <<limiterVars, attempts, response, body, handle, wire, settings,
                   stats, carried, changed, overlap>>

\* Mutant: another round of the loop costs nothing.
RetryUncounted(r) ==
    /\ Goto(r, "backoff")
    /\ UNCHANGED <<attempts, stats>>

\* Another round of the loop, after a pause.
Retry(r) ==
    /\ attempts' = [attempts EXCEPT ![r] = @ + 1]
    /\ Goto(r, "backoff")
    /\ UNCHANGED stats

\* Mutant: everything but a success is tried again.
AnsweredRetryAll(r, status) ==
    /\ pc[r] = "inflight"
    /\ wire' = [wire EXCEPT ![cargo[r]] = @ + 1]
    /\ body' = [body EXCEPT ![handle] = @ \cup {cargo[r]}]
    /\ response' = [response EXCEPT ![r] = status]
    /\ IF status # "ok" /\ attempts[r] < Budget
       THEN Retry(r)
       ELSE Goto(r, "finish") /\ UNCHANGED <<attempts, stats>>
    /\ cargo' = [cargo EXCEPT ![r] = NoCaller]
    /\ UNCHANGED <<limiterVars, handle, settings, carried, changed, overlap>>

\* The server answers; a 5xx or 429 is tried again while the budget lasts and
\* is the result of the call otherwise.
Answered(r, status) ==
    /\ pc[r] = "inflight"
    /\ wire' = [wire EXCEPT ![cargo[r]] = @ + 1]
    /\ body' = [body EXCEPT ![handle] = @ \cup {cargo[r]}]
    /\ response' = [response EXCEPT ![r] = status]
    /\ IF status = "retryable" /\ attempts[r] < Budget
       THEN Retry(r)
       ELSE Goto(r, "finish") /\ UNCHANGED <<attempts, stats>>
    /\ cargo' = [cargo EXCEPT ![r] = NoCaller]
    /\ UNCHANGED <<limiterVars, handle, settings, carried, changed, overlap>>

\* Mutant: the exception is swallowed and the loop left.
NoAnswerSwallowed(r, reached) ==
    /\ pc[r] = "inflight"
    /\ wire' = IF reached THEN [wire EXCEPT ![cargo[r]] = @ + 1] ELSE wire
    /\ IF attempts[r] < Budget
       THEN Retry(r)
       ELSE Goto(r, "finish") /\ UNCHANGED <<attempts, stats>>
    /\ cargo' = [cargo EXCEPT ![r] = NoCaller]
    /\ UNCHANGED <<limiterVars, response, body, handle, settings, carried, changed, overlap>>

\* curl fails (no connection, timeout): ConnectionError, whether or not the
\* server got the request.
NoAnswer(r, reached) ==
    /\ pc[r] = "inflight"
    /\ wire' = IF reached THEN [wire EXCEPT ![cargo[r]] = @ + 1] ELSE wire
    /\ IF attempts[r] < Budget
       THEN Retry(r)
       ELSE /\ Goto(r, "threw")
            /\ stats' = [stats EXCEPT !.threw = @ + 1]
            /\ UNCHANGED attempts
    /\ cargo' = [cargo EXCEPT ![r] = NoCaller]
    /\ UNCHANGED <<limiterVars, response, body, handle, settings, carried, changed, overlap>>

BackoffOver(r) ==
    /\ pc[r] = "backoff"
    /\ Goto(r, "loop")
    /\ UNCHANGED <<limiterVars, attempts, response, body, handle, cargo, wire,
                   settings, stats, carried, changed, overlap>>

\* Mutant: only successes are counted.
FinishCountsSuccess(r) ==
    /\ pc[r] = "finish"
    /\ stats' = IF response[r] = "ok" THEN [stats EXCEPT !.successful = @ + 1] ELSE stats
    /\ Goto(r, "returned")
    /\ UNCHANGED <<limiterVars, attempts, response, body, handle, cargo, wire,
                   settings, carried, changed, overlap>>

\* The final statistics and the return.  The status of a response that was
\* never assigned is uninitialised and may read as anything.
Finish(r) ==
    /\ pc[r] = "finish"
    /\ \E success \in BOOLEAN :
        /\ response[r] # "none" => success = (response[r] = "ok")
        /\ stats' = IF success THEN [stats EXCEPT !.successful = @ + 1]
                               ELSE [stats EXCEPT !.failed = @ + 1]
    /\ Goto(r, "returned")
    /\ UNCHANGED <<limiterVars, attempts, response, body, handle, cargo, wire,
                   settings, carried, changed, overlap>>

-----------------------------------------------------------------------------
(* Settings, which may change at any time, and statistics.                 *)

\* Free before the first request, LiveChanges times after it.
Change ==
    IF \A r \in Requests : pc[r] = "idle"
    THEN UNCHANGED changed
    ELSE changed < LiveChanges /\ changed' = changed + 1

SetRetryPolicy ==
    /\ \E n \in RetryLimits : settings' = [settings EXCEPT !.maxRetries = n]
    /\ Change
    /\ UNCHANGED <<limiterVars, pc, attempts, response, body, handle, cargo, wire,
                   stats, carried, overlap>>

EnableRetries ==
    /\ \E b \in BOOLEAN : settings' = [settings EXCEPT !.retriesEnabled = b]
    /\ Change
    /\ UNCHANGED <<limiterVars, pc, attempts, response, body, handle, cargo, wire,
                   stats, carried, overlap>>

EnableRateLimit ==
    /\ \E b \in BOOLEAN : settings' = [settings EXCEPT !.rateLimit = b]
    /\ Change
    /\ UNCHANGED <<limiterVars, pc, attempts, response, body, handle, cargo, wire,
                   stats, carried, overlap>>

\* setRateLimit() puts a new limiter in the place of the old one, which it
\* destroys: a caller must not be inside it.
SetRateLimit ==
    /\ \A r \in Requests : rpc[r] \notin {"check", "compute", "sleep"}
    /\ Change
    /\ age' = 0
    /\ requestCount' = 0
    /\ UNCHANGED <<holder, rpc, left, calls, pc, attempts, response, body, handle, cargo,
                   wire, settings, stats, carried, overlap>>

ResetStatistics ==
    /\ Change
    /\ stats' = ZeroStats
    /\ carried' = Cardinality({r \in Requests : Active(r)})
    /\ UNCHANGED <<limiterVars, pc, attempts, response, body, handle, cargo, wire,
                   settings, overlap>>

Clock == Tick /\ UNCHANGED ownVars

-----------------------------------------------------------------------------
Proceed(r) ==
    \/ Gate(r) \/ WaitSlot(r)
    \/ Configure(r) \/ LoopEnds(r) \/ Perform(r)
    \/ \E s \in Statuses : Answered(r, s)
    \/ \E b \in BOOLEAN : NoAnswer(r, b)
    \/ BackoffOver(r) \/ Finish(r)

Reconfigure ==
    SetRetryPolicy \/ EnableRetries \/ EnableRateLimit \/ SetRateLimit \/ ResetStatistics

HttpNext ==
    \/ \E r \in Requests : Begin(r) \/ Proceed(r) \/ WaitSpurious(r)
    \/ Reconfigure
    \/ Clock

\* Threads inside a call keep running, CURLOPT_TIMEOUT ends every transfer and
\* time passes.
HttpSpec ==
    /\ HttpInit /\ [][HttpNext]_httpVars
    /\ \A r \in Requests : WF_httpVars(Proceed(r))
    /\ WF_httpVars(Clock)

-----------------------------------------------------------------------------
\* Every variable of the client and of its limiter keeps its type: the limiter
\* never grants more than a budget to performRequest(), however requests,
\* settings and the clock interleave.
HttpTypeOK ==
    /\ LimiterTypeOK
    /\ pc \in [Requests -> {"idle", "gate", "wait", "loop", "configured",
                            "inflight", "backoff", "finish", "returned", "threw"}]
    /\ attempts \in [Requests -> Nat]
    /\ response \in [Requests -> Statuses \cup {"none"}]
    /\ body \in [Requests -> SUBSET Requests]
    /\ handle \in Requests \cup {NoCaller}
    /\ cargo \in [Requests -> Requests \cup {NoCaller}]
    /\ wire \in [Requests -> Nat]
    /\ settings \in [rateLimit : BOOLEAN, retriesEnabled : BOOLEAN, maxRetries : RetryLimits]
    /\ stats \in [total : Nat, successful : Nat, failed : Nat, threw : Nat]
    /\ carried \in Nat
    /\ changed \in 0..LiveChanges /\ overlap \in BOOLEAN

\* The counters account for every request, even when resetStatistics() is
\* called while requests are under way: each one begun is under way, counted
\* as successful or failed, or left performRequest() by an exception.
StatsBalance ==
    stats.total + carried =
        stats.successful + stats.failed + stats.threw
        + Cardinality({r \in Requests : Active(r)})

\* While requests do not overlap on the handle, a request reaches the server at
\* most once per attempt, whatever becomes of the settings meanwhile, and under
\* a policy that stays the attempts respect it: with retries disabled an order
\* is sent at most once, and never with a negative limit.
SendsBounded ==
    ~overlap => \A r \in Requests :
        /\ wire[r] <= attempts[r] + 1
        /\ changed = 0 => wire[r] <= (IF Budget < 0 THEN 0 ELSE Budget + 1)

\* What a call returns was received by it: the body holds the answer to this
\* request, to nothing else, and the status is that of an answer.
ReturnsOwnAnswer(r) ==
    pc[r] = "returned" => body[r] = {r} /\ response[r] # "none"

\* Calls that do not overlap on the handle return their own answers, unless the
\* retry limit is negative and not even a first attempt is made, or the policy
\* changes in a pause between two attempts and ends the loop.
ResponseIsOwn ==
    ~overlap /\ changed = 0 /\ Budget >= 0 => \A r \in Requests : ReturnsOwnAnswer(r)

\* Calls return their own answers, also when they overlap.
ConcurrentResponseIsOwn ==
    changed = 0 /\ Budget >= 0 => \A r \in Requests : ReturnsOwnAnswer(r)

\* While requests do not overlap on the handle, what the server has answered
\* for good is not sent again.
NoResendAfterAnswer ==
    [][~overlap => \A r \in Requests :
          wire'[r] > wire[r] => response[r] \notin {"ok", "clientError"}]_httpVars

\* Every call ends: the gate, the transfers and the pauses all do.
RequestCompletes ==
    \A r \in Requests : pc[r] = "gate" ~> pc[r] \in {"returned", "threw"}

=============================================================================
