----------------------------- MODULE ThreadPool -----------------------------
(***************************************************************************)
(* tradier::ThreadPool of include/tradier/common/async.hpp: a queue of     *)
(* tasks guarded by queueMutex_, a condition variable, a stop flag and the *)
(* worker threads.  A critical section of queueMutex_ is one action; the   *)
(* unlocked steps between two critical sections (the early test of         *)
(* stopped_, notify_one after the push, notify_all after the stop, the     *)
(* join) are actions of their own, so that every interleaving of callers,  *)
(* workers and shutdown() is a behaviour.                                  *)
(***************************************************************************)
EXTENDS Naturals, Sequences

CONSTANTS Workers,  \* the threads of workers_
          Tasks,    \* the calls of enqueue(), each with the task it submits
          NoTask    \* an empty std::function

ASSUME PoolAssumption ==
    /\ Workers # {}          \* numThreads == 0 falls back to one worker
    /\ NoTask \notin Tasks

VARIABLES tasks,    \* tasks_
          stopped,  \* stopped_
          wpc,      \* where each worker is in its loop
          cur,      \* the task each worker executes
          call,     \* where each call of enqueue() is
          done,     \* tasks whose future is ready
          sd        \* where shutdown() is

vars == <<tasks, stopped, wpc, cur, call, done, sd>>

Waiting == {w \in Workers : wpc[w] = "waiting"}

Queued(t) == \E i \in 1..Len(tasks) : tasks[i] = t
Running(t) == \E w \in Workers : cur[w] = t
Accepted(t) == call[t] \in {"pushed", "returned"}

Init ==
    /\ tasks = <<>>
    /\ stopped = FALSE
    /\ wpc = [w \in Workers |-> "check"]
    /\ cur = [w \in Workers |-> NoTask]
    /\ call = [t \in Tasks |-> "idle"]
    /\ done = {}
    /\ sd = "idle"

-----------------------------------------------------------------------------
(* Worker threads.  "check": at the predicate of condition_.wait with the  *)
(* lock held; "waiting": blocked in the condition variable.                *)

WorkerWait(w) ==
    /\ wpc[w] = "check"
    /\ ~stopped
    /\ tasks = <<>>
    /\ wpc' = [wpc EXCEPT ![w] = "waiting"]
    /\ UNCHANGED <<tasks, stopped, cur, call, done, sd>>

\* A condition variable may wake a waiter without a notification.
SpuriousWake(w) ==
    /\ wpc[w] = "waiting"
    /\ wpc' = [wpc EXCEPT ![w] = "check"]
    /\ UNCHANGED <<tasks, stopped, cur, call, done, sd>>

\* Mutant: the worker leaves as soon as the pool is stopped.
WorkerExitEarly(w) ==
    /\ wpc[w] = "check"
    /\ stopped
    /\ wpc' = [wpc EXCEPT ![w] = "exited"]
    /\ UNCHANGED <<tasks, stopped, cur, call, done, sd>>

\* Mutant: the return is missing and the empty task is executed.
WorkerRunsEmpty(w) ==
    /\ wpc[w] = "check"
    /\ stopped
    /\ tasks = <<>>
    /\ wpc' = [wpc EXCEPT ![w] = "running"]
    /\ UNCHANGED <<tasks, stopped, cur, call, done, sd>>

WorkerExit(w) ==
    /\ wpc[w] = "check"
    /\ stopped
    /\ tasks = <<>>
    /\ wpc' = [wpc EXCEPT ![w] = "exited"]
    /\ UNCHANGED <<tasks, stopped, cur, call, done, sd>>

WorkerTake(w) ==
    /\ wpc[w] = "check"
    /\ tasks # <<>>
    /\ wpc' = [wpc EXCEPT ![w] = "running"]
    /\ cur' = [cur EXCEPT ![w] = Head(tasks)]
    /\ tasks' = Tail(tasks)
    /\ UNCHANGED <<stopped, call, done, sd>>

\* The packaged task stores its value or its exception in the future; either
\* way the worker survives and goes back to its loop.
WorkerDone(w) ==
    /\ wpc[w] = "running"
    /\ done' = done \cup {cur[w]}
    /\ cur' = [cur EXCEPT ![w] = NoTask]
    /\ wpc' = [wpc EXCEPT ![w] = "check"]
    /\ UNCHANGED <<tasks, stopped, call, sd>>

-----------------------------------------------------------------------------
(* enqueue(): test stopped_ without the lock, push under the lock after a  *)
(* second test, notify one waiter after the lock is released.              *)

EnqueueCheck(t) ==
    /\ call[t] = "idle"
    /\ call' = [call EXCEPT ![t] = IF stopped THEN "threw" ELSE "checked"]
    /\ UNCHANGED <<tasks, stopped, wpc, cur, done, sd>>

\* Mutant: stopped_ is not tested again under the lock.
EnqueuePushUnchecked(t) ==
    /\ call[t] = "checked"
    /\ call' = [call EXCEPT ![t] = "pushed"]
    /\ tasks' = Append(tasks, t)
    /\ UNCHANGED <<stopped, wpc, cur, done, sd>>

EnqueuePush(t) ==
    /\ call[t] = "checked"
    /\ IF stopped
       THEN /\ call' = [call EXCEPT ![t] = "threw"]
            /\ UNCHANGED tasks
       ELSE /\ call' = [call EXCEPT ![t] = "pushed"]
            /\ tasks' = Append(tasks, t)
    /\ UNCHANGED <<stopped, wpc, cur, done, sd>>

\* Mutant: no notify_one.
EnqueueSilent(t) ==
    /\ call[t] = "pushed"
    /\ call' = [call EXCEPT ![t] = "returned"]
    /\ UNCHANGED <<tasks, stopped, wpc, cur, done, sd>>

EnqueueNotify(t) ==
    /\ call[t] = "pushed"
    /\ call' = [call EXCEPT ![t] = "returned"]
    /\ \/ /\ Waiting = {}
          /\ UNCHANGED wpc
       \/ \E w \in Waiting : wpc' = [wpc EXCEPT ![w] = "check"]
    /\ UNCHANGED <<tasks, stopped, cur, done, sd>>

-----------------------------------------------------------------------------
(* shutdown(), also run by the destructor; a second call repeats the steps *)
(* on threads that are no longer joinable.                                 *)

ShutdownStop ==
    /\ sd \in {"idle", "finished"}
    /\ stopped' = TRUE
    /\ sd' = "notify"
    /\ UNCHANGED <<tasks, wpc, cur, call, done>>

\* Mutant: notify_one where notify_all is needed.
ShutdownNotifyOne ==
    /\ sd = "notify"
    /\ \/ Waiting = {} /\ UNCHANGED wpc
       \/ \E w \in Waiting : wpc' = [wpc EXCEPT ![w] = "check"]
    /\ sd' = "join"
    /\ UNCHANGED <<tasks, stopped, cur, call, done>>

ShutdownNotify ==
    /\ sd = "notify"
    /\ wpc' = [w \in Workers |-> IF wpc[w] = "waiting" THEN "check" ELSE wpc[w]]
    /\ sd' = "join"
    /\ UNCHANGED <<tasks, stopped, cur, call, done>>

ShutdownJoin ==
    /\ sd = "join"
    /\ \A w \in Workers : wpc[w] = "exited"
    /\ sd' = "clear"
    /\ UNCHANGED <<tasks, stopped, wpc, cur, call, done>>

ShutdownClear ==
    /\ sd = "clear"
    /\ tasks' = <<>>
    /\ sd' = "finished"
    /\ UNCHANGED <<stopped, wpc, cur, call, done>>

-----------------------------------------------------------------------------
Worker(w) == WorkerWait(w) \/ WorkerExit(w) \/ WorkerTake(w) \/ WorkerDone(w)
Caller(t) == EnqueueCheck(t) \/ EnqueuePush(t) \/ EnqueueNotify(t)
Shutdown == ShutdownStop \/ ShutdownNotify \/ ShutdownJoin \/ ShutdownClear

Next ==
    \/ \E w \in Workers : Worker(w) \/ SpuriousWake(w)
    \/ \E t \in Tasks : Caller(t)
    \/ Shutdown

SafeSpec == Init /\ [][Next]_vars

\* A thread that can run is eventually scheduled and a task body returns.
\* Nothing makes a user call enqueue() or shutdown(), and no spurious wake-up
\* is promised.
Fairness ==
    /\ \A w \in Workers : WF_vars(Worker(w))
    /\ \A t \in Tasks : WF_vars(EnqueuePush(t) \/ EnqueueNotify(t))
    /\ WF_vars(ShutdownNotify \/ ShutdownJoin \/ ShutdownClear)

Spec == SafeSpec /\ Fairness

-----------------------------------------------------------------------------
TypeOK ==
    /\ tasks \in Seq(Tasks)
    /\ stopped \in BOOLEAN
    /\ wpc \in [Workers -> {"check", "waiting", "running", "exited"}]
    /\ cur \in [Workers -> Tasks \cup {NoTask}]
    /\ call \in [Tasks -> {"idle", "checked", "pushed", "returned", "threw"}]
    /\ done \subseteq Tasks
    /\ sd \in {"idle", "notify", "join", "clear", "finished"}

\* A task that enqueue() took in is never lost: it waits in the queue, is
\* executed by a worker or its future is ready.  The loop that empties the
\* queue at the end of shutdown() (async.hpp:116) therefore drops nothing.
AcceptedNeverDropped ==
    \A t \in Tasks : Accepted(t) => Queued(t) \/ Running(t) \/ t \in done

\* When shutdown() has joined the workers, every accepted future is ready.
ShutdownDrains ==
    sd \in {"clear", "finished"} => \A t \in Tasks : Accepted(t) => t \in done

\* No lost wake-up: while a task is queued, somebody is on the way to it - a
\* worker that is not blocked, a caller that still has to notify, or
\* shutdown() before its notify_all.
NoLostWakeup ==
    tasks # <<>> =>
        \/ \E w \in Workers : wpc[w] \in {"check", "running"}
        \/ \E t \in Tasks : call[t] = "pushed"
        \/ sd = "notify"

\* shutdown() terminates: no worker stays blocked in the condition variable.
ShutdownTerminates == sd = "notify" ~> sd = "finished"

-----------------------------------------------------------------------------
(* The pool implements TaskService.                                        *)

ProgressOf(t) ==
    IF t \in done THEN "finished"
    ELSE IF Running(t) THEN "started"
    ELSE IF Accepted(t) THEN "accepted"
    ELSE IF call[t] = "threw" THEN "refused"
    ELSE "new"

GateOf ==
    IF ~stopped THEN "open"
    ELSE IF \A w \in Workers : wpc[w] = "exited" THEN "closed"
    ELSE "closing"

Svc == INSTANCE TaskService
    WITH backlog <- tasks,
         progress <- [t \in Tasks |-> ProgressOf(t)],
         gate <- GateOf

\* Every accepted task runs once, in order, and before shutdown() has joined
\* the last worker; what enqueue() refuses is never run.
ImplementsTaskService == Svc!SvcSpec

=============================================================================
