----------------------------- MODULE AsyncCalls -----------------------------
(***************************************************************************)
(* Promise<T> of common/async.hpp: a chain of then() and catch_() stages,  *)
(* and executeAsync(), on one thread pool.  The pool is reduced to what    *)
(* module ThreadPool shows of it: tasks start in the order of their        *)
(* enqueue() and occupy a worker until they end.                           *)
(*                                                                         *)
(* Promise 0 is the one the chain begins with; stage i reads future i-1    *)
(* and sets future i.  A stage's task blocks its worker in                 *)
(* currentFuture.get(), and holds only a weak_ptr to the next promise:     *)
(* that promise lives as long as the Promise object then() returned, or    *)
(* while a task has locked it.  A promise destroyed unset leaves its       *)
(* future with broken_promise.  Values and error texts are left out.       *)
(***************************************************************************)
EXTENDS Naturals, Sequences, FiniteSets

CONSTANTS N,       \* stages of the chain
          Workers  \* worker threads of the pool

ASSUME AsyncAssumption == N \in Nat /\ Workers \in Nat \ {0}

Stages == 1..N
Callback == N + 1      \* the task of executeAsync()
Tasks == 0..N + 1      \* 0: a task that settles promise 0

VARIABLES producer, \* who settles promise 0: the user's thread, or a task it submits
          queue,    \* tasks_ of the pool
          phase,    \* where each task is
          kind,     \* "then" or "catch", of each stage
          future,   \* what each future holds
          held,     \* the user still has the Promise object
          called    \* how often a task has called the function it was given

vars == <<producer, queue, phase, kind, future, held, called>>

\* Phases in which a task occupies a worker.
Busy == {"waiting", "calling", "handling"}
Running == {t \in Tasks : phase[t] \in Busy}

Init ==
    /\ producer \in {"user", "task"}
    /\ queue = <<>>
    /\ phase = [t \in Tasks |-> "none"]
    /\ kind = [i \in Stages |-> "then"]
    /\ future = [i \in 0..N |-> "pending"]
    /\ held = [i \in 0..N |-> i = 0]
    /\ called = [t \in Tasks |-> 0]

Goto(t, p) == phase' = [phase EXCEPT ![t] = p]
Set(i, v) == future' = [future EXCEPT ![i] = v]
Call(t) == called' = [called EXCEPT ![t] = @ + 1]

-----------------------------------------------------------------------------
(* The user.                                                               *)

\* resolve() and reject(); a second one is ignored.
Settle ==
    /\ producer = "user" /\ held[0]
    /\ future[0] = "pending"
    /\ \E v \in {"value", "error"} : Set(0, v)
    /\ UNCHANGED <<producer, queue, phase, kind, held, called>>

enqueue(t) ==
    /\ phase[t] = "none"
    /\ queue' = Append(queue, t)
    /\ Goto(t, "queued")

\* The user hands the pool a task with a copy of the Promise object to settle, at
\* any time: before its stages are chained or after.
Submit ==
    /\ producer = "task" /\ held[0]
    /\ enqueue(0)
    /\ UNCHANGED <<producer, kind, future, held, called>>

\* then() and catch_() of the Promise object of stage i - 1.
Chain(i, k) ==
    /\ held[i - 1]
    /\ enqueue(i)
    /\ kind' = [kind EXCEPT ![i] = k]
    /\ held' = [held EXCEPT ![i] = TRUE]
    /\ UNCHANGED <<producer, future, called>>

executeAsync == enqueue(Callback) /\ UNCHANGED <<producer, kind, future, held, called>>

\* A copy of the promise that keeps it alive: the task that settles promise 0 has
\* one, and a stage while it calls its function.
Locked(i) == IF i = 0 THEN phase[0] \in {"queued", "waiting", "calling"} ELSE phase[i] = "calling"

\* The user's Promise object is destroyed.
Drop(i) ==
    /\ held[i]
    /\ held' = [held EXCEPT ![i] = FALSE]
    /\ IF future[i] = "pending" /\ ~Locked(i) THEN Set(i, "broken") ELSE UNCHANGED future
    /\ UNCHANGED <<producer, queue, phase, kind, called>>

-----------------------------------------------------------------------------
(* The pool and the tasks.                                                 *)

\* Mutant: the task enqueued last starts first.
StartNewest ==
    /\ queue # <<>> /\ Cardinality(Running) < Workers
    /\ queue' = SubSeq(queue, 1, Len(queue) - 1)
    /\ Goto(queue[Len(queue)], "waiting")
    /\ UNCHANGED <<producer, kind, future, held, called>>

\* Mutant: every task gets a worker.
StartUnbounded ==
    /\ queue # <<>>
    /\ queue' = Tail(queue)
    /\ Goto(Head(queue), "waiting")
    /\ UNCHANGED <<producer, kind, future, held, called>>

Start ==
    /\ queue # <<>> /\ Cardinality(Running) < Workers
    /\ queue' = Tail(queue)
    /\ Goto(Head(queue), "waiting")
    /\ UNCHANGED <<producer, kind, future, held, called>>

\* The user's task calls resolve() or reject(), or ends without either.
Produce ==
    /\ phase[0] = "waiting"
    /\ Goto(0, "done")
    /\ \/ \E v \in {"value", "error"} : Set(0, v)
       \/ IF held[0] THEN UNCHANGED future ELSE Set(0, "broken")
    /\ UNCHANGED <<producer, queue, kind, held, called>>

\* The task of stage i ends and sets its promise, if that is still there.
End(i, v) ==
    /\ Goto(i, "done")
    /\ IF held[i] THEN Set(i, v) ELSE UNCHANGED future

\* The task calls its function with the next promise locked, or, when the
\* promise is gone, ends without.
CallIfHeld(i) ==
    /\ IF held[i] THEN Goto(i, "calling") /\ Call(i) ELSE Goto(i, "done") /\ UNCHANGED called
    /\ UNCHANGED future

\* currentFuture.get() of then() returns, or throws what a broken promise left.
GetThen(i) ==
    /\ phase[i] = "waiting" /\ kind[i] = "then"
    /\ future[i - 1] # "pending"
    /\ IF future[i - 1] = "value" THEN CallIfHeld(i) ELSE End(i, "error") /\ UNCHANGED called
    /\ UNCHANGED <<producer, queue, kind, held>>

\* The same of catch_(); with a broken promise the handler is called from the
\* catch block, whether the next promise is there or not.
GetCatch(i) ==
    /\ phase[i] = "waiting" /\ kind[i] = "catch"
    /\ future[i - 1] # "pending"
    /\ CASE future[i - 1] = "value" -> End(i, "value") /\ UNCHANGED called
         [] future[i - 1] = "error" -> CallIfHeld(i)
         [] future[i - 1] = "broken" -> Goto(i, "handling") /\ Call(i) /\ UNCHANGED future
    /\ UNCHANGED <<producer, queue, kind, held>>

\* A lock on the next promise is given up with nothing set.
Unlock(i) == IF held[i] THEN UNCHANGED future ELSE Set(i, "broken")

\* An exception that no catch block takes ends the task, and its promise is never
\* set: one not derived from std::exception, or one thrown in the catch block.
Escape(i) == Goto(i, "escaped") /\ Unlock(i)

\* func() returns a value or an error, or throws: the lock is given up, and the
\* catch block makes an error of it if the next promise is still there.
ReturnThen(i) ==
    /\ phase[i] = "calling" /\ kind[i] = "then"
    /\ \/ Goto(i, "done") /\ \E v \in {"value", "error"} : Set(i, v)
       \/ Goto(i, "done") /\ Set(i, IF held[i] THEN "error" ELSE "broken")
       \/ Escape(i)
    /\ UNCHANGED <<producer, queue, kind, held, called>>

\* Mutant: the error that was handled is forgotten.
ReturnCatchRecovers(i) ==
    /\ phase[i] = "calling" /\ kind[i] = "catch"
    /\ Set(i, "value") /\ Goto(i, "done")
    /\ UNCHANGED <<producer, queue, kind, held, called>>

\* errorHandler() returns, and the error goes on; or it throws, which gives the
\* lock up and calls it once more from the catch block, or ends the task.
ReturnCatch(i) ==
    /\ phase[i] = "calling" /\ kind[i] = "catch"
    /\ \/ Set(i, "error") /\ Goto(i, "done") /\ UNCHANGED called
       \/ Goto(i, "handling") /\ Call(i) /\ Unlock(i)
       \/ Escape(i) /\ UNCHANGED called
    /\ UNCHANGED <<producer, queue, kind, held>>

\* The call from the catch block returns or throws.
ReturnHandler(i) ==
    /\ phase[i] = "handling"
    /\ End(i, "error") \/ Escape(i)
    /\ UNCHANGED <<producer, queue, kind, held, called>>

\* executeAsync(): syncFunc() and then callback(), which is called a second time
\* when it throws, or for the first time when syncFunc() has thrown.  What
\* syncFunc() throws that is not derived from std::exception ends the task with
\* the callback not called at all.
RunCallback ==
    /\ phase[Callback] \in {"waiting", "calling"}
    /\ \/ Call(Callback) /\ \E p \in {"done", "escaped"} : Goto(Callback, p)
       \/ phase[Callback] = "waiting" /\ Call(Callback) /\ Goto(Callback, "calling")
       \/ phase[Callback] = "waiting" /\ Goto(Callback, "escaped") /\ UNCHANGED called
    /\ UNCHANGED <<producer, queue, kind, future, held>>

User ==
    \/ Settle \/ Submit \/ executeAsync
    \/ \E i \in Stages, k \in {"then", "catch"} : Chain(i, k)
    \/ \E i \in 0..N : Drop(i)

Work ==
    \/ Start \/ Produce \/ RunCallback
    \/ \E i \in Stages :
        GetThen(i) \/ GetCatch(i) \/ ReturnThen(i) \/ ReturnCatch(i) \/ ReturnHandler(i)

Next == User \/ Work

\* The workers run and what they call returns; the user settles the promise at the
\* head of its chain or submits the task that does, unless it gives the promise up,
\* and gives it up in the end when that task has left it unset.
Spec ==
    /\ Init /\ [][Next]_vars
    /\ WF_vars(Work)
    /\ WF_vars(Settle)
    /\ WF_vars(Submit)
    /\ WF_vars(producer = "task" /\ phase[0] = "done" /\ Drop(0))

-----------------------------------------------------------------------------
\* Type invariant of the chain and the pool: no more tasks run than there are
\* workers, and no function is called more than twice.
AsyncTypeOK ==
    /\ producer \in {"user", "task"}
    /\ queue \in Seq(Tasks)
    /\ phase \in [Tasks -> {"none", "queued", "done", "escaped"} \cup Busy]
    /\ kind \in [Stages -> {"then", "catch"}]
    /\ future \in [0..N -> {"pending", "value", "error", "broken"}]
    /\ held \in [0..N -> BOOLEAN]
    /\ called \in [Tasks -> 0..2]
    /\ Cardinality(Running) <= Workers

\* A value at some stage means that everything before it went well: all futures
\* before it hold values, and the function of every then() up to it was called
\* exactly once.  An error is never lost on the way and no function runs after
\* it; a handler runs only after an error, and twice only if it threw.
ValueMeansAllRan ==
    \A i \in Stages :
        /\ future[i] = "value" =>
               \A j \in 1..i : future[j - 1] = "value" /\ called[j] = (IF kind[j] = "then" THEN 1 ELSE 0)
        /\ called[i] > 0 =>
               IF kind[i] = "then" THEN called[i] = 1 /\ future[i - 1] = "value"
                                   ELSE future[i - 1] \in {"error", "broken"}

\* As many stages as there are workers were chained before the task that settles
\* their promise is handed to the pool: they would keep all workers from it.
Overtaken ==
    /\ producer = "task" /\ phase[0] = "none" /\ held[0]
    /\ Cardinality({i \in Stages : phase[i] # "none"}) >= Workers

\* Every stage comes to hold a result although tasks block workers while they
\* wait for each other, and a callback queued among them is called, however many
\* stages the chain has: if the user chains fewer stages than there are workers
\* before it submits the task that settles the promise, and unless an exception
\* has escaped from a task.
ChainSettles ==
    []~Overtaken =>
        /\ \A i \in Stages :
            phase[i] = "queued" ~> (future[i] # "pending" \/ \E j \in 1..i : phase[j] = "escaped")
        /\ phase[Callback] = "queued" ~>
            (called[Callback] > 0 \/ \E j \in Stages \cup {Callback} : phase[j] = "escaped")

=============================================================================
