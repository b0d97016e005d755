-------------------------- MODULE AsyncCallsProofs --------------------------
(***************************************************************************)
(* Proofs about chains of promises and executeAsync(), for any number of   *)
(* stages and of workers.  What a value tells of the stages before it is   *)
(* inductive only if what a future holds stays once it is not pending, and *)
(* that depends on who still keeps each promise alive: PromiseInv says it  *)
(* for every phase of a task.                                              *)
(***************************************************************************)
EXTENDS AsyncCalls, FiniteSetTheorems, SequenceTheorems, TLAPS

\* A task that has not begun, or waits for the future it reads.
Before(t) == phase[t] \in {"none", "queued", "waiting"}

\* The queue holds tasks that were enqueued, each once.
QueuedOnce ==
    /\ \A k \in 1..Len(queue) : phase[queue[k]] = "queued"
    /\ \A j, k \in 1..Len(queue) : queue[j] = queue[k] => j = k

\* How often a task can have called its function, by where it is.
CallsInv ==
    /\ called[0] = 0
    /\ \A t \in Tasks : /\ Before(t) => called[t] = 0
                        /\ phase[t] = "calling" /\ t # 0 => called[t] = 1
    /\ \A i \in Stages : /\ kind[i] = "then" => called[i] <= 1
                         /\ phase[i] = "handling" => kind[i] = "catch"
    /\ phase[Callback] # "handling"

\* A promise that nobody has settled is pending while something keeps it alive, and
\* broken otherwise: what a future holds once it is not pending stays.
PromiseInv ==
    /\ phase[0] # "none" => producer = "task"
    /\ producer = "task" /\ phase[0] = "none" /\ held[0] => future[0] = "pending"
    /\ Before(0) \/ phase[0] = "done"
    /\ phase[0] \in {"queued", "waiting"} => future[0] = "pending"
    /\ \A i \in Stages :
        /\ phase[i] = "none" => ~held[i] /\ future[i] = "pending"
        /\ phase[i] \in {"queued", "waiting", "handling"} =>
               future[i] = IF held[i] THEN "pending" ELSE "broken"
        /\ phase[i] = "calling" => future[i] = "pending"

\* What a value at stage i, and a call by its task, tell of the stages before.
ValueInv ==
    \A i \in Stages :
        /\ future[i] = "value" =>
               \A j \in 1..i :
                   /\ future[j - 1] = "value" /\ phase[j] = "done"
                   /\ called[j] = IF kind[j] = "then" THEN 1 ELSE 0
        /\ called[i] > 0 =>
               IF kind[i] = "then" THEN called[i] = 1 /\ future[i - 1] = "value"
                                   ELSE future[i - 1] \in {"error", "broken"}

AsyncInv == AsyncTypeOK /\ QueuedOnce /\ CallsInv /\ PromiseInv /\ ValueInv

\* The tasks are those of the stages and two more.
LEMMA TasksAndStages ==
    /\ 0 \in Tasks /\ Callback \in Tasks /\ Stages \subseteq Tasks
    /\ 0 \notin Stages /\ Callback \notin Stages /\ Callback # 0
    /\ \A i \in Stages : i \in 0..N /\ i - 1 \in 0..N /\ i \in Tasks
    /\ IsFiniteSet(Tasks)
<1>1. N \in Nat
    BY AsyncAssumption
<1>2. IsFiniteSet(0..(N + 1))
    BY <1>1, FS_Interval
<1> QED
    BY <1>1, <1>2 DEF Tasks, Stages, Callback

-----------------------------------------------------------------------------
(* Steps.                                                                  *)

\* Only the task of stage i, its future and its calls change.
OnlyStage(i) ==
    /\ phase' = [phase EXCEPT ![i] = phase'[i]]
    /\ future' = [future EXCEPT ![i] = future'[i]]
    /\ called' = [called EXCEPT ![i] = called'[i]]
    /\ UNCHANGED <<producer, queue, kind, held>>

\* The task of stage i leaves its wait.
Leaves(i) ==
    /\ phase[i] = "waiting"
    /\ \/ /\ phase'[i] = "calling" /\ held[i] /\ called'[i] = called[i] + 1
          /\ future'[i] = future[i]
          /\ future[i - 1] = IF kind[i] = "then" THEN "value" ELSE "error"
       \/ /\ phase'[i] = "done" /\ ~held[i] /\ called'[i] = called[i]
          /\ future'[i] = future[i]
       \/ /\ phase'[i] = "done" /\ held[i] /\ called'[i] = called[i]
          /\ \/ kind[i] = "then" /\ future'[i] = "error"
             \/ kind[i] = "catch" /\ future'[i] = "value" /\ future[i - 1] = "value"
       \/ /\ phase'[i] = "handling" /\ called'[i] = called[i] + 1
          /\ future'[i] = future[i]
          /\ kind[i] = "catch" /\ future[i - 1] = "broken"

\* The function that the task of stage i has called returns or throws.
Returns(i) ==
    \/ /\ phase[i] = "calling" /\ phase'[i] = "done" /\ called'[i] = called[i]
       /\ \/ kind[i] = "then" /\ future'[i] \in {"value", "error", "broken"}
          \/ kind[i] = "catch" /\ future'[i] = "error"
    \/ /\ phase[i] = "calling" /\ phase'[i] = "handling" /\ called'[i] = called[i] + 1
       /\ kind[i] = "catch"
       /\ future'[i] = IF held[i] THEN future[i] ELSE "broken"
    \/ /\ phase[i] = "handling" /\ phase'[i] = "done" /\ called'[i] = called[i]
       /\ future'[i] = IF held[i] THEN "error" ELSE future[i]
    \/ /\ phase[i] \in {"calling", "handling"} /\ phase'[i] = "escaped" /\ called'[i] = called[i]
       /\ future'[i] = IF held[i] THEN future[i] ELSE "broken"

StageStep(i) ==
    GetThen(i) \/ GetCatch(i) \/ ReturnThen(i) \/ ReturnCatch(i) \/ ReturnHandler(i)

\* Every step of a stage's task is one of these.
LEMMA StageSteps ==
    ASSUME AsyncTypeOK, NEW i \in Stages, StageStep(i)
    PROVE  OnlyStage(i) /\ (Leaves(i) \/ Returns(i))
<1>0. /\ i \in Tasks /\ i \in 0..N /\ i - 1 \in 0..N
      /\ phase = [t \in Tasks |-> phase[t]]
      /\ future = [j \in 0..N |-> future[j]]
      /\ called = [t \in Tasks |-> called[t]]
      /\ future[i - 1] \in {"pending", "value", "error", "broken"}
      /\ kind[i] \in {"then", "catch"}
    BY TasksAndStages DEF AsyncTypeOK
<1>1. CASE GetThen(i)
    BY <1>0, <1>1 DEF GetThen, CallIfHeld, End, Goto, Set, Call, OnlyStage, Leaves
<1>2. CASE GetCatch(i)
  <2>1. CASE future[i - 1] = "value"
    <3>1. End(i, "value") /\ called' = called
      BY <1>2, <2>1 DEF GetCatch
    <3> QED
      BY <1>0, <1>2, <2>1, <3>1 DEF GetCatch, End, Goto, Set, OnlyStage, Leaves
  <2>2. CASE future[i - 1] = "error"
    <3>1. CallIfHeld(i)
      BY <1>2, <2>2 DEF GetCatch
    <3> QED
      BY <1>0, <1>2, <2>2, <3>1 DEF GetCatch, CallIfHeld, Goto, Call, OnlyStage, Leaves
  <2>3. CASE future[i - 1] = "broken"
    <3>1. Goto(i, "handling") /\ Call(i) /\ future' = future
      BY <1>2, <2>3 DEF GetCatch
    <3> QED
      BY <1>0, <1>2, <2>3, <3>1 DEF GetCatch, Goto, Call, OnlyStage, Leaves
  <2> QED
    BY <1>0, <1>2, <2>1, <2>2, <2>3 DEF GetCatch
<1>3. CASE ReturnThen(i)
    BY <1>0, <1>3 DEF ReturnThen, Escape, Unlock, Goto, Set, OnlyStage, Returns
<1>4. CASE ReturnCatch(i)
    BY <1>0, <1>4 DEF ReturnCatch, Escape, Unlock, Goto, Set, Call, OnlyStage, Returns
<1>5. CASE ReturnHandler(i)
    BY <1>0, <1>5 DEF ReturnHandler, Escape, Unlock, End, Goto, Set, OnlyStage, Returns
<1> QED
    BY <1>1, <1>2, <1>3, <1>4, <1>5 DEF StageStep

\* All the steps there are.
LEMMA AsyncSteps ==
    ASSUME AsyncTypeOK, [Next]_vars
    PROVE  \/ Settle \/ Submit \/ executeAsync \/ Start \/ Produce \/ RunCallback
           \/ (\E i \in Stages, k \in {"then", "catch"} : Chain(i, k))
           \/ (\E i \in 0..N : Drop(i))
           \/ (\E i \in Stages : OnlyStage(i) /\ (Leaves(i) \/ Returns(i)))
           \/ UNCHANGED vars
<1>1. ASSUME NEW i \in Stages,
             GetThen(i) \/ GetCatch(i) \/ ReturnThen(i) \/ ReturnCatch(i) \/ ReturnHandler(i)
      PROVE  OnlyStage(i) /\ (Leaves(i) \/ Returns(i))
    BY <1>1, StageSteps DEF StageStep
<1> QED
    BY <1>1 DEF Next, User, Work

-----------------------------------------------------------------------------
(* The queue, the workers and the calls.                                   *)

\* Every step keeps the queue to tasks that were enqueued, each once.
LEMMA QueueStep ==
    ASSUME AsyncTypeOK, QueuedOnce, [Next]_vars PROVE QueuedOnce'
<1> USE TasksAndStages DEF QueuedOnce
<1>0. /\ queue \in Seq(Tasks) /\ phase = [t \in Tasks |-> phase[t]]
    BY DEF AsyncTypeOK
<1>1. ASSUME NEW t \in Tasks, enqueue(t) PROVE QueuedOnce'
  <2>1. /\ \A k \in 1..Len(queue) : queue[k] # t
        /\ queue' = Append(queue, t) /\ phase' = [phase EXCEPT ![t] = "queued"]
    BY <1>1 DEF enqueue, Goto
  <2>2. Len(queue') = Len(queue) + 1 /\ \A k \in 1..Len(queue') :
            queue'[k] = IF k = Len(queue) + 1 THEN t ELSE queue[k]
    BY <1>0, <2>1
  <2>3. \A k \in 1..Len(queue) : queue[k] \in Tasks
    BY <1>0
  <2> QED
    BY <1>0, <2>1, <2>2, <2>3
<1>2. CASE Start
  <2>1. /\ queue # <<>> /\ queue' = Tail(queue)
        /\ phase' = [phase EXCEPT ![Head(queue)] = "waiting"]
    BY <1>2 DEF Start, Goto
  <2>2. /\ Len(queue) \in Nat /\ Len(queue) > 0 /\ Head(queue) = queue[1]
        /\ Len(queue') = Len(queue) - 1
        /\ \A k \in 1..Len(queue') : queue'[k] = queue[k + 1]
    BY <1>0, <2>1
  <2>3. \A k \in 1..Len(queue') : k + 1 \in 1..Len(queue) /\ k + 1 # 1
    BY <2>2
  <2>4. \A k \in 1..Len(queue) : queue[k] \in Tasks
    BY <1>0
  <2>5. \A k \in 1..Len(queue') : queue'[k] \in Tasks /\ queue'[k] # Head(queue)
    BY <2>2, <2>3, <2>4
  <2>6. \A k \in 1..Len(queue') : phase'[queue'[k]] = "queued"
    BY <1>0, <2>1, <2>2, <2>3, <2>5, ZenonT(60)
  <2>7. \A j, k \in 1..Len(queue') : queue'[j] = queue'[k] => j = k
    BY <2>2, <2>3
  <2> QED
    BY <2>6, <2>7
<1>3. ASSUME NEW t \in Tasks, phase[t] # "queued", queue' = queue,
             phase' = [phase EXCEPT ![t] = phase'[t]]
      PROVE  QueuedOnce'
    BY <1>0, <1>3
<1>4. ASSUME UNCHANGED <<queue, phase>> PROVE QueuedOnce'
    BY <1>4
<1>5. CASE Settle \/ UNCHANGED vars \/ \E i \in 0..N : Drop(i)
    BY <1>4, <1>5 DEF Settle, Drop, vars
<1>6. CASE Submit \/ executeAsync \/ \E i \in Stages, k \in {"then", "catch"} : Chain(i, k)
    BY <1>1, <1>6 DEF Submit, executeAsync, Chain
<1>7. CASE Produce
    BY <1>0, <1>3, <1>7 DEF Produce, Goto
<1>8. CASE RunCallback
    BY <1>0, <1>3, <1>8 DEF RunCallback, Goto
<1>9. ASSUME NEW i \in Stages, OnlyStage(i), Leaves(i) \/ Returns(i) PROVE QueuedOnce'
    BY <1>3, <1>9 DEF OnlyStage, Leaves, Returns
<1> QED
    BY <1>2, <1>5, <1>6, <1>7, <1>8, <1>9, AsyncSteps

\* No more tasks run than there are workers: only Start puts one on a worker.
LEMMA WorkersStep ==
    ASSUME AsyncTypeOK, [Next]_vars PROVE Cardinality(Running') <= Workers
<1> USE TasksAndStages
<1>0. /\ Running \subseteq Tasks /\ IsFiniteSet(Running) /\ Cardinality(Running) \in Nat
      /\ Cardinality(Running) <= Workers /\ Workers \in Nat
      /\ phase = [t \in Tasks |-> phase[t]] /\ queue \in Seq(Tasks)
  <2>1. Running \subseteq Tasks
    BY DEF Running
  <2>2. IsFiniteSet(Running)
    BY <2>1, FS_Subset
  <2> QED
    BY <2>1, <2>2, FS_CardinalityType, AsyncAssumption DEF AsyncTypeOK
<1>1. ASSUME Running' \subseteq Running PROVE Cardinality(Running') <= Workers
  <2>1. IsFiniteSet(Running') /\ Cardinality(Running') <= Cardinality(Running)
    BY <1>0, <1>1, FS_Subset
  <2> QED
    BY <1>0, <2>1, FS_CardinalityType
<1>2. CASE Start
  <2>1. /\ Cardinality(Running) < Workers /\ Head(queue) \in Tasks
        /\ phase' = [phase EXCEPT ![Head(queue)] = "waiting"]
    BY <1>0, <1>2, HeadTailProperties DEF Start, Goto
  <2>2. Running' \subseteq Running \cup {Head(queue)}
    BY <1>0, <2>1 DEF Running
  <2>3. /\ IsFiniteSet(Running \cup {Head(queue)})
        /\ Cardinality(Running \cup {Head(queue)}) <= Cardinality(Running) + 1
        /\ Cardinality(Running \cup {Head(queue)}) \in Nat
    <3>1. IsFiniteSet(Running \cup {Head(queue)})
      BY <1>0, FS_AddElement
    <3>2. Cardinality(Running \cup {Head(queue)}) \in Nat
      BY <3>1, FS_CardinalityType
    <3>3. Cardinality(Running \cup {Head(queue)}) =
            IF Head(queue) \in Running THEN Cardinality(Running) ELSE Cardinality(Running) + 1
      BY <1>0, FS_AddElement
    <3> QED
      BY <1>0, <3>1, <3>2, <3>3
  <2>4. IsFiniteSet(Running') /\ Cardinality(Running') <= Cardinality(Running \cup {Head(queue)})
    BY <2>2, <2>3, FS_Subset
  <2> QED
    BY <1>0, <2>1, <2>3, <2>4, FS_CardinalityType
<1>3. ASSUME NEW t \in Tasks, phase' = [phase EXCEPT ![t] = phase'[t]],
             phase'[t] \in Busy => phase[t] \in Busy
      PROVE  Running' \subseteq Running
    BY <1>0, <1>3 DEF Running
<1>4. CASE Settle \/ UNCHANGED vars \/ \E i \in 0..N : Drop(i)
  <2>1. phase' = phase
    BY <1>4 DEF Settle, Drop, vars
  <2> QED
    BY <1>1, <2>1 DEF Running
<1>5. ASSUME NEW t \in Tasks, enqueue(t) PROVE Running' \subseteq Running
    BY <1>0, <1>3, <1>5 DEF enqueue, Goto, Busy
<1>6. CASE Submit \/ executeAsync \/ \E i \in Stages, k \in {"then", "catch"} : Chain(i, k)
    BY <1>1, <1>5, <1>6 DEF Submit, executeAsync, Chain
<1>7. CASE Produce
    BY <1>0, <1>1, <1>3, <1>7 DEF Produce, Goto, Busy
<1>8. CASE RunCallback
    BY <1>0, <1>1, <1>3, <1>8 DEF RunCallback, Goto, Busy
<1>9. ASSUME NEW i \in Stages, OnlyStage(i), Leaves(i) \/ Returns(i)
      PROVE  Running' \subseteq Running
    BY <1>3, <1>9 DEF OnlyStage, Leaves, Returns, Busy
<1> QED
    BY <1>1, <1>2, <1>4, <1>6, <1>7, <1>8, <1>9, AsyncSteps

\* Every step keeps the calls in line with where the tasks are.
LEMMA CallsStep ==
    ASSUME AsyncTypeOK, QueuedOnce, CallsInv, [Next]_vars PROVE CallsInv'
<1> USE TasksAndStages DEF CallsInv, Before
<1>0. /\ phase = [t \in Tasks |-> phase[t]] /\ called = [t \in Tasks |-> called[t]]
      /\ kind = [i \in Stages |-> kind[i]] /\ queue \in Seq(Tasks)
      /\ \A t \in Tasks : called[t] \in Nat
    BY DEF AsyncTypeOK
<1>1. CASE Settle \/ UNCHANGED vars \/ \E i \in 0..N : Drop(i)
    BY <1>1 DEF Settle, Drop, vars
<1>2. CASE Submit \/ executeAsync
    BY <1>0, <1>2 DEF Submit, executeAsync, enqueue, Goto
<1>3. ASSUME NEW i \in Stages, NEW k \in {"then", "catch"}, Chain(i, k) PROVE CallsInv'
  <2>1. /\ phase[i] = "none" /\ phase' = [phase EXCEPT ![i] = "queued"]
        /\ kind' = [kind EXCEPT ![i] = k] /\ called' = called
    BY <1>3 DEF Chain, enqueue, Goto
  <2>2. called[i] = 0 /\ i # 0 /\ i # Callback
    BY <2>1
  <2>3. ASSUME NEW t \in Tasks, t # i
        PROVE  phase'[t] = phase[t] /\ (t \in Stages => kind'[t] = kind[t])
    BY <1>0, <2>1, <2>3
  <2>4. phase'[i] = "queued"
    BY <1>0, <2>1
  <2>5. \A t \in Tasks : /\ Before(t)' => called'[t] = 0
                        /\ phase'[t] = "calling" /\ t # 0 => called'[t] = 1
    BY <2>1, <2>2, <2>3, <2>4
  <2>6. \A j \in Stages : /\ kind'[j] = "then" => called'[j] <= 1
                         /\ phase'[j] = "handling" => kind'[j] = "catch"
    BY <2>1, <2>2, <2>3, <2>4
  <2>7. phase'[Callback] # "handling"
    BY <2>2, <2>3
  <2> QED
    BY <2>1, <2>5, <2>6, <2>7
<1>4. CASE Start
  <2>0. queue # <<>> /\ Len(queue) > 0 /\ Head(queue) = queue[1] /\ Head(queue) \in Tasks
    BY <1>0, <1>4 DEF Start
  <2>1. /\ Head(queue) \in Tasks /\ phase[Head(queue)] = "queued"
        /\ phase' = [phase EXCEPT ![Head(queue)] = "waiting"]
        /\ called' = called /\ kind' = kind
    <3>1. 1 \in 1..Len(queue)
      BY <1>0, <2>0
    <3>2. phase[queue[1]] = "queued"
      BY <3>1, Zenon DEF QueuedOnce
    <3> QED
      BY <1>4, <2>0, <3>2 DEF Start, Goto
  <2> QED
    BY <1>0, <2>1
<1>5. CASE Produce
    BY <1>0, <1>5 DEF Produce, Goto
<1>6. CASE RunCallback
  <2>1. /\ (phase[Callback] = "waiting" /\ called[Callback] = 0) \/ phase[Callback] = "calling"
        /\ called' = [called EXCEPT ![Callback] = called'[Callback]] /\ kind' = kind
        /\ phase' = [phase EXCEPT ![Callback] = phase'[Callback]]
        /\ phase'[Callback] \in {"done", "escaped", "calling"}
        /\ phase'[Callback] = "calling" =>
               phase[Callback] = "waiting" /\ called'[Callback] = called[Callback] + 1
    BY <1>0, <1>6 DEF RunCallback, Goto, Call
  <2>2. ASSUME NEW t \in Tasks, t # Callback PROVE phase'[t] = phase[t] /\ called'[t] = called[t]
    BY <1>0, <2>1, <2>2
  <2>3. /\ phase'[Callback] \in {"done", "escaped", "calling"}
        /\ phase'[Callback] = "calling" => called'[Callback] = 1
    BY <1>0, <2>1
  <2> QED
    BY <1>0, <2>1, <2>2, <2>3, ZenonT(60)
<1>7. ASSUME NEW i \in Stages, OnlyStage(i), Leaves(i) \/ Returns(i) PROVE CallsInv'
  <2>1. ASSUME NEW t \in Tasks, t # i
        PROVE  /\ phase'[t] = phase[t] /\ called'[t] = called[t]
               /\ t \in Stages => kind'[t] = kind[t]
    BY <1>0, <1>7, <2>1 DEF OnlyStage
  <2>2. /\ (phase'[i] \in {"none", "queued", "waiting"}) => called'[i] = 0
        /\ phase'[i] = "calling" => called'[i] = 1
        /\ kind'[i] = "then" => called'[i] <= 1
        /\ phase'[i] = "handling" => kind'[i] = "catch"
    <3>1. /\ called[i] \in Nat /\ i # 0
          /\ phase[i] = "waiting" => called[i] = 0
          /\ phase[i] = "calling" => called[i] = 1
          /\ kind[i] = "then" => called[i] <= 1
          /\ phase[i] = "handling" => kind[i] = "catch"
      BY <1>0
    <3>2. kind' = kind
      BY <1>7 DEF OnlyStage
    <3>3. CASE Leaves(i)
      BY <3>1, <3>2, <3>3 DEF Leaves
    <3>4. CASE Returns(i)
      BY <3>1, <3>2, <3>4 DEF Returns
    <3> QED
      BY <1>7, <3>3, <3>4
  <2> QED
    BY <1>0, <2>1, <2>2
<1> QED
    BY <1>1, <1>2, <1>3, <1>4, <1>5, <1>6, <1>7, AsyncSteps

\* Every step keeps the types.
LEMMA AsyncTypeStep ==
    ASSUME AsyncTypeOK, QueuedOnce, CallsInv, [Next]_vars PROVE AsyncTypeOK'
<1> USE TasksAndStages
<1>0. Cardinality(Running') <= Workers
    BY WorkersStep
<1> USE DEF AsyncTypeOK
<1>1. CASE Settle
    BY <1>0, <1>1 DEF Settle, Set
<1>2. ASSUME NEW i \in 0..N, Drop(i) PROVE AsyncTypeOK'
  <2>1. held' \in [0..N -> BOOLEAN]
    BY <1>2, Zenon DEF Drop
  <2> QED
    BY <1>0, <1>2, <2>1 DEF Drop, Set
<1>3. CASE Submit \/ executeAsync
  <2>1. CASE Submit
    BY <1>0, <2>1 DEF Submit, enqueue, Goto
  <2>2. CASE executeAsync
    BY <1>0, <2>2 DEF executeAsync, enqueue, Goto
  <2> QED
    BY <1>3, <2>1, <2>2
<1>4. ASSUME NEW i \in Stages, NEW k \in {"then", "catch"}, Chain(i, k) PROVE AsyncTypeOK'
  <2>1. held' \in [0..N -> BOOLEAN]
    BY <1>4, Zenon DEF Chain
  <2> QED
    BY <1>0, <1>4, <2>1 DEF Chain, enqueue, Goto
<1>5. CASE Start
  <2>1. Head(queue) \in Tasks /\ Tail(queue) \in Seq(Tasks)
    BY <1>5, HeadTailProperties DEF Start
  <2> QED
    BY <1>0, <1>5, <2>1 DEF Start, Goto, Busy
<1>6. CASE Produce
    BY <1>0, <1>6 DEF Produce, Goto, Set
<1>7. CASE RunCallback
  <2>1. called' \in [Tasks -> 0..2]
    BY <1>7 DEF RunCallback, Call, CallsInv, Before
  <2>2. phase' \in [Tasks -> {"none", "queued", "done", "escaped"} \cup Busy]
    BY <1>7 DEF RunCallback, Goto, Busy
  <2> QED
    BY <1>0, <1>7, <2>1, <2>2 DEF RunCallback
<1>8. ASSUME NEW i \in Stages, OnlyStage(i), Leaves(i) \/ Returns(i) PROVE AsyncTypeOK'
  <2>1. phase'[i] \in {"none", "queued", "done", "escaped"} \cup Busy
    BY <1>8 DEF Leaves, Returns, Busy
  <2>2. future'[i] \in {"pending", "value", "error", "broken"}
    BY <1>8 DEF Leaves, Returns
  <2>3. called'[i] \in 0..2
    BY <1>8 DEF Leaves, Returns, CallsInv, Before
  <2> QED
    BY <1>0, <1>8, <2>1, <2>2, <2>3 DEF OnlyStage
<1>9. CASE UNCHANGED vars
    BY <1>0, <1>9 DEF vars
<1> QED
    BY <1>1, <1>2, <1>3, <1>4, <1>5, <1>6, <1>7, <1>8, <1>9, AsyncSteps

-----------------------------------------------------------------------------
(* The promises and the values.                                            *)

\* The task that Start puts on a worker was queued.
LEMMA StartTakes ==
    ASSUME AsyncTypeOK, QueuedOnce, Start
    PROVE  /\ Head(queue) \in Tasks /\ phase[Head(queue)] = "queued"
           /\ phase' = [phase EXCEPT ![Head(queue)] = "waiting"]
           /\ UNCHANGED <<producer, kind, future, held, called>>
<1>1. queue # <<>> /\ queue \in Seq(Tasks)
    BY DEF AsyncTypeOK, Start
<1>2. Head(queue) = queue[1] /\ Head(queue) \in Tasks /\ 1 \in 1..Len(queue)
    BY <1>1
<1>3. phase[queue[1]] = "queued"
    BY <1>2, Zenon DEF QueuedOnce
<1> QED
    BY <1>2, <1>3 DEF Start, Goto

\* Every step keeps a promise pending as long as something keeps it alive.
LEMMA PromiseStep ==
    ASSUME AsyncTypeOK, QueuedOnce, PromiseInv, [Next]_vars PROVE PromiseInv'
<1> USE TasksAndStages DEF PromiseInv, Before
<1>0. /\ phase = [t \in Tasks |-> phase[t]] /\ future = [j \in 0..N |-> future[j]]
      /\ held = [j \in 0..N |-> held[j]] /\ 0 \in 0..N
      /\ \A j \in 0..N : held[j] \in BOOLEAN
    BY AsyncAssumption DEF AsyncTypeOK
<1>1. CASE Settle
    BY <1>0, <1>1 DEF Settle, Set
<1>2. ASSUME NEW i \in 0..N, Drop(i) PROVE PromiseInv'
  <2>1. /\ phase' = phase /\ producer' = producer /\ held' = [held EXCEPT ![i] = FALSE] /\ held[i]
        /\ \/ /\ future[i] = "pending" /\ ~Locked(i)
              /\ future' = [future EXCEPT ![i] = "broken"]
           \/ (future[i] # "pending" \/ Locked(i)) /\ future' = future
    BY <1>2 DEF Drop, Set
  <2>2. ASSUME NEW j \in Stages
        PROVE  /\ phase'[j] = "none" => ~held'[j] /\ future'[j] = "pending"
               /\ phase'[j] \in {"queued", "waiting", "handling"} =>
                      future'[j] = IF held'[j] THEN "pending" ELSE "broken"
               /\ phase'[j] = "calling" => future'[j] = "pending"
    <3>1. CASE j = i
      BY <1>0, <2>1, <3>1 DEF Locked
    <3>2. CASE j # i
      BY <1>0, <2>1, <3>2
    <3> QED
      BY <3>1, <3>2
  <2>3. phase'[0] \in {"queued", "waiting"} => future'[0] = "pending"
    BY <1>0, <2>1 DEF Locked
  <2>4. producer' = "task" /\ phase'[0] = "none" /\ held'[0] => future'[0] = "pending"
    <3>1. CASE i = 0
      <4>1. ~held'[0]
        BY <1>0, <2>1, <3>1
      <4> QED
        BY <4>1
    <3>2. CASE i # 0
      <4>1. held'[0] = held[0] /\ future'[0] = future[0]
        BY <1>0, <2>1, <3>2
      <4> QED
        BY <2>1, <4>1, Zenon
    <3> QED
      BY <3>1, <3>2
  <2>5. /\ phase'[0] # "none" => producer' = "task"
        /\ phase'[0] \in {"none", "queued", "waiting"} \/ phase'[0] = "done"
    BY <2>1
  <2> QED
    BY <2>2, <2>3, <2>4, <2>5, Zenon
<1>3. CASE Submit \/ executeAsync
  <2>1. CASE Submit
    BY <1>0, <2>1 DEF Submit, enqueue, Goto
  <2>2. CASE executeAsync
    BY <1>0, <2>2 DEF executeAsync, enqueue, Goto
  <2> QED
    BY <1>3, <2>1, <2>2
<1>4. ASSUME NEW i \in Stages, NEW k \in {"then", "catch"}, Chain(i, k) PROVE PromiseInv'
    BY <1>0, <1>4 DEF Chain, enqueue, Goto
<1>5. CASE Start
    BY <1>0, <1>5, StartTakes
<1>6. CASE Produce
    BY <1>0, <1>6 DEF Produce, Goto, Set
<1>7. CASE RunCallback
    BY <1>0, <1>7 DEF RunCallback, Goto
<1>8. ASSUME NEW i \in Stages, OnlyStage(i), Leaves(i) \/ Returns(i) PROVE PromiseInv'
  <2>1. ASSUME NEW j \in 0..N, j # i PROVE phase'[j] = phase[j] /\ future'[j] = future[j]
    <3>1. j \in Tasks
      BY AsyncAssumption DEF Tasks
    <3> QED
      BY <1>0, <1>8, <2>1, <3>1 DEF OnlyStage
  <2>2. producer' = producer /\ held' = held
    BY <1>8 DEF OnlyStage
  <2>3. /\ phase'[i] = "none" => ~held'[i] /\ future'[i] = "pending"
        /\ phase'[i] \in {"queued", "waiting", "handling"} =>
               future'[i] = IF held'[i] THEN "pending" ELSE "broken"
        /\ phase'[i] = "calling" => future'[i] = "pending"
    <3>1. CASE Leaves(i)
      BY <2>2, <3>1 DEF Leaves
    <3>2. CASE Returns(i)
      BY <2>2, <3>2 DEF Returns
    <3> QED
      BY <1>8, <3>1, <3>2
  <2> QED
    BY <1>0, <2>1, <2>2, <2>3
<1>9. CASE UNCHANGED vars
    BY <1>9 DEF vars
<1> QED
    BY <1>1, <1>2, <1>3, <1>4, <1>5, <1>6, <1>7, <1>8, <1>9, AsyncSteps

\* What a future holds stays once it is not pending, and a future gets a value
\* only from the task of its stage, or from the producer.
LEMMA FutureStays ==
    ASSUME AsyncTypeOK, PromiseInv, [Next]_vars
    PROVE  /\ \A j \in 0..N : future[j] # "pending" => future'[j] = future[j]
           /\ \A i \in Stages : future'[i] = "value" /\ future[i] # "value" =>
                  OnlyStage(i) /\ (Leaves(i) \/ Returns(i))
<1> USE TasksAndStages
<1>0. /\ future = [j \in 0..N |-> future[j]] /\ 0 \in 0..N
    BY AsyncAssumption DEF AsyncTypeOK
<1>1. CASE Settle
    BY <1>0, <1>1 DEF Settle, Set
<1>2. ASSUME NEW i \in 0..N, Drop(i)
      PROVE  \A j \in 0..N : \/ future'[j] = future[j]
                             \/ future[j] = "pending" /\ future'[j] = "broken"
    BY <1>0, <1>2 DEF Drop, Set
<1>3. CASE Produce
  <2>1. future[0] = "pending" /\ \A j \in 0..N : j # 0 => future'[j] = future[j]
    BY <1>0, <1>3 DEF Produce, Set, PromiseInv
  <2> QED
    BY <2>1
<1>4. CASE Submit \/ executeAsync \/ Start \/ RunCallback \/ UNCHANGED vars
           \/ \E i \in Stages, k \in {"then", "catch"} : Chain(i, k)
  <2>1. future' = future
    BY <1>4 DEF Submit, executeAsync, Start, RunCallback, vars, Chain
  <2> QED
    BY <2>1
<1>5. ASSUME NEW i \in Stages, OnlyStage(i), Leaves(i) \/ Returns(i)
      PROVE  \A j \in 0..N : /\ future[j] # "pending" => future'[j] = future[j]
                             /\ j # i => future'[j] = future[j]
  <2>1. ASSUME NEW j \in 0..N, j # i PROVE future'[j] = future[j]
    BY <1>0, <1>5, <2>1 DEF OnlyStage
  <2>2. future[i] # "pending" => future'[i] = future[i]
    <3>1. CASE Leaves(i)
      BY <3>1 DEF Leaves, PromiseInv
    <3>2. CASE Returns(i)
      BY <3>2 DEF Returns, PromiseInv
    <3> QED
      BY <1>5, <3>1, <3>2
  <2> QED
    BY <2>1, <2>2
<1>6. CASE \E i \in 0..N : Drop(i)
    BY <1>2, <1>6
<1>7. CASE \E i \in Stages : OnlyStage(i) /\ (Leaves(i) \/ Returns(i))
    BY <1>5, <1>7
<1> QED
    BY <1>1, <1>3, <1>4, <1>6, <1>7, AsyncSteps

\* A task that is done stays so, only a stage's task calls its function, and a stage
\* keeps its kind.
LEMMA StageStays ==
    ASSUME AsyncTypeOK, QueuedOnce, PromiseInv, [Next]_vars
    PROVE  /\ \A i \in Stages : phase[i] = "done" => phase'[i] = "done"
           /\ \A i \in Stages : called'[i] # called[i] =>
                  OnlyStage(i) /\ (Leaves(i) \/ Returns(i))
           /\ \A i \in Stages : phase[i] # "none" => kind'[i] = kind[i]
<1> USE TasksAndStages
<1>0. /\ phase = [t \in Tasks |-> phase[t]] /\ called = [t \in Tasks |-> called[t]]
      /\ kind = [i \in Stages |-> kind[i]]
    BY DEF AsyncTypeOK
<1>1. CASE Settle \/ UNCHANGED vars \/ \E i \in 0..N : Drop(i)
    BY <1>1 DEF Settle, Drop, vars
<1>2. CASE Submit \/ executeAsync \/ \E i \in Stages, k \in {"then", "catch"} : Chain(i, k)
    BY <1>0, <1>2 DEF Submit, executeAsync, Chain, enqueue, Goto
<1>3. CASE Start
    BY <1>0, <1>3, StartTakes
<1>4. CASE Produce
    BY <1>0, <1>4 DEF Produce, Goto
<1>5. CASE RunCallback
    BY <1>0, <1>5 DEF RunCallback, Goto, Call
<1>6. ASSUME NEW i \in Stages, OnlyStage(i), Leaves(i) \/ Returns(i)
      PROVE  /\ phase[i] # "done" /\ kind' = kind
             /\ \A j \in Stages : j # i => phase'[j] = phase[j] /\ called'[j] = called[j]
    BY <1>0, <1>6 DEF OnlyStage, Leaves, Returns
<1>7. CASE \E i \in Stages : OnlyStage(i) /\ (Leaves(i) \/ Returns(i))
    BY <1>6, <1>7
<1> QED
    BY <1>1, <1>2, <1>3, <1>4, <1>5, <1>7, AsyncSteps

\* Every step keeps what a value tells of the stages before it.
LEMMA ValueStep ==
    ASSUME AsyncTypeOK, QueuedOnce, CallsInv, PromiseInv, ValueInv, [Next]_vars PROVE ValueInv'
<1> USE TasksAndStages
<1>0. N \in Nat /\ \A i \in Stages : called[i] \in Nat
    BY AsyncAssumption, SMTT(30) DEF AsyncTypeOK
<1>1. ASSUME NEW i \in Stages, called'[i] > 0
      PROVE  IF kind'[i] = "then" THEN called'[i] = 1 /\ future'[i - 1] = "value"
                                  ELSE future'[i - 1] \in {"error", "broken"}
  <2>1. CASE called'[i] = called[i]
    <3>1. phase[i] # "none"
      BY <1>0, <1>1, <2>1 DEF CallsInv, Before
    <3>2. kind'[i] = kind[i]
      BY <3>1, StageStays
    <3>3. IF kind[i] = "then" THEN called[i] = 1 /\ future[i - 1] = "value"
                              ELSE future[i - 1] \in {"error", "broken"}
      BY <1>1, <2>1 DEF ValueInv
    <3>4. future'[i - 1] = future[i - 1]
      BY <3>3, FutureStays
    <3> QED
      BY <2>1, <3>2, <3>3, <3>4
  <2>2. CASE called'[i] # called[i]
    <3>1. OnlyStage(i) /\ (Leaves(i) \/ Returns(i))
      BY <2>2, StageStays
    <3>2. kind' = kind /\ kind[i] \in {"then", "catch"}
      BY <3>1 DEF OnlyStage, AsyncTypeOK
    <3>3. CASE Leaves(i)
      <4>1. called[i] = 0
        BY <3>3 DEF Leaves, CallsInv, Before
      <4>2. IF kind[i] = "then" THEN called'[i] = 1 /\ future[i - 1] = "value"
                                ELSE future[i - 1] \in {"error", "broken"}
        BY <2>2, <3>2, <3>3, <4>1 DEF Leaves
      <4> QED
        BY <3>2, <4>2, FutureStays
    <3>4. CASE Returns(i)
      <4>1. kind[i] = "catch" /\ phase[i] = "calling"
        BY <2>2, <3>4 DEF Returns
      <4>2. called[i] = 1
        BY <4>1 DEF CallsInv
      <4>3. future[i - 1] \in {"error", "broken"}
        BY <4>1, <4>2 DEF ValueInv
      <4> QED
        BY <3>2, <4>1, <4>3, FutureStays
    <3> QED
      BY <3>1, <3>3, <3>4
  <2> QED
    BY <2>1, <2>2
<1>2. ASSUME NEW i \in Stages, future[i] = "value", NEW j \in 1..i
      PROVE  /\ future'[j - 1] = "value" /\ phase'[j] = "done"
             /\ called'[j] = IF kind'[j] = "then" THEN 1 ELSE 0
  <2>1. j \in Stages
    BY <1>0 DEF Stages
  <2>2. /\ future[j - 1] = "value" /\ phase[j] = "done"
        /\ called[j] = IF kind[j] = "then" THEN 1 ELSE 0
    BY <1>2 DEF ValueInv
  <2>3. ~(OnlyStage(j) /\ (Leaves(j) \/ Returns(j)))
    BY <2>2 DEF Leaves, Returns
  <2>4. called'[j] = called[j] /\ phase'[j] = "done" /\ kind'[j] = kind[j]
    BY <2>1, <2>2, <2>3, StageStays
  <2>5. future'[j - 1] = "value"
    BY <2>1, <2>2, FutureStays
  <2> QED
    BY <2>2, <2>4, <2>5
<1>3. ASSUME NEW i \in Stages, future'[i] = "value", future[i] # "value"
      PROVE  /\ future[i - 1] = "value" /\ phase'[i] = "done"
             /\ called'[i] = IF kind'[i] = "then" THEN 1 ELSE 0
  <2>1. OnlyStage(i) /\ (Leaves(i) \/ Returns(i))
    BY <1>3, FutureStays
  <2>2. kind' = kind /\ kind[i] \in {"then", "catch"}
    BY <2>1 DEF OnlyStage, AsyncTypeOK
  <2>3. CASE Leaves(i)
    <3>1. called[i] = 0
      BY <2>3 DEF Leaves, CallsInv, Before
    <3> QED
      BY <1>3, <2>2, <2>3, <3>1 DEF Leaves
  <2>4. CASE Returns(i)
    <3>1. kind[i] = "then" /\ phase[i] = "calling" /\ phase'[i] = "done" /\ called'[i] = called[i]
      BY <1>3, <2>4 DEF Returns
    <3>2. called[i] = 1
      BY <3>1 DEF CallsInv
    <3>3. future[i - 1] = "value"
      BY <3>1, <3>2 DEF ValueInv
    <3> QED
      BY <2>2, <3>1, <3>2, <3>3
  <2> QED
    BY <2>1, <2>3, <2>4
<1>4. ASSUME NEW i \in Stages, future'[i] = "value", NEW j \in 1..i
      PROVE  /\ future'[j - 1] = "value" /\ phase'[j] = "done"
             /\ called'[j] = IF kind'[j] = "then" THEN 1 ELSE 0
  <2>1. CASE future[i] = "value"
    BY <1>2, <1>4, <2>1
  <2>2. CASE future[i] # "value" /\ j = i
    <3>1. /\ future[i - 1] = "value" /\ phase'[i] = "done"
          /\ called'[i] = IF kind'[i] = "then" THEN 1 ELSE 0
      BY <1>3, <1>4, <2>2
    <3> QED
      BY <2>2, <3>1, FutureStays
  <2>3. CASE future[i] # "value" /\ j # i
    <3>1. i - 1 \in Stages /\ j \in 1..(i - 1)
      BY <1>0, <2>3 DEF Stages
    <3>2. future[i - 1] = "value"
      BY <1>3, <1>4, <2>3
    <3> QED
      BY <1>2, <3>1, <3>2
  <2> QED
    BY <2>1, <2>2, <2>3
<1> QED
    BY <1>1, <1>4 DEF ValueInv

\* At first nothing is queued and nothing has been called.
LEMMA AsyncInitially == Init => AsyncInv
<1> SUFFICES ASSUME Init PROVE AsyncInv
    OBVIOUS
<1> USE TasksAndStages
<1>1. /\ \A t \in Tasks : called[t] = 0 /\ phase[t] = "none"
      /\ \A i \in Stages : phase[i] = "none" /\ future[i] = "pending"
      /\ producer \in {"user", "task"}
      /\ future[0] = "pending" /\ queue = <<>>
    BY AsyncAssumption DEF Init
<1>2. held \in [0..N -> BOOLEAN] /\ \A i \in Stages : ~held[i]
  <2>1. held = [i \in 0..N |-> i = 0]
    BY DEF Init
  <2>2. held \in [0..N -> BOOLEAN]
    BY <2>1, Zenon
  <2>3. \A i \in Stages : ~held[i]
    BY <2>1
  <2> QED
    BY <2>2, <2>3
<1>3. AsyncTypeOK
  <2>1. Running = {}
    BY <1>1 DEF Running, Busy
  <2>2. Cardinality(Running) <= Workers
    BY <2>1, FS_EmptySet, AsyncAssumption
  <2>3. queue \in Seq(Tasks)
    BY <1>1
  <2>4. /\ phase \in [Tasks -> {"none", "queued", "done", "escaped"} \cup Busy]
        /\ kind \in [Stages -> {"then", "catch"}]
        /\ future \in [0..N -> {"pending", "value", "error", "broken"}]
        /\ called \in [Tasks -> 0..2]
    BY DEF Init
  <2> QED
    BY <1>1, <1>2, <2>2, <2>3, <2>4 DEF AsyncTypeOK
<1>4. QueuedOnce
    BY <1>1 DEF QueuedOnce
<1>5. CallsInv
    BY <1>1 DEF CallsInv, Before
<1>6. PromiseInv
    BY <1>1, <1>2 DEF PromiseInv, Before
<1>7. ValueInv
    BY <1>1 DEF ValueInv
<1> QED
    BY <1>3, <1>4, <1>5, <1>6, <1>7 DEF AsyncInv

\* The invariant of the chain and its pool holds in every state.
THEOREM AsyncInvariant == Spec => []AsyncInv
<1>1. AsyncInv /\ [Next]_vars => AsyncInv'
    BY QueueStep, CallsStep, AsyncTypeStep, PromiseStep, ValueStep DEF AsyncInv
<1> QED
    BY <1>1, AsyncInitially, PTL DEF Spec

\* No more tasks run than the pool has workers and no function is called more than
\* twice, for any number of stages and workers.
THEOREM AsyncTypes == Spec => []AsyncTypeOK
<1>1. AsyncInv => AsyncTypeOK
    BY DEF AsyncInv
<1> QED
    BY <1>1, AsyncInvariant, PTL

\* A value at a stage of a chain of then() and catch_() means that every stage
\* before it holds a value and every then() up to it ran exactly once, for a
\* chain of any length.
THEOREM ValueAlwaysMeansAllRan == Spec => []ValueMeansAllRan
<1>1. AsyncInv => ValueMeansAllRan
    BY DEF AsyncInv, ValueInv, ValueMeansAllRan
<1> QED
    BY <1>1, AsyncInvariant, PTL

=============================================================================
