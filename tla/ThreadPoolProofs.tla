--------------------------- MODULE ThreadPoolProofs -------------------------
(***************************************************************************)
(* Proofs about the thread pool for any set of workers and any set of      *)
(* calls of enqueue().  The safety properties of ThreadPool are proved     *)
(* from one inductive invariant, PoolInv; with OnePlace it also gives that *)
(* every step of the pool is a step of TaskService.                        *)
(***************************************************************************)
EXTENDS ThreadPool, SequenceTheorems, TLAPS

\* A worker holds a task exactly while it executes one.
RunnersMatch == \A w \in Workers : (wpc[w] = "running") <=> (cur[w] # NoTask)

\* A worker has left its loop only if the pool is stopped and the queue empty.
ExitedAfterDrain == \A w \in Workers : wpc[w] = "exited" => stopped /\ tasks = <<>>

StopMatches == stopped <=> sd # "idle"

\* After the join no worker is left.
JoinedAll == sd \in {"clear", "finished"} => \A w \in Workers : wpc[w] = "exited"

CoreInv == TypeOK /\ RunnersMatch /\ ExitedAfterDrain /\ StopMatches /\ JoinedAll

PoolInv == CoreInv /\ AcceptedNeverDropped /\ NoLostWakeup

-----------------------------------------------------------------------------
\* The sequence facts the steps on the queue need: what Append adds and keeps,
\* and where the elements of a queue are once its head is taken.
LEMMA AppendElements ==
    ASSUME NEW S, NEW s \in Seq(S), NEW e \in S
    PROVE  /\ Append(s, e) # <<>>
           /\ \E i \in 1..Len(Append(s, e)) : Append(s, e)[i] = e
           /\ \A x : (\E i \in 1..Len(s) : s[i] = x)
                        => \E i \in 1..Len(Append(s, e)) : Append(s, e)[i] = x
<1>1. Len(Append(s, e)) = Len(s) + 1 /\ Append(s, e)[Len(s) + 1] = e
    OBVIOUS
<1>2. \A i \in 1..Len(s) : Append(s, e)[i] = s[i] /\ i \in 1..Len(Append(s, e))
    OBVIOUS
<1>3. Append(s, e) # <<>>
    BY <1>1
<1>4. Len(s) + 1 \in 1..Len(Append(s, e))
    BY <1>1
<1> QED
    BY <1>1, <1>2, <1>3, <1>4

LEMMA TailElements ==
    ASSUME NEW S, NEW s \in Seq(S), s # <<>>, NEW x,
           \E i \in 1..Len(s) : s[i] = x, x # Head(s)
    PROVE  \E i \in 1..Len(Tail(s)) : Tail(s)[i] = x
<1>1. PICK i \in 1..Len(s) : s[i] = x
    OBVIOUS
<1>2. i # 1
    BY <1>1
<1>3. i - 1 \in 1..Len(Tail(s)) /\ Tail(s)[i - 1] = x
    BY <1>1, <1>2
<1> QED
    BY <1>3

-----------------------------------------------------------------------------
\* Every step keeps the types and the agreement of the worker, queue and
\* shutdown states.
LEMMA CoreStep == CoreInv /\ [Next]_vars => CoreInv'
<1> SUFFICES ASSUME CoreInv, [Next]_vars PROVE CoreInv'
    OBVIOUS
<1> USE PoolAssumption
    DEF CoreInv, TypeOK, RunnersMatch, ExitedAfterDrain, StopMatches, JoinedAll
<1>1. ASSUME NEW w \in Workers, WorkerWait(w) PROVE CoreInv'
    BY <1>1 DEF WorkerWait
<1>2. ASSUME NEW w \in Workers, SpuriousWake(w) PROVE CoreInv'
    BY <1>2 DEF SpuriousWake
<1>3. ASSUME NEW w \in Workers, WorkerExit(w) PROVE CoreInv'
    BY <1>3 DEF WorkerExit
<1>4. ASSUME NEW w \in Workers, WorkerTake(w) PROVE CoreInv'
    BY <1>4 DEF WorkerTake
<1>5. ASSUME NEW w \in Workers, WorkerDone(w) PROVE CoreInv'
    BY <1>5 DEF WorkerDone
<1>6. ASSUME NEW t \in Tasks, EnqueueCheck(t) PROVE CoreInv'
    BY <1>6 DEF EnqueueCheck
<1>7. ASSUME NEW t \in Tasks, EnqueuePush(t) PROVE CoreInv'
    BY <1>7 DEF EnqueuePush
<1>8. ASSUME NEW t \in Tasks, EnqueueNotify(t) PROVE CoreInv'
    BY <1>8 DEF EnqueueNotify, Waiting
<1>9. CASE ShutdownStop
    BY <1>9 DEF ShutdownStop
<1>10. CASE ShutdownNotify
    BY <1>10 DEF ShutdownNotify
<1>11. CASE ShutdownJoin
    BY <1>11 DEF ShutdownJoin
<1>12. CASE ShutdownClear
    BY <1>12 DEF ShutdownClear
<1>13. CASE UNCHANGED vars
    BY <1>13 DEF vars
<1> QED
    BY <1>1, <1>2, <1>3, <1>4, <1>5, <1>6, <1>7, <1>8, <1>9, <1>10, <1>11, <1>12,
       <1>13 DEF Next, Worker, Caller, Shutdown

\* A queued task is never left to sleeping workers.
LEMMA WakeupStep == CoreInv /\ NoLostWakeup /\ [Next]_vars => NoLostWakeup'
<1> SUFFICES ASSUME CoreInv, NoLostWakeup, [Next]_vars PROVE NoLostWakeup'
    OBVIOUS
<1> USE PoolAssumption
    DEF CoreInv, TypeOK, ExitedAfterDrain, JoinedAll, NoLostWakeup
<1>1. ASSUME NEW w \in Workers, WorkerWait(w) PROVE NoLostWakeup'
    BY <1>1 DEF WorkerWait
<1>2. ASSUME NEW w \in Workers, SpuriousWake(w) PROVE NoLostWakeup'
    BY <1>2 DEF SpuriousWake
<1>3. ASSUME NEW w \in Workers, WorkerExit(w) PROVE NoLostWakeup'
    BY <1>3 DEF WorkerExit
<1>4. ASSUME NEW w \in Workers, WorkerTake(w) PROVE NoLostWakeup'
    BY <1>4 DEF WorkerTake
<1>5. ASSUME NEW w \in Workers, WorkerDone(w) PROVE NoLostWakeup'
    BY <1>5 DEF WorkerDone
<1>6. ASSUME NEW t \in Tasks, EnqueueCheck(t) PROVE NoLostWakeup'
    BY <1>6 DEF EnqueueCheck
<1>7. ASSUME NEW t \in Tasks, EnqueuePush(t) PROVE NoLostWakeup'
    BY <1>7 DEF EnqueuePush
<1>8. ASSUME NEW t \in Tasks, EnqueueNotify(t) PROVE NoLostWakeup'
    BY <1>8 DEF EnqueueNotify, Waiting
<1>9. CASE ShutdownStop
    BY <1>9 DEF ShutdownStop
<1>10. CASE ShutdownNotify
    BY <1>10 DEF ShutdownNotify
<1>11. CASE ShutdownJoin
    BY <1>11 DEF ShutdownJoin
<1>12. CASE ShutdownClear
    BY <1>12 DEF ShutdownClear
<1>13. CASE UNCHANGED vars
    BY <1>13 DEF vars
<1> QED
    BY <1>1, <1>2, <1>3, <1>4, <1>5, <1>6, <1>7, <1>8, <1>9, <1>10, <1>11, <1>12,
       <1>13 DEF Next, Worker, Caller, Shutdown

\* A task that was taken in stays with the pool until its future is ready.
LEMMA AcceptedStep == CoreInv /\ AcceptedNeverDropped /\ [Next]_vars => AcceptedNeverDropped'
<1> SUFFICES ASSUME CoreInv, AcceptedNeverDropped, [Next]_vars
             PROVE  AcceptedNeverDropped'
    OBVIOUS
<1> USE PoolAssumption DEF CoreInv, TypeOK, AcceptedNeverDropped, Accepted, Running, Queued
<1>1. ASSUME NEW w \in Workers, WorkerWait(w) PROVE AcceptedNeverDropped'
    BY <1>1 DEF WorkerWait
<1>2. ASSUME NEW w \in Workers, SpuriousWake(w) PROVE AcceptedNeverDropped'
    BY <1>2 DEF SpuriousWake
<1>3. ASSUME NEW w \in Workers, WorkerExit(w) PROVE AcceptedNeverDropped'
    BY <1>3 DEF WorkerExit
<1>4. ASSUME NEW w \in Workers, WorkerTake(w) PROVE AcceptedNeverDropped'
  <2>1. ASSUME NEW t \in Tasks, Accepted(t)' PROVE (Queued(t) \/ Running(t) \/ t \in done)'
    <3>1. Queued(t) \/ Running(t) \/ t \in done
        BY <2>1, <1>4 DEF WorkerTake
    <3>2. CASE t = Head(tasks)
        BY <3>2, <1>4 DEF WorkerTake
    <3>3. CASE Queued(t) /\ t # Head(tasks)
      <4>1. tasks \in Seq(Tasks) /\ tasks # <<>> /\ \E i \in 1..Len(tasks) : tasks[i] = t
        BY <3>3, <1>4 DEF WorkerTake
      <4>2. \E i \in 1..Len(Tail(tasks)) : Tail(tasks)[i] = t
        BY <3>3, <4>1, TailElements
      <4> QED
        BY <4>2, <1>4 DEF WorkerTake
    <3>4. CASE Running(t)
        BY <3>4, <1>4 DEF WorkerTake, RunnersMatch
    <3> QED
        BY <3>1, <3>2, <3>3, <3>4, <1>4 DEF WorkerTake
  <2> QED
    BY <2>1
<1>5. ASSUME NEW w \in Workers, WorkerDone(w) PROVE AcceptedNeverDropped'
    BY <1>5 DEF WorkerDone
<1>6. ASSUME NEW t \in Tasks, EnqueueCheck(t) PROVE AcceptedNeverDropped'
    BY <1>6 DEF EnqueueCheck
<1>7. ASSUME NEW t \in Tasks, EnqueuePush(t) PROVE AcceptedNeverDropped'
  <2>1. CASE stopped
    BY <2>1, <1>7 DEF EnqueuePush
  <2>2. CASE ~stopped
    <3>1. /\ Queued(t)'
          /\ \A u \in Tasks : Queued(u) => Queued(u)'
      <4>1. /\ \E i \in 1..Len(Append(tasks, t)) : Append(tasks, t)[i] = t
            /\ \A u : (\E i \in 1..Len(tasks) : tasks[i] = u)
                         => \E i \in 1..Len(Append(tasks, t)) : Append(tasks, t)[i] = u
        BY AppendElements, SMTT(30)
      <4>2. tasks' = Append(tasks, t)
        BY <2>2, <1>7 DEF EnqueuePush
      <4> QED
        BY <4>1, <4>2
    <3>2. \A u \in Tasks : Accepted(u)' => Accepted(u) \/ u = t
        BY <2>2, <1>7 DEF EnqueuePush
    <3> QED
        BY <3>1, <3>2, <2>2, <1>7 DEF EnqueuePush
  <2> QED
    BY <2>1, <2>2
<1>8. ASSUME NEW t \in Tasks, EnqueueNotify(t) PROVE AcceptedNeverDropped'
    BY <1>8 DEF EnqueueNotify
<1>9. CASE ShutdownStop
    BY <1>9 DEF ShutdownStop
<1>10. CASE ShutdownNotify
    BY <1>10 DEF ShutdownNotify
<1>11. CASE ShutdownJoin
    BY <1>11 DEF ShutdownJoin
<1>12. CASE ShutdownClear
    BY <1>12 DEF ShutdownClear, JoinedAll, ExitedAfterDrain
<1>13. CASE UNCHANGED vars
    BY <1>13 DEF vars
<1> QED
    BY <1>1, <1>2, <1>3, <1>4, <1>5, <1>6, <1>7, <1>8, <1>9, <1>10, <1>11, <1>12,
       <1>13 DEF Next, Worker, Caller, Shutdown

-----------------------------------------------------------------------------
\* The inductive invariant holds initially.
LEMMA PoolInit == Init => PoolInv
<1> SUFFICES ASSUME Init PROVE PoolInv
    OBVIOUS
<1> USE DEF Init
<1>1. CoreInv
  <2>1. TypeOK
    <3>1. tasks \in Seq(Tasks) /\ stopped \in BOOLEAN
      BY EmptySeq, Zenon
    <3>2. wpc \in [Workers -> {"check", "waiting", "running", "exited"}]
      OBVIOUS
    <3>3. cur \in [Workers -> Tasks \cup {NoTask}]
      OBVIOUS
    <3>4. call \in [Tasks -> {"idle", "checked", "pushed", "returned", "threw"}]
      OBVIOUS
    <3>5. done \subseteq Tasks /\ sd \in {"idle", "notify", "join", "clear", "finished"}
      OBVIOUS
    <3> QED
      BY <3>1, <3>2, <3>3, <3>4, <3>5 DEF TypeOK
  <2>2. RunnersMatch
    BY DEF RunnersMatch
  <2>3. ExitedAfterDrain
    BY DEF ExitedAfterDrain
  <2>4. StopMatches /\ JoinedAll
    BY DEF StopMatches, JoinedAll
  <2> QED
    BY <2>1, <2>2, <2>3, <2>4 DEF CoreInv
<1>2. AcceptedNeverDropped
    BY DEF AcceptedNeverDropped, Accepted
<1>3. NoLostWakeup
    BY DEF NoLostWakeup
<1> QED
    BY <1>1, <1>2, <1>3 DEF PoolInv

\* The inductive invariant holds in every state of the pool.
THEOREM PoolInvariant == Spec => []PoolInv
<1>1. PoolInv /\ [Next]_vars => PoolInv'
    BY CoreStep, WakeupStep, AcceptedStep DEF PoolInv
<1> QED
    BY PoolInit, <1>1, PTL DEF Spec, SafeSpec

\* The variables of the pool keep their types: in particular a worker never
\* executes, and never reports, an empty task.
THEOREM PoolTypes == Spec => []TypeOK
<1>1. PoolInv => TypeOK
    BY DEF PoolInv, CoreInv
<1> QED
    BY <1>1, PoolInvariant, PTL

\* For any number of workers and calls: what enqueue() took in waits, runs or
\* is done, so that the final emptying of the queue in shutdown() drops nothing.
THEOREM NothingDropped == Spec => []AcceptedNeverDropped
<1>1. PoolInv => AcceptedNeverDropped
    BY DEF PoolInv
<1> QED
    BY <1>1, PoolInvariant, PTL

\* For any number of workers and calls: a queued task always has somebody on
\* the way to it, although notify_one comes after the unlock and shutdown()
\* notifies after it has stopped the pool.
THEOREM NoWakeupLost == Spec => []NoLostWakeup
<1>1. PoolInv => NoLostWakeup
    BY DEF PoolInv
<1> QED
    BY <1>1, PoolInvariant, PTL

\* When shutdown() is past its join, the future of every accepted task is
\* ready: the exit test of the workers, and not the join alone, makes it so.
THEOREM DrainedAtShutdown == Spec => []ShutdownDrains
<1>1. PoolInv => ShutdownDrains
    BY PoolAssumption DEF PoolInv, CoreInv, TypeOK, RunnersMatch, ExitedAfterDrain,
       JoinedAll, AcceptedNeverDropped, ShutdownDrains, Accepted, Queued, Running
<1> QED
    BY <1>1, PoolInvariant, PTL

-----------------------------------------------------------------------------
(* The pool implements the safety part of TaskService.  The mapping reads  *)
(* a task's progress off three places (the queue, a worker, done), so that *)
(* a step maps to one step of the service only if a task is in one place.  *)

\* A task is in the queue at most once, with one worker at most and never in
\* two of queue, worker and done; only accepted tasks are in any of them.
OnePlace ==
    /\ \A i, j \in 1..Len(tasks) : tasks[i] = tasks[j] => i = j
    /\ \A i \in 1..Len(tasks) :
        /\ Accepted(tasks[i]) /\ tasks[i] \notin done
        /\ \A w \in Workers : cur[w] # tasks[i]
    /\ \A w \in Workers : cur[w] # NoTask => Accepted(cur[w]) /\ cur[w] \notin done
    /\ \A w, v \in Workers : cur[w] = cur[v] /\ cur[w] # NoTask => w = v
    /\ \A t \in done : Accepted(t)

\* Every step keeps each task in one place.
LEMMA OnePlaceStep == CoreInv /\ OnePlace /\ [Next]_vars => OnePlace'
<1> SUFFICES ASSUME CoreInv, OnePlace, [Next]_vars PROVE OnePlace'
    OBVIOUS
<1> USE PoolAssumption DEF CoreInv, TypeOK, OnePlace, Accepted
<1>1. ASSUME NEW w \in Workers, WorkerWait(w) PROVE OnePlace'
    BY <1>1 DEF WorkerWait
<1>2. ASSUME NEW w \in Workers, SpuriousWake(w) PROVE OnePlace'
    BY <1>2 DEF SpuriousWake
<1>3. ASSUME NEW w \in Workers, WorkerExit(w) PROVE OnePlace'
    BY <1>3 DEF WorkerExit
<1>4. ASSUME NEW w \in Workers, WorkerTake(w) PROVE OnePlace'
  <2>1. /\ Len(tasks) \in Nat /\ Len(tasks) > 0 /\ Head(tasks) = tasks[1] /\ Head(tasks) \in Tasks
        /\ Len(tasks') = Len(tasks) - 1
        /\ \A i \in 1..Len(tasks') : tasks'[i] = tasks[i + 1]
    BY <1>4 DEF WorkerTake
  <2>2. /\ call' = call /\ done' = done
        /\ cur' = [cur EXCEPT ![w] = Head(tasks)] /\ cur[w] = NoTask
    BY <1>4 DEF WorkerTake, RunnersMatch
  <2>3. \A i \in 1..Len(tasks') : i + 1 \in 1..Len(tasks) /\ i + 1 # 1
    BY <2>1
  <2>4. 1 \in 1..Len(tasks)
    BY <2>1
  <2>5. (\A i, j \in 1..Len(tasks) : tasks[i] = tasks[j] => i = j)'
    <3>1. ASSUME NEW i \in 1..Len(tasks'), NEW j \in 1..Len(tasks'), tasks'[i] = tasks'[j]
          PROVE  i = j
        BY <2>1, <2>3, <3>1
    <3> QED
        BY <3>1
  <2>6. (\A i \in 1..Len(tasks) :
            /\ Accepted(tasks[i]) /\ tasks[i] \notin done
            /\ \A v \in Workers : cur[v] # tasks[i])'
    BY <2>1, <2>2, <2>3, <2>4
  <2>7. (\A v \in Workers : cur[v] # NoTask => Accepted(cur[v]) /\ cur[v] \notin done)'
    BY <2>1, <2>2, <2>4
  <2>8. (\A u, v \in Workers : cur[u] = cur[v] /\ cur[u] # NoTask => u = v)'
    BY <2>1, <2>2, <2>4
  <2> QED
    BY <2>2, <2>5, <2>6, <2>7, <2>8
<1>5. ASSUME NEW w \in Workers, WorkerDone(w) PROVE OnePlace'
    BY <1>5 DEF WorkerDone, RunnersMatch
<1>6. ASSUME NEW t \in Tasks, EnqueueCheck(t) PROVE OnePlace'
    BY <1>6 DEF EnqueueCheck
<1>7. ASSUME NEW t \in Tasks, EnqueuePush(t) PROVE OnePlace'
  <2>1. CASE stopped
    BY <2>1, <1>7 DEF EnqueuePush
  <2>2. CASE ~stopped
    <3>1. /\ Len(tasks) \in Nat /\ Len(tasks') = Len(tasks) + 1 /\ tasks'[Len(tasks) + 1] = t
          /\ \A i \in 1..Len(tasks) : tasks'[i] = tasks[i]
        BY <2>2, <1>7 DEF EnqueuePush
    <3>2. /\ done' = done /\ cur' = cur /\ call' = [call EXCEPT ![t] = "pushed"] /\ ~Accepted(t)
        BY <2>2, <1>7 DEF EnqueuePush
    <3>3. \A i \in 1..Len(tasks') : i \in 1..Len(tasks) \/ i = Len(tasks) + 1
        BY <3>1
    <3>4. \A i \in 1..Len(tasks) : tasks[i] # t /\ tasks[i] \in Tasks
        BY <3>2
    <3>5. \A u \in Tasks : Accepted(u) => Accepted(u)'
        BY <3>2
    <3>6. (\A i, j \in 1..Len(tasks) : tasks[i] = tasks[j] => i = j)'
        BY <3>1, <3>3, <3>4
    <3>7. (\A i \in 1..Len(tasks) :
              /\ Accepted(tasks[i]) /\ tasks[i] \notin done
              /\ \A v \in Workers : cur[v] # tasks[i])'
        BY <3>1, <3>2, <3>3, <3>4, <3>5
    <3> QED
        BY <3>2, <3>5, <3>6, <3>7
  <2> QED
    BY <2>1, <2>2
<1>8. ASSUME NEW t \in Tasks, EnqueueNotify(t) PROVE OnePlace'
    BY <1>8 DEF EnqueueNotify
<1>9. CASE ShutdownStop
    BY <1>9 DEF ShutdownStop
<1>10. CASE ShutdownNotify
    BY <1>10 DEF ShutdownNotify
<1>11. CASE ShutdownJoin
    BY <1>11 DEF ShutdownJoin
<1>12. CASE ShutdownClear
    BY <1>12 DEF ShutdownClear
<1>13. CASE UNCHANGED vars
    BY <1>13 DEF vars
<1> QED
    BY <1>1, <1>2, <1>3, <1>4, <1>5, <1>6, <1>7, <1>8, <1>9, <1>10, <1>11, <1>12,
       <1>13 DEF Next, Worker, Caller, Shutdown

\* A step that leaves the mapped state alone is a stuttering step of the service.
LEMMA ServiceStutters ==
    ASSUME UNCHANGED tasks, GateOf' = GateOf, \A t \in Tasks : ProgressOf(t)' = ProgressOf(t)
    PROVE  UNCHANGED Svc!svcVars
BY DEF Svc!svcVars

\* What decides a task's progress, and what decides the gate.
LEMMA ProgressKept ==
    ASSUME call' = call, done' = done, cur' = cur
    PROVE  \A t \in Tasks : ProgressOf(t)' = ProgressOf(t)
BY DEF ProgressOf, Running, Accepted

LEMMA GateKept ==
    ASSUME stopped' = stopped, \A w \in Workers : (wpc'[w] = "exited") <=> (wpc[w] = "exited")
    PROVE  GateOf' = GateOf
BY DEF GateOf

\* Every step of the pool is a step of the service or leaves it unchanged.
LEMMA ServiceStep ==
    ASSUME CoreInv, AcceptedNeverDropped, OnePlace, [Next]_vars
    PROVE  [Svc!SvcNext]_Svc!svcVars
<1> USE PoolAssumption DEF CoreInv, TypeOK
<1>1. ASSUME NEW w \in Workers, WorkerWait(w) PROVE UNCHANGED Svc!svcVars
    BY <1>1, ProgressKept, GateKept, ServiceStutters DEF WorkerWait
<1>2. ASSUME NEW w \in Workers, SpuriousWake(w) PROVE UNCHANGED Svc!svcVars
    BY <1>2, ProgressKept, GateKept, ServiceStutters DEF SpuriousWake
<1>3. ASSUME NEW w \in Workers, WorkerExit(w) PROVE Svc!Closed \/ UNCHANGED Svc!svcVars
  <2>1. tasks' = tasks /\ \A t \in Tasks : ProgressOf(t)' = ProgressOf(t)
    BY <1>3, ProgressKept DEF WorkerExit
  <2>2. GateOf = "closing" /\ GateOf' \in {"closing", "closed"}
    BY <1>3 DEF WorkerExit, GateOf
  <2>3. CASE GateOf' = "closed"
    <3>1. \A v \in Workers : v = w \/ wpc[v] = "exited"
        BY <1>3, <2>3 DEF WorkerExit, GateOf
    <3>2. \A v \in Workers : cur[v] = NoTask
        BY <1>3, <3>1 DEF WorkerExit, RunnersMatch
    <3>3. \A t \in Tasks : Accepted(t) => t \in done
        BY <1>3, <3>2 DEF WorkerExit, AcceptedNeverDropped, Queued, Running
    <3>4. \A t \in Tasks : ProgressOf(t) \notin {"accepted", "started"}
        BY <3>2, <3>3 DEF ProgressOf, Running
    <3> QED
        BY <2>1, <2>2, <2>3, <3>4 DEF Svc!Closed
  <2> QED
    BY <2>1, <2>2, <2>3, ServiceStutters
<1>4. ASSUME NEW w \in Workers, WorkerTake(w) PROVE Svc!Start
  <2>1. /\ tasks # <<>> /\ tasks' = Tail(tasks) /\ call' = call /\ done' = done
        /\ cur' = [cur EXCEPT ![w] = Head(tasks)] /\ cur[w] = NoTask
    BY <1>4 DEF WorkerTake, RunnersMatch
  <2>2. Head(tasks) \in Tasks /\ Head(tasks) \notin done
    <3>1. 1 \in 1..Len(tasks) /\ Head(tasks) = tasks[1] /\ tasks[1] \in Tasks
        BY <2>1
    <3> QED
        BY <3>1 DEF OnePlace
  <2>3. \A t \in Tasks : t = Head(tasks) => ProgressOf(t)' = "started"
    BY <2>1, <2>2 DEF ProgressOf, Running
  <2>4. \A t \in Tasks : t # Head(tasks) => ProgressOf(t)' = ProgressOf(t)
    BY <2>1, <2>2 DEF ProgressOf, Running, Accepted
  <2>5. GateOf' = GateOf
    BY <1>4, GateKept DEF WorkerTake
  <2> QED
    BY <2>1, <2>2, <2>3, <2>4, <2>5 DEF Svc!Start
<1>5. ASSUME NEW w \in Workers, WorkerDone(w) PROVE \E t \in Tasks : Svc!Finish(t)
  <2>1. /\ tasks' = tasks /\ call' = call /\ done' = done \cup {cur[w]}
        /\ cur' = [cur EXCEPT ![w] = NoTask] /\ cur[w] \in Tasks /\ cur[w] \notin done
    BY <1>5 DEF WorkerDone, RunnersMatch, OnePlace
  <2>2. \A t \in Tasks : t = cur[w] => ProgressOf(t) = "started" /\ ProgressOf(t)' = "finished"
    BY <2>1 DEF ProgressOf, Running
  <2>3. \A t \in Tasks : t # cur[w] => ProgressOf(t)' = ProgressOf(t)
    BY <2>1 DEF ProgressOf, Running, Accepted
  <2>4. GateOf' = GateOf
    BY <1>5, GateKept DEF WorkerDone
  <2> QED
    BY <2>1, <2>2, <2>3, <2>4 DEF Svc!Finish
<1>6. ASSUME NEW t \in Tasks, call[t] \in {"idle", "checked"}, call' = [call EXCEPT ![t] = "threw"],
             stopped, UNCHANGED <<tasks, stopped, wpc, cur, done>>
      PROVE  Svc!Refuse(t)
  <2>1. ~Accepted(t) /\ ~Running(t) /\ t \notin done /\ ~Running(t)'
    BY <1>6 DEF Accepted, Running, OnePlace
  <2>2. ProgressOf(t) = "new" /\ ProgressOf(t)' = "refused"
    BY <1>6, <2>1 DEF ProgressOf, Accepted
  <2>3. \A u \in Tasks : u # t => ProgressOf(u)' = ProgressOf(u)
    BY <1>6 DEF ProgressOf, Running, Accepted
  <2>4. GateOf' = GateOf /\ GateOf # "open"
    BY <1>6 DEF GateOf
  <2> QED
    BY <1>6, <2>2, <2>3, <2>4 DEF Svc!Refuse
<1>7. ASSUME NEW t \in Tasks, EnqueueCheck(t) PROVE Svc!Refuse(t) \/ UNCHANGED Svc!svcVars
  <2>1. CASE stopped
    BY <1>6, <1>7, <2>1 DEF EnqueueCheck
  <2>2. CASE ~stopped
    <3>1. \A u \in Tasks : ProgressOf(u)' = ProgressOf(u)
        BY <1>7, <2>2 DEF EnqueueCheck, ProgressOf, Running, Accepted
    <3>2. GateOf' = GateOf
        BY <1>7, GateKept DEF EnqueueCheck
    <3> QED
        BY <1>7, <3>1, <3>2, ServiceStutters DEF EnqueueCheck
  <2> QED
    BY <2>1, <2>2
<1>8. ASSUME NEW t \in Tasks, EnqueuePush(t) PROVE Svc!Refuse(t) \/ Svc!Accept(t)
  <2>1. CASE stopped
    BY <1>6, <1>8, <2>1 DEF EnqueuePush
  <2>2. CASE ~stopped
    <3>1. /\ call[t] = "checked" /\ call' = [call EXCEPT ![t] = "pushed"]
          /\ tasks' = Append(tasks, t) /\ UNCHANGED <<stopped, wpc, cur, done>>
        BY <1>8, <2>2 DEF EnqueuePush
    <3>2. ~Accepted(t) /\ ~Running(t) /\ t \notin done /\ ~Running(t)' /\ t \notin done'
        BY <3>1 DEF Accepted, Running, OnePlace
    <3>3. ProgressOf(t) = "new" /\ ProgressOf(t)' = "accepted"
        BY <3>1, <3>2 DEF ProgressOf, Accepted
    <3>4. \A u \in Tasks : u # t => ProgressOf(u)' = ProgressOf(u)
        BY <3>1 DEF ProgressOf, Running, Accepted
    <3>5. GateOf' = GateOf /\ GateOf = "open"
        BY <3>1, <2>2 DEF GateOf
    <3> QED
        BY <3>1, <3>3, <3>4, <3>5 DEF Svc!Accept
  <2> QED
    BY <2>1, <2>2
<1>9. ASSUME NEW t \in Tasks, EnqueueNotify(t) PROVE UNCHANGED Svc!svcVars
  <2>1. \A u \in Tasks : ProgressOf(u)' = ProgressOf(u)
    BY <1>9 DEF EnqueueNotify, ProgressOf, Running, Accepted
  <2>2. GateOf' = GateOf
    BY <1>9, GateKept DEF EnqueueNotify, Waiting
  <2> QED
    BY <1>9, <2>1, <2>2, ServiceStutters DEF EnqueueNotify
<1>10. CASE ShutdownStop
  <2>1. tasks' = tasks /\ \A u \in Tasks : ProgressOf(u)' = ProgressOf(u)
    BY <1>10, ProgressKept DEF ShutdownStop
  <2>2. GateOf' = GateOf \/ (GateOf = "open" /\ GateOf' = "closing")
    BY <1>10 DEF ShutdownStop, GateOf, ExitedAfterDrain
  <2>3. Svc!Close \/ UNCHANGED Svc!svcVars
    BY <2>1, <2>2, ServiceStutters DEF Svc!Close
  <2> QED
    BY <2>3 DEF Svc!SvcNext
<1>11. CASE ShutdownNotify
    BY <1>11, ProgressKept, GateKept, ServiceStutters DEF ShutdownNotify
<1>12. CASE ShutdownJoin
    BY <1>12, ProgressKept, GateKept, ServiceStutters DEF ShutdownJoin
<1>13. CASE ShutdownClear
  <2>1. tasks' = tasks
    BY <1>13 DEF ShutdownClear, JoinedAll, ExitedAfterDrain
  <2> QED
    BY <1>13, <2>1, ProgressKept, GateKept, ServiceStutters DEF ShutdownClear
<1>14. CASE UNCHANGED vars
    BY <1>14, ProgressKept, GateKept, ServiceStutters DEF vars
<1> QED
    BY <1>1, <1>2, <1>3, <1>4, <1>5, <1>7, <1>8, <1>9, <1>10, <1>11, <1>12, <1>13, <1>14
    DEF Next, Worker, Caller, Shutdown, Svc!SvcNext

\* The pool starts as the open service without tasks.
LEMMA ServiceInit == Init => Svc!SvcInit
<1> SUFFICES ASSUME Init PROVE Svc!SvcInit
    OBVIOUS
<1>1. tasks = <<>> /\ GateOf = "open"
    BY DEF Init, GateOf
<1>2. \A t \in Tasks : ProgressOf(t) = "new"
    BY PoolAssumption DEF Init, ProgressOf, Running, Accepted
<1> QED
    BY <1>1, <1>2 DEF Svc!SvcInit

\* A task is never in two places of the pool, so it is executed at most once
\* and reported at most once, whichever workers wake.
THEOREM TasksInOnePlace == Spec => []OnePlace
<1>1. Init => OnePlace
    BY PoolAssumption DEF Init, OnePlace
<1>2. PoolInv /\ OnePlace /\ [Next]_vars => OnePlace'
    BY OnePlaceStep DEF PoolInv
<1> QED
    BY <1>1, <1>2, PoolInvariant, PTL DEF Spec, SafeSpec

\* For any number of workers and calls the pool does nothing the service would
\* not: it runs what enqueue() accepted once, in the order of the queue and
\* before the last worker leaves, and never runs what enqueue() refused.  (That
\* it gets there, the fairness part of ImplementsTaskService, is checked by TLC.)
THEOREM PoolKeepsService == Spec => Svc!SvcSafe
<1>1. PoolInv /\ OnePlace /\ [Next]_vars => [Svc!SvcNext]_Svc!svcVars
    BY ServiceStep DEF PoolInv
<1> QED
    BY <1>1, ServiceInit, PoolInvariant, TasksInOnePlace, PTL DEF Spec, SafeSpec, Svc!SvcSafe

=============================================================================
