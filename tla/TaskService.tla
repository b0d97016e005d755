---------------------------- MODULE TaskService ----------------------------
(***************************************************************************)
(* What a user of the thread pool in include/tradier/common/async.hpp may  *)
(* rely on, without workers, locks or condition variables: a task handed   *)
(* over while the service is open is started exactly once, in the order of *)
(* acceptance, and is finished before the service reports that it is       *)
(* closed; a task handed over later is refused.                            *)
(***************************************************************************)
EXTENDS Naturals, Sequences

CONSTANT Tasks

VARIABLES backlog,   \* accepted tasks that have not been started, oldest first
          progress,  \* how far each task has come
          gate       \* whether the service is open, closing or closed

svcVars == <<backlog, progress, gate>>

SvcInit ==
    /\ backlog = <<>>
    /\ progress = [t \in Tasks |-> "new"]
    /\ gate = "open"

Accept(t) ==
    /\ gate = "open"
    /\ progress[t] = "new"
    /\ backlog' = Append(backlog, t)
    /\ progress' = [progress EXCEPT ![t] = "accepted"]
    /\ UNCHANGED gate

Refuse(t) ==
    /\ gate # "open"
    /\ progress[t] = "new"
    /\ progress' = [progress EXCEPT ![t] = "refused"]
    /\ UNCHANGED <<backlog, gate>>

Start ==
    /\ backlog # <<>>
    /\ progress' = [progress EXCEPT ![Head(backlog)] = "started"]
    /\ backlog' = Tail(backlog)
    /\ UNCHANGED gate

Finish(t) ==
    /\ progress[t] = "started"
    /\ progress' = [progress EXCEPT ![t] = "finished"]
    /\ UNCHANGED <<backlog, gate>>

Close ==
    /\ gate = "open"
    /\ gate' = "closing"
    /\ UNCHANGED <<backlog, progress>>

\* The service is closed only when nothing it accepted is left undone.
Closed ==
    /\ gate = "closing"
    /\ \A t \in Tasks : progress[t] \notin {"accepted", "started"}
    /\ gate' = "closed"
    /\ UNCHANGED <<backlog, progress>>

SvcNext ==
    \/ \E t \in Tasks : Accept(t) \/ Refuse(t) \/ Finish(t)
    \/ Start \/ Close \/ Closed

SvcSafe == SvcInit /\ [][SvcNext]_svcVars

SvcSpec ==
    /\ SvcSafe
    /\ WF_svcVars(Start)
    /\ WF_svcVars(Closed)
    /\ \A t \in Tasks : WF_svcVars(Finish(t))

=============================================================================
