------------------------------- MODULE Logger -------------------------------
(***************************************************************************)
(* debug::Logger of src/common/debug.cpp in its asynchronous mode: callers *)
(* of log() push lines into a bounded queue, a thread takes them out and   *)
(* prints them with queueMutex_ released, and enableAsyncLogging() starts  *)
(* and stops that thread.  stopLogging_ is set and queueCv_ notified       *)
(* without queueMutex_, so both may fall between the thread's test of its  *)
(* wait predicate and its going to sleep: the test and the sleep are two   *)
(* steps.  Lines are told apart by who logs them; their text, the level    *)
(* filter and the synchronous output are left out.                         *)
(***************************************************************************)
EXTENDS Naturals, Sequences

CONSTANTS Lines,    \* calls of log() that pass the level filter
          MaxQueue  \* MAX_QUEUE_SIZE

ASSUME LoggerAssumption == MaxQueue \in Nat \ {0}

VARIABLES async,    \* asyncLogging_
          stop,     \* stopLogging_
          queue,    \* logQueue_
          dropped,  \* droppedMessages_
          thread,   \* where the thread of logThread_ is; "none" without one
          hand,     \* the line it has taken from the queue, as a sequence
          lpc,      \* where each call of log() is
          apc,      \* where the caller of enableAsyncLogging() is
          pushed,   \* lines in the order they were queued (history)
          printed   \* lines in the order the thread printed them (history)

vars == <<async, stop, queue, dropped, thread, hand, lpc, apc, pushed, printed>>

Init ==
    /\ async = FALSE
    /\ stop = FALSE
    /\ queue = <<>>
    /\ dropped = 0
    /\ thread = "none"
    /\ hand = <<>>
    /\ lpc = [l \in Lines |-> "idle"]
    /\ apc = "idle"
    /\ pushed = <<>>
    /\ printed = <<>>

\* The thread holds queueMutex_ from its test to its sleep and while it takes.
Unlocked == thread \notin {"sleepy", "drain"}

-----------------------------------------------------------------------------
(* log().                                                                  *)

LogTest(l) ==
    /\ lpc[l] = "idle"
    /\ lpc' = [lpc EXCEPT ![l] = IF async THEN "push" ELSE "direct"]
    /\ UNCHANGED <<async, stop, queue, dropped, thread, hand, apc, pushed, printed>>

\* Mutant: no notify_one.
LogPushSilent(l) ==
    /\ lpc[l] = "push"
    /\ Unlocked
    /\ lpc' = [lpc EXCEPT ![l] = "done"]
    /\ IF Len(queue) < MaxQueue
       THEN queue' = Append(queue, l) /\ pushed' = Append(pushed, l) /\ UNCHANGED dropped
       ELSE dropped' = dropped + 1 /\ UNCHANGED <<queue, pushed>>
    /\ UNCHANGED <<async, stop, thread, hand, apc, printed>>

\* Mutant: one line too many.
LogPushOneMore(l) ==
    /\ lpc[l] = "push"
    /\ Unlocked
    /\ lpc' = [lpc EXCEPT ![l] = "done"]
    /\ IF Len(queue) <= MaxQueue
       THEN /\ queue' = Append(queue, l)
            /\ pushed' = Append(pushed, l)
            /\ thread' = IF thread = "asleep" THEN "test" ELSE thread
            /\ UNCHANGED dropped
       ELSE dropped' = dropped + 1 /\ UNCHANGED <<queue, pushed, thread>>
    /\ UNCHANGED <<async, stop, hand, apc, printed>>

\* Under queueMutex_, the notification included.
LogPush(l) ==
    /\ lpc[l] = "push"
    /\ Unlocked
    /\ lpc' = [lpc EXCEPT ![l] = "done"]
    /\ IF Len(queue) < MaxQueue
       THEN /\ queue' = Append(queue, l)
            /\ pushed' = Append(pushed, l)
            /\ thread' = IF thread = "asleep" THEN "test" ELSE thread
            /\ UNCHANGED dropped
       ELSE dropped' = dropped + 1 /\ UNCHANGED <<queue, pushed, thread>>
    /\ UNCHANGED <<async, stop, hand, apc, printed>>

ResetDropped ==
    /\ dropped > 0
    /\ dropped' = 0
    /\ UNCHANGED <<async, stop, queue, thread, hand, lpc, apc, pushed, printed>>

-----------------------------------------------------------------------------
(* processLogQueue().                                                      *)

OuterTest ==
    /\ thread = "top"
    /\ thread' = IF stop THEN "ended" ELSE "test"
    /\ UNCHANGED <<async, stop, queue, dropped, hand, lpc, apc, pushed, printed>>

\* The predicate of queueCv_.wait, with the lock.
WaitTest ==
    /\ thread = "test"
    /\ thread' = IF queue # <<>> \/ stop THEN "drain" ELSE "sleepy"
    /\ UNCHANGED <<async, stop, queue, dropped, hand, lpc, apc, pushed, printed>>

FallAsleep ==
    /\ thread = "sleepy"
    /\ thread' = "asleep"
    /\ UNCHANGED <<async, stop, queue, dropped, hand, lpc, apc, pushed, printed>>

SpuriousWake ==
    /\ thread = "asleep"
    /\ thread' = "test"
    /\ UNCHANGED <<async, stop, queue, dropped, hand, lpc, apc, pushed, printed>>

\* The condition of the inner loop, and the next line if it holds.
Take ==
    /\ thread = "drain"
    /\ IF queue # <<>> /\ ~stop
       THEN /\ hand' = <<Head(queue)>>
            /\ queue' = Tail(queue)
            /\ thread' = "print"
       ELSE thread' = "top" /\ UNCHANGED <<hand, queue>>
    /\ UNCHANGED <<async, stop, dropped, lpc, apc, pushed, printed>>

\* Mutant: a line taken when the stop comes is forgotten.
PrintUnlessStopped ==
    /\ thread = "print"
    /\ printed' = IF stop THEN printed ELSE printed \o hand
    /\ hand' = <<>>
    /\ thread' = "relock"
    /\ UNCHANGED <<async, stop, queue, dropped, lpc, apc, pushed>>

\* Without the lock.
PrintLine ==
    /\ thread = "print"
    /\ printed' = printed \o hand
    /\ hand' = <<>>
    /\ thread' = "relock"
    /\ UNCHANGED <<async, stop, queue, dropped, lpc, apc, pushed>>

Relock ==
    /\ thread = "relock"
    /\ thread' = "drain"
    /\ UNCHANGED <<async, stop, queue, dropped, hand, lpc, apc, pushed, printed>>

-----------------------------------------------------------------------------
(* enableAsyncLogging(), called by one thread at a time: two that switch   *)
(* at once would race for logThread_.                                      *)

EnableTest ==
    /\ apc = "idle" /\ ~async
    /\ apc' = "enable"
    /\ UNCHANGED <<async, stop, queue, dropped, thread, hand, lpc, pushed, printed>>

\* The new thread replaces what logThread_ held.
Enable ==
    /\ apc = "enable"
    /\ async' = TRUE
    /\ stop' = FALSE
    /\ thread' = "top"
    /\ hand' = <<>>
    /\ apc' = "idle"
    /\ UNCHANGED <<queue, dropped, lpc, pushed, printed>>

DisableTest ==
    /\ apc = "idle" /\ async
    /\ apc' = "stop"
    /\ UNCHANGED <<async, stop, queue, dropped, thread, hand, lpc, pushed, printed>>

DisableStop ==
    /\ apc = "stop"
    /\ stop' = TRUE
    /\ apc' = "notify"
    /\ UNCHANGED <<async, queue, dropped, thread, hand, lpc, pushed, printed>>

DisableNotify ==
    /\ apc = "notify"
    /\ thread' = IF thread = "asleep" THEN "test" ELSE thread
    /\ apc' = "join"
    /\ UNCHANGED <<async, stop, queue, dropped, hand, lpc, pushed, printed>>

\* join(), reset() and asyncLogging_ = false.
DisableJoin ==
    /\ apc = "join"
    /\ thread \in {"none", "ended"}
    /\ thread' = "none"
    /\ async' = FALSE
    /\ apc' = "idle"
    /\ UNCHANGED <<stop, queue, dropped, hand, lpc, pushed, printed>>

-----------------------------------------------------------------------------
ThreadStep == OuterTest \/ WaitTest \/ FallAsleep \/ Take \/ PrintLine \/ Relock
Disabling == DisableStop \/ DisableNotify \/ DisableJoin

Next ==
    \/ \E l \in Lines : LogTest(l) \/ LogPush(l)
    \/ ResetDropped
    \/ ThreadStep \/ SpuriousWake
    \/ EnableTest \/ Enable \/ DisableTest \/ Disabling

\* Threads keep running; no spurious wake-up is promised, and nobody has to
\* log or to switch modes.
Spec ==
    /\ Init /\ [][Next]_vars
    /\ WF_vars(ThreadStep)
    /\ \A l \in Lines : WF_vars(LogPush(l))
    /\ WF_vars(Enable) /\ WF_vars(Disabling)

-----------------------------------------------------------------------------
\* Type invariant: logQueue_ stays within MAX_QUEUE_SIZE however callers of log()
\* and the thread interleave, and the thread has taken at most one line.
TypeOK ==
    /\ async \in BOOLEAN /\ stop \in BOOLEAN
    /\ queue \in Seq(Lines) /\ pushed \in Seq(Lines) /\ printed \in Seq(Lines)
    /\ Len(queue) <= MaxQueue
    /\ dropped \in Nat
    /\ thread \in {"none", "top", "test", "sleepy", "asleep", "drain", "print",
                   "relock", "ended"}
    /\ hand \in Seq(Lines) /\ Len(hand) <= 1
    /\ lpc \in [Lines -> {"idle", "push", "direct", "done"}]
    /\ apc \in {"idle", "enable", "stop", "notify", "join"}

\* A line that was queued is printed once and in order or still waits its
\* turn, across any number of switches between the modes: stopping the thread
\* forgets nothing, though it leaves lines in the queue.
NothingForgotten == pushed = printed \o hand \o queue

\* A queued line is printed unless the asynchronous mode is switched off.
QueuedIsPrinted ==
    \A l \in Lines :
        (\E i \in 1..Len(queue) : queue[i] = l)
            ~> (stop \/ \E i \in 1..Len(printed) : printed[i] = l)

=============================================================================
