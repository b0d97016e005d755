---------------------------- MODULE LoggerProofs ----------------------------
(***************************************************************************)
(* Proofs about the asynchronous logger, for any lines and any bound of    *)
(* the queue.  That nothing is forgotten is inductive only together with   *)
(* two facts about the threads: the line in hand is there exactly while it *)
(* is printed, and a new thread is started only where there is no old one  *)
(* that could have a line in hand.                                         *)
(***************************************************************************)
EXTENDS Logger, SequenceTheorems, TLAPS

\* A line is in hand only while it is printed; without the asynchronous mode there
\* is no thread, and it is entered from outside it.
ThreadInv ==
    /\ thread # "print" => hand = <<>>
    /\ ~async => thread = "none"
    /\ apc = "enable" => ~async

LoggerInv == TypeOK /\ ThreadInv /\ NothingForgotten

\* Appending at the end of a concatenation.
LEMMA AppendToConcat ==
    ASSUME NEW S, NEW s \in Seq(S), NEW t \in Seq(S), NEW x \in S
    PROVE  s \o Append(t, x) = Append(s \o t, x)
<1>1. s \o t \in Seq(S) /\ <<x>> \in Seq(S)
    BY ConcatProperties
<1>2. s \o (t \o <<x>>) = (s \o t) \o <<x>>
    BY <1>1, ConcatAssociative
<1> QED
    BY <1>1, <1>2, AppendIsConcat

\* Taking the head of a queue away and putting it at the end of what precedes it.
LEMMA HeadMoves ==
    ASSUME NEW S, NEW s \in Seq(S), NEW t \in Seq(S), t # <<>>
    PROVE  (s \o <<Head(t)>>) \o Tail(t) = s \o t
<1>1. Head(t) \in S /\ Tail(t) \in Seq(S) /\ <<Head(t)>> \in Seq(S)
    BY HeadTailProperties
<1>2. <<Head(t)>> \o Tail(t) = t
  <2>1. Len(t) > 0
    OBVIOUS
  <2> QED
    BY <1>1, <2>1
<1> QED
    BY <1>1, <1>2, ConcatAssociative

\* Every step keeps the types.
LEMMA LoggerTypeStep == TypeOK /\ [Next]_vars => TypeOK'
<1> SUFFICES ASSUME TypeOK, [Next]_vars PROVE TypeOK'
    OBVIOUS
<1> USE LoggerAssumption DEF TypeOK
<1>1. ASSUME NEW l \in Lines, LogTest(l) PROVE TypeOK'
    BY <1>1 DEF LogTest
<1>2. ASSUME NEW l \in Lines, LogPush(l) PROVE TypeOK'
  <2>1. CASE Len(queue) < MaxQueue
    <3>1. queue' = Append(queue, l) /\ pushed' = Append(pushed, l)
      BY <1>2, <2>1 DEF LogPush
    <3>2. /\ queue' \in Seq(Lines) /\ pushed' \in Seq(Lines) /\ Len(queue') = Len(queue) + 1
      BY <3>1
    <3> QED
      BY <1>2, <2>1, <3>2 DEF LogPush
  <2>2. CASE ~(Len(queue) < MaxQueue)
    BY <1>2, <2>2 DEF LogPush
  <2> QED
    BY <2>1, <2>2
<1>3. CASE Take
  <2>1. CASE queue # <<>> /\ ~stop
    <3>1. queue' = Tail(queue) /\ hand' = <<Head(queue)>>
      BY <1>3, <2>1 DEF Take
    <3>2. /\ Head(queue) \in Lines /\ Tail(queue) \in Seq(Lines)
          /\ Len(Tail(queue)) = Len(queue) - 1
      BY <2>1, HeadTailProperties
    <3>3. queue' \in Seq(Lines) /\ Len(queue') <= MaxQueue
      BY <3>1, <3>2
    <3>4. hand' \in Seq(Lines) /\ Len(hand') <= 1
      BY <3>1, <3>2
    <3> QED
      BY <1>3, <2>1, <3>3, <3>4 DEF Take
  <2>2. CASE ~(queue # <<>> /\ ~stop)
    BY <1>3, <2>2 DEF Take
  <2> QED
    BY <2>1, <2>2
<1>4. CASE PrintLine
  <2>1. printed' \in Seq(Lines)
    BY <1>4, ConcatProperties DEF PrintLine
  <2>2. hand' \in Seq(Lines) /\ Len(hand') <= 1
    BY <1>4 DEF PrintLine
  <2> QED
    BY <1>4, <2>1, <2>2 DEF PrintLine
<1>5. CASE Enable
  <2>1. async' \in BOOLEAN /\ stop' \in BOOLEAN
    BY <1>5, Zenon DEF Enable
  <2>2. hand' \in Seq(Lines) /\ Len(hand') <= 1
    BY <1>5 DEF Enable
  <2> QED
    BY <1>5, <2>1, <2>2 DEF Enable
<1>6. CASE OuterTest
    BY <1>6 DEF OuterTest
<1>7. CASE WaitTest
    BY <1>7 DEF WaitTest
<1>8. CASE FallAsleep
    BY <1>8 DEF FallAsleep
<1>9. CASE SpuriousWake
    BY <1>9 DEF SpuriousWake
<1>10. CASE Relock
    BY <1>10 DEF Relock
<1>11. CASE EnableTest
    BY <1>11 DEF EnableTest
<1>12. CASE DisableTest
    BY <1>12 DEF DisableTest
<1>13. CASE DisableStop
    BY <1>13 DEF DisableStop
<1>14. CASE DisableNotify
    BY <1>14 DEF DisableNotify
<1>15. CASE DisableJoin
    BY <1>15 DEF DisableJoin
<1>16. CASE ResetDropped
    BY <1>16 DEF ResetDropped
<1>17. CASE UNCHANGED vars
    BY <1>17 DEF vars
<1> QED
    BY <1>1, <1>2, <1>3, <1>4, <1>5, <1>6, <1>7, <1>8, <1>9, <1>10, <1>11, <1>12,
       <1>13, <1>14, <1>15, <1>16, <1>17
    DEF Next, ThreadStep, Disabling

\* Every step keeps the line in hand with the thread that prints it.
LEMMA ThreadStepKeeps == TypeOK /\ ThreadInv /\ [Next]_vars => ThreadInv'
<1> SUFFICES ASSUME TypeOK, ThreadInv, [Next]_vars PROVE ThreadInv'
    OBVIOUS
<1> USE DEF TypeOK, ThreadInv
<1>1. ASSUME NEW l \in Lines, LogTest(l) \/ LogPush(l) PROVE ThreadInv'
    BY <1>1 DEF LogTest, LogPush
<1>2. CASE Take
    BY <1>2 DEF Take
<1>3. CASE PrintLine
    BY <1>3 DEF PrintLine
<1>4. CASE Enable
    BY <1>4 DEF Enable
<1>5. CASE OuterTest
    BY <1>5 DEF OuterTest
<1>6. CASE WaitTest
    BY <1>6 DEF WaitTest
<1>7. CASE FallAsleep
    BY <1>7 DEF FallAsleep
<1>8. CASE SpuriousWake
    BY <1>8 DEF SpuriousWake
<1>9. CASE Relock
    BY <1>9 DEF Relock
<1>10. CASE EnableTest
    BY <1>10 DEF EnableTest
<1>11. CASE DisableTest
    BY <1>11 DEF DisableTest
<1>12. CASE DisableStop
    BY <1>12 DEF DisableStop
<1>13. CASE DisableNotify
    BY <1>13 DEF DisableNotify
<1>14. CASE DisableJoin
    BY <1>14 DEF DisableJoin
<1>15. CASE ResetDropped
    BY <1>15 DEF ResetDropped
<1>16. CASE UNCHANGED vars
    BY <1>16 DEF vars
<1> QED
    BY <1>1, <1>2, <1>3, <1>4, <1>5, <1>6, <1>7, <1>8, <1>9, <1>10, <1>11, <1>12,
       <1>13, <1>14, <1>15, <1>16
    DEF Next, ThreadStep, Disabling

\* Every step keeps what was queued printed, in hand or queued, in that order.
LEMMA NothingForgottenStep ==
    TypeOK /\ ThreadInv /\ NothingForgotten /\ [Next]_vars => NothingForgotten'
<1> SUFFICES ASSUME TypeOK, ThreadInv, NothingForgotten, [Next]_vars PROVE NothingForgotten'
    OBVIOUS
<1>0. /\ queue \in Seq(Lines) /\ printed \in Seq(Lines) /\ hand \in Seq(Lines)
      /\ printed \o hand \in Seq(Lines)
    BY ConcatProperties DEF TypeOK
<1>1. pushed = (printed \o hand) \o queue
    BY DEF NothingForgotten
<1>2. ASSUME NEW l \in Lines, LogPush(l) PROVE NothingForgotten'
  <2>1. l \in Lines
    BY <1>2
  <2>2. (printed \o hand) \o Append(queue, l) = Append((printed \o hand) \o queue, l)
    <3> DEFINE before == printed \o hand
    <3>1. before \in Seq(Lines)
      BY <1>0
    <3> HIDE DEF before
    <3>2. before \o Append(queue, l) = Append(before \o queue, l)
      BY <1>0, <2>1, <3>1, AppendToConcat
    <3> QED
      BY <3>2 DEF before
  <2>3. Append(pushed, l) = (printed \o hand) \o Append(queue, l)
    BY <1>1, <2>2
  <2> QED
    BY <1>1, <1>2, <2>3 DEF LogPush, NothingForgotten
<1>3. CASE Take
  <2>1. hand = <<>>
    BY <1>3 DEF Take, ThreadInv
  <2>2. printed \o hand = printed
    BY <1>0, <2>1, ConcatEmptySeq
  <2>3. CASE queue # <<>> /\ ~stop
    <3>1. (printed \o <<Head(queue)>>) \o Tail(queue) = printed \o queue
      BY <1>0, <2>3, HeadMoves
    <3> QED
      BY <1>1, <1>3, <2>2, <2>3, <3>1 DEF Take, NothingForgotten
  <2>4. CASE ~(queue # <<>> /\ ~stop)
    BY <1>1, <1>3, <2>4 DEF Take, NothingForgotten
  <2> QED
    BY <2>3, <2>4
<1>4. CASE PrintLine
  <2>1. (printed \o hand) \o <<>> = printed \o hand
    BY <1>0, ConcatEmptySeq
  <2> QED
    BY <1>1, <1>4, <2>1 DEF PrintLine, NothingForgotten
<1>5. CASE Enable
  <2>1. hand = <<>>
    BY <1>5 DEF Enable, ThreadInv
  <2> QED
    BY <1>1, <1>5, <2>1 DEF Enable, NothingForgotten
<1>6. ASSUME UNCHANGED <<pushed, printed, hand, queue>> PROVE NothingForgotten'
    BY <1>1, <1>6 DEF NothingForgotten
<1>7. ASSUME NEW l \in Lines, LogTest(l) PROVE UNCHANGED <<pushed, printed, hand, queue>>
    BY <1>7 DEF LogTest
<1>8. ASSUME \/ ResetDropped \/ OuterTest \/ WaitTest \/ FallAsleep \/ Relock \/ SpuriousWake
             \/ EnableTest \/ DisableTest \/ Disabling \/ UNCHANGED vars
      PROVE  UNCHANGED <<pushed, printed, hand, queue>>
    BY <1>8 DEF ResetDropped, OuterTest, WaitTest, FallAsleep, Relock, SpuriousWake,
       EnableTest,
       DisableTest, Disabling, DisableStop, DisableNotify, DisableJoin, vars
<1> QED
    BY <1>2, <1>3, <1>4, <1>5, <1>6, <1>7, <1>8 DEF Next, ThreadStep

\* A new logger has queued nothing and has no thread.
LEMMA LoggerInitially == Init => LoggerInv
<1> SUFFICES ASSUME Init PROVE LoggerInv
    OBVIOUS
<1>1. async \in BOOLEAN /\ stop \in BOOLEAN
    BY Zenon DEF Init
<1>2. TypeOK
    BY <1>1, LoggerAssumption DEF Init, TypeOK
<1>3. NothingForgotten
    BY DEF Init, NothingForgotten
<1>4. ThreadInv
    BY DEF Init, ThreadInv
<1> QED
    BY <1>2, <1>3, <1>4 DEF LoggerInv

\* The invariant of the logger holds in every state.
THEOREM LoggerInvariant == Spec => []LoggerInv
<1>1. LoggerInv /\ [Next]_vars => LoggerInv'
    BY LoggerTypeStep, ThreadStepKeeps, NothingForgottenStep DEF LoggerInv
<1> QED
    BY <1>1, LoggerInitially, PTL DEF Spec

\* logQueue_ never holds more than MAX_QUEUE_SIZE lines, and every variable keeps
\* its type.
THEOREM LoggerTypes == Spec => []TypeOK
<1>1. LoggerInv => TypeOK
    BY DEF LoggerInv
<1> QED
    BY <1>1, LoggerInvariant, PTL

\* Every line that log() queued is printed once and in order, in the thread's hand
\* or still queued, however often enableAsyncLogging() switches the mode.
THEOREM NothingIsForgotten == Spec => []NothingForgotten
<1>1. LoggerInv => NothingForgotten
    BY DEF LoggerInv
<1> QED
    BY <1>1, LoggerInvariant, PTL

=============================================================================
