--------------------------- MODULE WebSocketProofs --------------------------
(***************************************************************************)
(* Proofs about the WebSocket connection for any number of threads that    *)
(* open, close and destroy it, any number of calls of send(), and with or  *)
(* without failures of the network.  The three safety properties carry     *)
(* each other: connected_ is served because a joined thread has ended, and *)
(* a joined thread leaves nothing connected because connected_ is served.  *)
(***************************************************************************)
EXTENDS WebSocket, SequenceTheorems, TLAPS

SocketInv == TypeOK /\ FlagsAgree

\* Every step keeps the variables within their types.
LEMMA TypeStep == TypeOK /\ [Next]_vars => TypeOK'
<1> SUFFICES ASSUME TypeOK, [Next]_vars PROVE TypeOK'
    OBVIOUS
<1> USE DEF TypeOK, flags
<1>1. CASE IoHandshakeOk
    BY <1>1 DEF IoHandshakeOk
<1>2. CASE IoHandshakeFail
    BY <1>2 DEF IoHandshakeFail
<1>3. CASE IoOnConnect
    BY <1>3 DEF IoOnConnect
<1>4. CASE IoFlushLock
    BY <1>4 DEF IoFlushLock
<1>5. CASE IoFlushWrite
    BY <1>5 DEF IoFlushWrite
<1>6. CASE IoFlushEnd
    BY <1>6 DEF IoFlushEnd
<1>7. CASE IoLoop
    BY <1>7 DEF IoLoop
<1>8. CASE IoMessage
    BY <1>8 DEF IoMessage
<1>9. CASE IoReadFail
    BY <1>9 DEF IoReadFail
<1>10. CASE IoOnClose
    BY <1>10 DEF IoOnClose
<1>11. ASSUME NEW u \in Users, ConnectTest(u) PROVE TypeOK'
    BY <1>11 DEF ConnectTest, Goto
<1>12. ASSUME NEW u \in Users, ConnectCas(u) PROVE TypeOK'
    BY <1>12 DEF ConnectCas, Goto
<1>13. ASSUME NEW u \in Users, ConnectStart(u) PROVE TypeOK'
    BY <1>13 DEF ConnectStart, Goto
<1>14. ASSUME NEW u \in Users, ConnectReturn(u) PROVE TypeOK'
    BY <1>14 DEF ConnectReturn, Goto
<1>15. ASSUME NEW u \in Users, ConnectThrow(u) PROVE TypeOK'
    BY <1>15 DEF ConnectThrow, Goto
<1>16. ASSUME NEW u \in Users, ConnectCatch(u) PROVE TypeOK'
    BY <1>16, ZenonT(60) DEF ConnectCatch, Goto
<1>17. ASSUME NEW u \in Users, DisconnectTest(u) PROVE TypeOK'
    BY <1>17 DEF DisconnectTest, Goto, Doubtful
<1>18. ASSUME NEW u \in Users, DisconnectRetest(u) PROVE TypeOK'
    BY <1>18 DEF DisconnectRetest, Goto, Left
<1>19. ASSUME NEW u \in Users, DisconnectStop(u) PROVE TypeOK'
    BY <1>19 DEF DisconnectStop, Goto
<1>20. ASSUME NEW u \in Users, DisconnectClose(u) PROVE TypeOK'
    BY <1>20 DEF DisconnectClose, Goto
<1>21. ASSUME NEW u \in Users, DisconnectJoin(u) PROVE TypeOK'
    BY <1>21, ZenonT(60) DEF DisconnectJoin, Goto
<1>22. ASSUME NEW u \in Users, DisconnectJoinThrows(u) PROVE TypeOK'
    BY <1>22 DEF DisconnectJoinThrows, Goto
<1>23. ASSUME NEW u \in Users, DisconnectDown(u) PROVE TypeOK'
    BY <1>23, ZenonT(60) DEF DisconnectDown, Goto
<1>24. ASSUME NEW u \in Users, DisconnectClear(u) PROVE TypeOK'
    BY <1>24, ZenonT(60) DEF DisconnectClear, Goto
<1>25. ASSUME NEW u \in Users, DisconnectDrop(u) PROVE TypeOK'
  <2>1. pending' = <<>>
    BY <1>25 DEF DisconnectDrop
  <2>2. pending' \in Seq(Messages)
    BY <2>1, EmptySeq, Zenon
  <2> QED
    BY <1>25, <2>2 DEF DisconnectDrop, Goto, Left
<1>26. ASSUME NEW u \in Users, Destroy(u) PROVE TypeOK'
    BY <1>26 DEF Destroy, Goto, Doubtful
<1>27. ASSUME NEW u \in Users, DestroyThread(u) PROVE TypeOK'
    BY <1>27 DEF DestroyThread
<1>28. ASSUME NEW m \in Messages, SendTest(m) PROVE TypeOK'
    BY <1>28 DEF SendTest
<1>29. ASSUME NEW m \in Messages, SendChoose(m) PROVE TypeOK'
    BY <1>29 DEF SendChoose
<1>30. ASSUME NEW m \in Messages, SendPush(m) PROVE TypeOK'
    BY <1>30 DEF SendPush
<1>31. ASSUME NEW m \in Messages, SendWrite(m) PROVE TypeOK'
  <2>1. wire' \in Seq(Messages)
    <3>1. wire' = wire \/ wire' = Append(wire, m)
      BY <1>31, Zenon DEF SendWrite
    <3>2. wire \in Seq(Messages)
      BY Zenon
    <3> QED
      <4> HIDE DEF TypeOK
      <4>1. Append(wire, m) \in Seq(Messages)
        BY <3>2, SMT
      <4> QED
        BY <3>1, <3>2, <4>1, Zenon
  <2>2. mpc' \in [Messages -> {"idle", "choose", "push", "queued", "write", "written", "threw"}]
    BY <1>31 DEF SendWrite
  <2> QED
    BY <1>31, <2>1, <2>2 DEF SendWrite
<1>32. CASE UNCHANGED vars
    BY <1>32 DEF vars
<1>33. CASE PeerAnswersClose
    BY <1>33 DEF PeerAnswersClose
<1>34. ASSUME NEW u \in Users, ConnectSpawn(u) PROVE TypeOK'
    BY <1>34 DEF ConnectSpawn, Goto
<1>35. ASSUME NEW u \in Users, ConnectLaunch(u) PROVE TypeOK'
    BY <1>35 DEF ConnectLaunch, Goto
<1>36. ASSUME NEW u \in Users, DisconnectClosed(u) PROVE TypeOK'
    BY <1>36 DEF DisconnectClosed, Goto
<1> QED
    BY <1>1, <1>2, <1>3, <1>4, <1>5, <1>6, <1>7, <1>8, <1>9, <1>10,
       <1>11, <1>12, <1>13, <1>14, <1>15, <1>16, <1>17, <1>18, <1>19, <1>20,
       <1>21, <1>22, <1>23, <1>24, <1>25, <1>26, <1>27, <1>28, <1>29, <1>30,
       <1>31, <1>32, <1>33, <1>34, <1>35, <1>36
    DEF Next, IoStep, Network, Connecting, Disconnecting, Over

\* Every step keeps the flags, the I/O thread and the callers in agreement.
LEMMA FlagStep == TypeOK /\ FlagsAgree /\ [Next]_vars => FlagsAgree'
<1> SUFFICES ASSUME TypeOK, FlagsAgree, [Next]_vars PROVE FlagsAgree'
    OBVIOUS
<1> USE DEF TypeOK, flags, FlagsAgree, ConnectedIsServed, ConnectingHasOwner, JoinedMeansDown,
            IoAlive
<1>1. CASE IoHandshakeOk
    BY <1>1 DEF IoHandshakeOk
<1>2. CASE IoHandshakeFail
    BY <1>2 DEF IoHandshakeFail
<1>3. CASE IoOnConnect
    BY <1>3 DEF IoOnConnect
<1>4. CASE IoFlushLock
    BY <1>4 DEF IoFlushLock
<1>5. CASE IoFlushWrite
    BY <1>5 DEF IoFlushWrite
<1>6. CASE IoFlushEnd
    BY <1>6 DEF IoFlushEnd
<1>7. CASE IoLoop
    BY <1>7 DEF IoLoop
<1>8. CASE IoMessage
    BY <1>8 DEF IoMessage
<1>9. CASE IoReadFail
    BY <1>9 DEF IoReadFail
<1>10. CASE IoOnClose
    BY <1>10 DEF IoOnClose
<1>11. ASSUME NEW u \in Users, ConnectTest(u) PROVE FlagsAgree'
    BY <1>11 DEF ConnectTest, Goto
<1>12. ASSUME NEW u \in Users, ConnectCas(u) PROVE FlagsAgree'
    BY <1>12 DEF ConnectCas, Goto
<1>13. ASSUME NEW u \in Users, ConnectStart(u) PROVE FlagsAgree'
    BY <1>13 DEF ConnectStart, Goto
<1>14. ASSUME NEW u \in Users, ConnectReturn(u) PROVE FlagsAgree'
    BY <1>14 DEF ConnectReturn, Goto
<1>15. ASSUME NEW u \in Users, ConnectThrow(u) PROVE FlagsAgree'
    BY <1>15 DEF ConnectThrow, Goto
<1>16. ASSUME NEW u \in Users, ConnectCatch(u) PROVE FlagsAgree'
    BY <1>16 DEF ConnectCatch, Goto
<1>17. ASSUME NEW u \in Users, DisconnectTest(u) PROVE FlagsAgree'
    BY <1>17 DEF DisconnectTest, Goto, Doubtful
<1>18. ASSUME NEW u \in Users, DisconnectRetest(u) PROVE FlagsAgree'
    BY <1>18 DEF DisconnectRetest, Goto, Left
<1>19. ASSUME NEW u \in Users, DisconnectStop(u) PROVE FlagsAgree'
    BY <1>19 DEF DisconnectStop, Goto
<1>20. ASSUME NEW u \in Users, DisconnectClose(u) PROVE FlagsAgree'
    BY <1>20 DEF DisconnectClose, Goto
<1>21. ASSUME NEW u \in Users, DisconnectJoin(u) PROVE FlagsAgree'
    BY <1>21 DEF DisconnectJoin, Goto
<1>22. ASSUME NEW u \in Users, DisconnectJoinThrows(u) PROVE FlagsAgree'
    BY <1>22 DEF DisconnectJoinThrows, Goto
<1>23. ASSUME NEW u \in Users, DisconnectDown(u) PROVE FlagsAgree'
    BY <1>23 DEF DisconnectDown, Goto
<1>24. ASSUME NEW u \in Users, DisconnectClear(u) PROVE FlagsAgree'
    BY <1>24 DEF DisconnectClear, Goto
<1>25. ASSUME NEW u \in Users, DisconnectDrop(u) PROVE FlagsAgree'
    BY <1>25 DEF DisconnectDrop, Goto, Left
<1>26. ASSUME NEW u \in Users, Destroy(u) PROVE FlagsAgree'
    BY <1>26 DEF Destroy, Goto, Doubtful
<1>27. ASSUME NEW u \in Users, DestroyThread(u) PROVE FlagsAgree'
    BY <1>27 DEF DestroyThread
<1>28. ASSUME NEW m \in Messages, SendTest(m) PROVE FlagsAgree'
    BY <1>28 DEF SendTest
<1>29. ASSUME NEW m \in Messages, SendChoose(m) PROVE FlagsAgree'
    BY <1>29 DEF SendChoose
<1>30. ASSUME NEW m \in Messages, SendPush(m) PROVE FlagsAgree'
    BY <1>30 DEF SendPush
<1>31. ASSUME NEW m \in Messages, SendWrite(m) PROVE FlagsAgree'
    BY <1>31 DEF SendWrite
<1>32. CASE UNCHANGED vars
    BY <1>32 DEF vars
<1>33. CASE PeerAnswersClose
    BY <1>33 DEF PeerAnswersClose
<1>34. ASSUME NEW u \in Users, ConnectSpawn(u) PROVE FlagsAgree'
    BY <1>34 DEF ConnectSpawn, Goto
<1>35. ASSUME NEW u \in Users, ConnectLaunch(u) PROVE FlagsAgree'
    BY <1>35 DEF ConnectLaunch, Goto
<1>36. ASSUME NEW u \in Users, DisconnectClosed(u) PROVE FlagsAgree'
    BY <1>36 DEF DisconnectClosed, Goto
<1> QED
    BY <1>1, <1>2, <1>3, <1>4, <1>5, <1>6, <1>7, <1>8, <1>9, <1>10,
       <1>11, <1>12, <1>13, <1>14, <1>15, <1>16, <1>17, <1>18, <1>19, <1>20,
       <1>21, <1>22, <1>23, <1>24, <1>25, <1>26, <1>27, <1>28, <1>29, <1>30,
       <1>31, <1>32, <1>33, <1>34, <1>35, <1>36
    DEF Next, IoStep, Network, Connecting, Disconnecting, Over

\* A new connection is down and nobody is at work on it.
LEMMA SocketInit == Init => SocketInv
<1> SUFFICES ASSUME Init PROVE SocketInv
    OBVIOUS
<1> USE DEF Init
<1>1. TypeOK
  <2>1. pending \in Seq(Messages) /\ wire \in Seq(Messages)
    BY EmptySeq, Zenon
  <2>2. /\ upc \in [Users -> {"idle", "cas", "start", "spawn", "launch", "connecting", "catch",
                              "test", "stop", "close", "closing", "join", "down", "clear",
                              "drop", "destroyed"}]
        /\ mpc \in [Messages -> {"idle", "choose", "push", "queued", "write", "written", "threw"}]
    OBVIOUS
  <2> QED
    BY <2>1, <2>2 DEF TypeOK
<1>2. FlagsAgree
    BY DEF FlagsAgree, ConnectedIsServed, ConnectingHasOwner, JoinedMeansDown, IoAlive
<1> QED
    BY <1>1, <1>2 DEF SocketInv

\* The invariant of the flags holds in every state.
THEOREM SocketInvariant == Spec => []SocketInv
<1>1. SocketInv /\ [Next]_vars => SocketInv'
    BY TypeStep, FlagStep DEF SocketInv
<1> QED
    BY SocketInit, <1>1, PTL DEF Spec, SafeSpec

\* The connection's variables keep their types, for any callers and messages.
THEOREM SocketTypes == Spec => []TypeOK
<1>1. SocketInv => TypeOK
    BY DEF SocketInv
<1> QED
    BY <1>1, SocketInvariant, PTL

\* isConnected() never reports a connection without an I/O thread behind it,
\* connecting_ is never left behind by an attempt that was given up, and past
\* the join of disconnect() no I/O thread is left to call back, whatever calls
\* overlap and whenever the network fails.
THEOREM FlagsAlwaysAgree == Spec => []FlagsAgree
<1>1. SocketInv => FlagsAgree
    BY DEF SocketInv
<1> QED
    BY <1>1, SocketInvariant, PTL

-----------------------------------------------------------------------------
(* Messages.                                                               *)

\* A message is in the queue only while its call has queued it, on the wire
\* only once it was queued or written, and nowhere twice.
QueueInv ==
    /\ \A i \in 1..Len(pending) : mpc[pending[i]] = "queued"
    /\ \A i \in 1..Len(wire) : mpc[wire[i]] \in {"queued", "written"}
    /\ \A i, j \in 1..Len(pending) : pending[i] = pending[j] => i = j
    /\ \A i \in 1..Len(pending), j \in 1..Len(wire) : pending[i] # wire[j]
    /\ SentAtMostOnce

\* Every step leaves a message in at most one place: the flush moves the head of
\* the queue to the wire, and a call of send() writes or queues, never both.
LEMMA QueueStep == TypeOK /\ QueueInv /\ [Next]_vars => QueueInv'
<1> SUFFICES ASSUME TypeOK, QueueInv, [Next]_vars PROVE QueueInv'
    OBVIOUS
<1> USE DEF TypeOK, QueueInv, SentAtMostOnce
<1>1. CASE IoFlushWrite
  <2>1. /\ pending \in Seq(Messages) /\ wire \in Seq(Messages) /\ pending # <<>> /\ mpc' = mpc
        /\ pending' = Tail(pending) /\ wire' = Append(wire, Head(pending))
    BY <1>1 DEF IoFlushWrite
  <2>2. 1 \in 1..Len(pending) /\ pending[1] = Head(pending)
    BY <2>1
  <2>3. \A i \in 1..Len(pending') :
            pending'[i] = pending[i + 1] /\ i + 1 \in 1..Len(pending) /\ i + 1 # 1 /\ i \in Int
    BY <2>1
  <2>4. \A j \in 1..Len(wire') :
            \/ j \in 1..Len(wire) /\ wire'[j] = wire[j]
            \/ j = Len(wire) + 1 /\ wire'[j] = pending[1]
    BY <2>1, <2>2
  <2>5. (\A i \in 1..Len(pending) : mpc[pending[i]] = "queued")'
    BY <2>1, <2>3
  <2>6. (\A i \in 1..Len(wire) : mpc[wire[i]] \in {"queued", "written"})'
    BY <2>1, <2>2, <2>4
  <2>7. (\A i, j \in 1..Len(pending) : pending[i] = pending[j] => i = j)'
    <3>1. ASSUME NEW i \in 1..Len(pending'), NEW j \in 1..Len(pending'),
                 pending'[i] = pending'[j]
          PROVE  i = j
      <4>1. pending[i + 1] = pending[j + 1] /\ i + 1 \in 1..Len(pending)
            /\ j + 1 \in 1..Len(pending) /\ i \in Int /\ j \in Int
        BY <2>3, <3>1
      <4>2. i + 1 = j + 1
        BY <4>1
      <4> QED
        BY <4>1, <4>2
    <3> QED
      BY <3>1
  <2>8. (\A i \in 1..Len(pending), j \in 1..Len(wire) : pending[i] # wire[j])'
    <3>1. ASSUME NEW i \in 1..Len(pending'), NEW j \in 1..Len(wire')
          PROVE  pending'[i] # wire'[j]
      <4>1. /\ pending'[i] = pending[i + 1]
            /\ i + 1 \in 1..Len(pending) /\ i + 1 # 1
        BY <2>3
      <4>2. pending[i + 1] # pending[1]
        BY <2>2, <4>1
      <4>3. \A k \in 1..Len(wire) : pending[i + 1] # wire[k]
        BY <4>1
      <4> QED
        BY <2>4, <4>1, <4>2, <4>3
    <3> QED
        BY <3>1
  <2>9. SentAtMostOnce'
    <3>1. ASSUME NEW i \in 1..Len(wire'), NEW j \in 1..Len(wire'), wire'[i] = wire'[j]
          PROVE  i = j
        BY <2>2, <2>4, <3>1
    <3> QED
        BY <3>1
  <2> QED
    BY <2>5, <2>6, <2>7, <2>8, <2>9
<1>2. ASSUME NEW u \in Users, DisconnectDrop(u) PROVE QueueInv'
    BY <1>2 DEF DisconnectDrop
<1>3. ASSUME NEW m \in Messages, SendTest(m) PROVE QueueInv'
    BY <1>3, SMTT(30) DEF SendTest
<1>4. ASSUME NEW m \in Messages, SendChoose(m) PROVE QueueInv'
    BY <1>4 DEF SendChoose
<1>5. ASSUME NEW m \in Messages, SendPush(m) PROVE QueueInv'
  <2>1. /\ mpc[m] = "push" /\ mpc' = [mpc EXCEPT ![m] = "queued"]
        /\ pending' = Append(pending, m) /\ wire' = wire
    BY <1>5 DEF SendPush
  <2>2. (\A i \in 1..Len(pending) : pending[i] # m) /\ (\A j \in 1..Len(wire) : wire[j] # m)
    BY <2>1
  <2>3. Len(pending') = Len(pending) + 1 /\ \A i \in 1..Len(pending') :
            pending'[i] = IF i = Len(pending) + 1 THEN m ELSE pending[i]
    BY <2>1
  <2> QED
    BY <2>1, <2>2, <2>3
<1>6. ASSUME NEW m \in Messages, SendWrite(m) PROVE QueueInv'
  <2>1. CASE wire' = wire /\ mpc' = [mpc EXCEPT ![m] = "threw"]
    BY <1>6, <2>1 DEF SendWrite
  <2>2. CASE wire' = Append(wire, m) /\ mpc' = [mpc EXCEPT ![m] = "written"]
    <3>1. (\A i \in 1..Len(pending) : pending[i] # m) /\ (\A j \in 1..Len(wire) : wire[j] # m)
      BY <1>6 DEF SendWrite
    <3>2. pending' = pending
      BY <1>6 DEF SendWrite
    <3>3. Len(wire') = Len(wire) + 1 /\ \A j \in 1..Len(wire') :
              wire'[j] = IF j = Len(wire) + 1 THEN m ELSE wire[j]
      BY <2>2
    <3> QED
      BY <2>2, <3>1, <3>2, <3>3
  <2> QED
    BY <1>6, <2>1, <2>2 DEF SendWrite
<1>7. ASSUME UNCHANGED <<pending, wire, mpc>> PROVE QueueInv'
    BY <1>7
<1>8. ASSUME NEW u \in Users,
             \/ ConnectTest(u) \/ Connecting(u) \/ DisconnectTest(u) \/ Destroy(u)
             \/ (Disconnecting(u) /\ ~DisconnectDrop(u))
      PROVE  UNCHANGED <<pending, wire, mpc>>
    BY <1>8 DEF ConnectTest, Connecting, ConnectCas, ConnectStart, ConnectSpawn,
       ConnectLaunch, ConnectReturn, ConnectThrow, ConnectCatch, DisconnectTest, Disconnecting, DisconnectRetest, DisconnectStop,
       DisconnectClose, DisconnectClosed, DisconnectJoin, DisconnectJoinThrows, DisconnectDown, DisconnectClear,
       Destroy, DestroyThread
<1>9. ASSUME (IoStep /\ ~IoFlushWrite) \/ Network \/ IoMessage \/ UNCHANGED vars
      PROVE  UNCHANGED <<pending, wire, mpc>>
    BY <1>9 DEF IoStep, IoOnConnect, IoFlushLock, IoFlushEnd, IoLoop, IoOnClose, Network,
       IoHandshakeOk, IoHandshakeFail, IoReadFail, PeerAnswersClose, IoMessage, vars
<1> QED
    BY <1>1, <1>2, <1>3, <1>4, <1>5, <1>6, <1>7, <1>8, <1>9 DEF Next, Over

\* No message is written to the stream twice, for any callers and messages.
THEOREM SentOnce == Spec => []SentAtMostOnce
<1>1. Init => QueueInv
    BY DEF Init, QueueInv, SentAtMostOnce
<1>2. QueueInv => SentAtMostOnce
    BY DEF QueueInv
<1> QED
    BY <1>1, <1>2, QueueStep, SocketTypes, PTL DEF Spec, SafeSpec

-----------------------------------------------------------------------------
(* One owner.                                                              *)

\* One thread opens, closes and destroys the connection; any number may send.
OneOwner == \E u : Users = {u}

\* A connection that is down with nothing to join, and one that is up and served
\* by a thread that will stay in its loop until the network fails.
Down == ~connected /\ ~connecting /\ ~joinable
Up ==
    /\ connected /\ joinable /\ ~shouldStop /\ stream = "open"
    /\ io \in {"opened", "flush", "loop", "read"}

\* The connection is coming up.
Opening ==
    /\ ~connected /\ connecting /\ joinable /\ ~shouldStop
    /\ io = "handshake" \/ (io = "onConnect" /\ stream = "open")

\* What the owner may rely on, at each of its steps, as long as nothing failed.
OwnerMay(u) ==
    /\ upc[u] = "idle" => Down \/ Up
    /\ upc[u] \in {"cas", "test"} => Down
    /\ upc[u] \in {"start", "spawn", "launch", "down", "clear", "drop", "destroyed"}
          => ~joinable
    /\ upc[u] \in {"start", "spawn", "launch"} => connecting
    /\ upc[u] \in {"spawn", "launch"} => ~shouldStop
    /\ upc[u] = "drop" => ~connecting
    /\ upc[u] = "connecting" => Up \/ Opening
    /\ upc[u] # "catch"
    /\ upc[u] = "stop" => Up

OwnerInv == ~fault => life # "terminated" /\ \A u \in Users : OwnerMay(u)

\* Every step of the owner, of the I/O thread and of the senders keeps it.
LEMMA OwnerStep ==
    ASSUME OneOwner PROVE TypeOK /\ FlagsAgree /\ OwnerInv /\ [Next]_vars => OwnerInv'
<1> SUFFICES ASSUME TypeOK, FlagsAgree, OwnerInv, [Next]_vars PROVE OwnerInv'
    OBVIOUS
<1> USE OneOwner
    DEF OneOwner, TypeOK, flags, FlagsAgree, ConnectedIsServed, JoinedMeansDown, IoAlive,
        OwnerInv, OwnerMay, Down, Up, Opening
<1>1. CASE IoHandshakeOk
    BY <1>1 DEF IoHandshakeOk
<1>2. CASE IoHandshakeFail
    BY <1>2 DEF IoHandshakeFail
<1>3. CASE IoOnConnect
    BY <1>3 DEF IoOnConnect
<1>4. CASE IoFlushLock
    BY <1>4 DEF IoFlushLock
<1>5. CASE IoFlushWrite
    BY <1>5 DEF IoFlushWrite
<1>6. CASE IoFlushEnd
    BY <1>6 DEF IoFlushEnd
<1>7. CASE IoLoop
    BY <1>7 DEF IoLoop
<1>8. CASE IoMessage
    BY <1>8 DEF IoMessage
<1>9. CASE IoReadFail
    BY <1>9 DEF IoReadFail
<1>10. CASE IoOnClose
    BY <1>10 DEF IoOnClose
<1>11. ASSUME NEW u \in Users, ConnectTest(u) PROVE OwnerInv'
    BY <1>11 DEF ConnectTest, Goto
<1>12. ASSUME NEW u \in Users, ConnectCas(u) PROVE OwnerInv'
    BY <1>12 DEF ConnectCas, Goto
<1>13. ASSUME NEW u \in Users, ConnectStart(u) PROVE OwnerInv'
    BY <1>13 DEF ConnectStart, Goto
<1>14. ASSUME NEW u \in Users, ConnectReturn(u) PROVE OwnerInv'
    BY <1>14 DEF ConnectReturn, Goto
<1>15. ASSUME NEW u \in Users, ConnectThrow(u) PROVE OwnerInv'
    BY <1>15 DEF ConnectThrow, Goto
<1>16. ASSUME NEW u \in Users, ConnectCatch(u) PROVE OwnerInv'
    BY <1>16 DEF ConnectCatch, Goto
<1>17. ASSUME NEW u \in Users, DisconnectTest(u) PROVE OwnerInv'
    BY <1>17 DEF DisconnectTest, Goto, Doubtful
<1>18. ASSUME NEW u \in Users, DisconnectRetest(u) PROVE OwnerInv'
    BY <1>18 DEF DisconnectRetest, Goto, Left
<1>19. ASSUME NEW u \in Users, DisconnectStop(u) PROVE OwnerInv'
    BY <1>19 DEF DisconnectStop, Goto
<1>20. ASSUME NEW u \in Users, DisconnectClose(u) PROVE OwnerInv'
    BY <1>20 DEF DisconnectClose, Goto
<1>21. ASSUME NEW u \in Users, DisconnectJoin(u) PROVE OwnerInv'
    BY <1>21 DEF DisconnectJoin, Goto
<1>22. ASSUME NEW u \in Users, DisconnectJoinThrows(u) PROVE OwnerInv'
    BY <1>22 DEF DisconnectJoinThrows, Goto
<1>23. ASSUME NEW u \in Users, DisconnectDown(u) PROVE OwnerInv'
    BY <1>23 DEF DisconnectDown, Goto
<1>24. ASSUME NEW u \in Users, DisconnectClear(u) PROVE OwnerInv'
    BY <1>24 DEF DisconnectClear, Goto
<1>25. ASSUME NEW u \in Users, DisconnectDrop(u) PROVE OwnerInv'
    BY <1>25 DEF DisconnectDrop, Goto, Left
<1>26. ASSUME NEW u \in Users, Destroy(u) PROVE OwnerInv'
    BY <1>26 DEF Destroy, Goto, Doubtful
<1>27. ASSUME NEW u \in Users, DestroyThread(u) PROVE OwnerInv'
    BY <1>27 DEF DestroyThread
<1>28. ASSUME NEW m \in Messages, SendTest(m) PROVE OwnerInv'
    BY <1>28 DEF SendTest
<1>29. ASSUME NEW m \in Messages, SendChoose(m) PROVE OwnerInv'
    BY <1>29 DEF SendChoose
<1>30. ASSUME NEW m \in Messages, SendPush(m) PROVE OwnerInv'
    BY <1>30 DEF SendPush
<1>31. ASSUME NEW m \in Messages, SendWrite(m) PROVE OwnerInv'
    BY <1>31 DEF SendWrite
<1>32. CASE UNCHANGED vars
    BY <1>32 DEF vars
<1>33. CASE PeerAnswersClose
    BY <1>33 DEF PeerAnswersClose
<1>34. ASSUME NEW u \in Users, ConnectSpawn(u) PROVE OwnerInv'
    BY <1>34 DEF ConnectSpawn, Goto
<1>35. ASSUME NEW u \in Users, ConnectLaunch(u) PROVE OwnerInv'
    BY <1>35 DEF ConnectLaunch, Goto
<1>36. ASSUME NEW u \in Users, DisconnectClosed(u) PROVE OwnerInv'
    BY <1>36 DEF DisconnectClosed, Goto
<1> QED
    BY <1>1, <1>2, <1>3, <1>4, <1>5, <1>6, <1>7, <1>8, <1>9, <1>10, <1>11,
       <1>12, <1>13, <1>14, <1>15, <1>16, <1>17, <1>18, <1>19, <1>20, <1>21,
       <1>22, <1>23, <1>24, <1>25, <1>26, <1>27, <1>28, <1>29, <1>30, <1>31,
       <1>32, <1>33, <1>34, <1>35, <1>36
    DEF Next, IoStep, Network, Connecting, Disconnecting, Over

\* With one owner, and until something fails, the destructor finds no thread to
\* join: the program is not terminated, whenever the connection is destroyed
\* and however many threads send.
THEOREM CleanDestroy == ASSUME OneOwner PROVE Spec => []DestroyIsClean
<1>1. Init => OwnerInv
    BY DEF Init, OwnerInv, OwnerMay, Down
<1>2. OwnerInv => DestroyIsClean
    BY DEF OwnerInv, DestroyIsClean
<1>3. TypeOK /\ FlagsAgree /\ OwnerInv /\ [Next]_vars => OwnerInv'
    BY OwnerStep, OneOwner
<1> QED
    BY <1>1, <1>2, <1>3, SocketTypes, FlagsAlwaysAgree, PTL DEF Spec, SafeSpec

=============================================================================
