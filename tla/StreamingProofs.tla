--------------------------- MODULE StreamingProofs --------------------------
(***************************************************************************)
(* Proofs about the streaming service for any symbols, exchanges and kinds *)
(* of events, any number of calls and messages, and failures of the        *)
(* connection at any moment.                                               *)
(***************************************************************************)
EXTENDS Streaming, TLAPS

\* A heartbeat that still runs has failures left.
FailuresLeft == hb \in {"sleep", "beat"} => hbErrors < Failures

\* Only a connection that is up has a message being handled.
HandlesOnlyUp == io.step # "idle" => conn = "up"

\* Once stop() has been called, the heartbeat is joined before stop() returns,
\* and only then is the connection closed.
StopJoins ==
    /\ shouldStop => upc = "join" \/ hb \in {"none", "ended"}
    /\ upc \in {"join", "close"} => shouldStop

\* Before the first stop() the flag is clear only while no heartbeat was ever
\* started: a service is connected again only through disconnect(), hence stop().
DownMeansUnstarted ==
    /\ ~shouldStop /\ ~connected /\ upc # "stop" => hb = "none"
    /\ upc \in {"create", "open"} => ~connected

\* A thread of the connection that nobody will join is the result of a fault.
OrphanedByFault == conn = "lost" \/ (conn = "opening" /\ upc # "open") => fault

ThreadsInv ==
    /\ FailuresLeft /\ HandlesOnlyUp /\ StopJoins /\ DownMeansUnstarted
    /\ OrphanedByFault /\ QuietAfterDisconnect

\* A reset that no message overlapped has the counters behind it at zero.
ResetInOrder ==
    Resetting /\ ~overlapped =>
        /\ io.step = "idle" /\ stats.received = 0
        /\ upc = "resetErrors" => stats.processed = 0

StreamingInv == StreamingTypeOK /\ ThreadsInv /\ EveryMessageAccounted /\ ResetInOrder

Filters == [symbol : SUBSET Symbols, exch : SUBSET Exchanges]

-----------------------------------------------------------------------------
\* The steps of the service, one by one: the calls that differ only in a kind or
\* a filter are instances of one action.
LEMMA StreamingSteps ==
    ASSUME StreamingTypeOK, [Next]_vars
    PROVE  \/ createMarketSession
           \/ \E k \in Kinds, h \in BOOLEAN : Subscribe(k, h)
           \/ SendRequest \/ BeginFilter
           \/ \E f \in Filters : EndFilter(f)
           \/ resetStatistics \/ ResetProcessed \/ ResetErrors
           \/ connect \/ CreateConnection \/ Connected \/ ConnectFails
           \/ \E then \in {"none", "reconnect"} : BeginDisconnect(then)
           \/ Stop \/ Join \/ Close
           \/ Wake \/ Beat \/ BeatFails
           \/ HandshakeSucceeds \/ HandshakeFails \/ PeerCloses \/ Receive
           \/ \E k \in Kinds \cup {"untyped", "malformed"}, e \in Events : Check(k, e)
           \/ CallHandler
           \/ UNCHANGED vars
<1>1. User => \/ createMarketSession
              \/ \E k \in Kinds, h \in BOOLEAN : Subscribe(k, h)
              \/ BeginFilter \/ resetStatistics \/ connect
              \/ \E then \in {"none", "reconnect"} : BeginDisconnect(then)
  <2>1. QuoteKinds \subseteq Kinds /\ "trade" \in Kinds /\ "account" \in Kinds
    BY DEF Kinds, MarketKinds
  <2> QED
    BY <2>1, Zenon DEF User, createAccountSession, renewSession, subscribeToTrades,
                subscribeToMarket, subscribeToAccount, disconnect, reconnect
<1>2. setSymbolFilter \/ setExchangeFilter \/ clearFilters
         => \E f \in Filters : EndFilter(f)
  <2>1. ASSUME NEW S \in SUBSET Symbols PROVE [filters EXCEPT !.symbol = S] \in Filters
    BY DEF StreamingTypeOK, Filters
  <2>2. ASSUME NEW S \in SUBSET Exchanges PROVE [filters EXCEPT !.exch = S] \in Filters
    BY DEF StreamingTypeOK, Filters
  <2>3. [symbol |-> {}, exch |-> {}] \in Filters
    BY DEF Filters
  <2> QED
    BY <2>1, <2>2, <2>3, Zenon DEF setSymbolFilter, setExchangeFilter, clearFilters
<1> QED
    BY <1>1, <1>2, Zenon DEF Next, Continue, Heartbeat, Handle, Peer, Over

\* Every step keeps the variables within their types; the count of the
\* heartbeat's failures needs that a heartbeat with none left has ended.
LEMMA StreamingTypeStep ==
    StreamingTypeOK /\ FailuresLeft /\ [Next]_vars => StreamingTypeOK'
<1> SUFFICES ASSUME StreamingTypeOK, FailuresLeft, [Next]_vars PROVE StreamingTypeOK'
    OBVIOUS
<1> USE StreamingAssumption DEF StreamingTypeOK, userVars, beatVars, ioVars
<1>1. CASE createMarketSession
  <2>1. session' \in BOOLEAN
    BY <1>1, Zenon DEF createMarketSession
  <2>2. calls' \in 0..MaxCalls
    BY <1>1 DEF createMarketSession, Call
  <2> QED
    BY <1>1, <2>1, <2>2 DEF createMarketSession
<1>2. ASSUME NEW k \in Kinds, NEW h \in BOOLEAN, Subscribe(k, h) PROVE StreamingTypeOK'
    BY <1>2 DEF Subscribe, Call, ConnectOr
<1>3. CASE SendRequest
    BY <1>3, ZenonT(60) DEF SendRequest
<1>4. CASE BeginFilter
    BY <1>4 DEF BeginFilter, Call
<1>5. ASSUME NEW f \in Filters, EndFilter(f) PROVE StreamingTypeOK'
    BY <1>5 DEF EndFilter, Filters
<1>6. CASE resetStatistics
    BY <1>6 DEF resetStatistics, Call
<1>25. CASE ResetProcessed \/ ResetErrors
    BY <1>25 DEF ResetProcessed, ResetErrors
<1>7. CASE connect
    BY <1>7 DEF connect, Call, ConnectOr
<1>8. CASE CreateConnection
    BY <1>8, ZenonT(60) DEF CreateConnection, Orphaned, Destroyable
<1>9. CASE Connected
  <2>1. hb' \in {"none", "sleep", "beat", "ended"} /\ hbErrors' \in 0..Failures
    BY <1>9 DEF Connected, addThread, Failures
  <2> QED
    BY <1>9, <2>1 DEF Connected, AfterConnect
<1>10. CASE ConnectFails
    BY <1>10, ZenonT(60) DEF ConnectFails, AfterConnect
<1>11. ASSUME NEW then \in {"none", "reconnect"}, BeginDisconnect(then) PROVE StreamingTypeOK'
  <2>1. calls' \in 0..MaxCalls
    BY <1>11 DEF BeginDisconnect, Call
  <2> QED
    BY <1>11, <2>1, ZenonT(60) DEF BeginDisconnect
<1>12. CASE Stop
    BY <1>12 DEF Stop
<1>13. CASE Join
    BY <1>13 DEF Join
<1>14. CASE Close
    BY <1>14 DEF Close, ConnectOr, Orphaned, Destroyable
<1>15. CASE Wake
    BY <1>15 DEF Wake, GoesOn
<1>16. CASE Beat
  <2>1. hb' \in {"sleep", "ended"} /\ hbErrors' \in 0..Failures
    BY <1>16 DEF Beat, Loop, Failures
  <2> QED
    BY <1>16, <2>1 DEF Beat
<1>17. CASE BeatFails
  <2>1. hbErrors < Failures
    BY <1>17 DEF BeatFails, FailuresLeft
  <2>2. hbErrors' \in 0..Failures
    BY <1>17, <2>1 DEF BeatFails, Failures
  <2>3. hb' \in {"sleep", "ended"}
    BY <1>17 DEF BeatFails, Loop
  <2> QED
    BY <1>17, <2>2, <2>3 DEF BeatFails
<1>18. CASE HandshakeSucceeds
    BY <1>18 DEF HandshakeSucceeds
<1>19. CASE HandshakeFails
    BY <1>19 DEF HandshakeFails
<1>20. CASE PeerCloses
    BY <1>20 DEF PeerCloses
<1>21. CASE Receive
    BY <1>21 DEF Receive
<1>22. ASSUME NEW k \in Kinds \cup {"untyped", "malformed"}, NEW e \in Events, Check(k, e)
      PROVE  StreamingTypeOK'
    BY <1>22 DEF Check, Done
<1>23. CASE CallHandler
    BY <1>23 DEF CallHandler, Done
<1>24. CASE UNCHANGED vars
    BY <1>24 DEF vars
<1> QED
    BY <1>1, <1>2, <1>3, <1>4, <1>5, <1>6, <1>7, <1>8, <1>9, <1>10, <1>11, <1>12,
       <1>13, <1>14, <1>15, <1>16, <1>17, <1>18, <1>19, <1>20, <1>21, <1>22, <1>23,
       <1>24, <1>25,
       StreamingSteps

\* Every step keeps the threads in order: the heartbeat, the I/O thread and the
\* user agree on who still uses the connection.
LEMMA ThreadsStep == StreamingTypeOK /\ ThreadsInv /\ [Next]_vars => ThreadsInv'
<1> SUFFICES ASSUME StreamingTypeOK, ThreadsInv, [Next]_vars PROVE ThreadsInv'
    OBVIOUS
<1> USE DEF ThreadsInv, FailuresLeft, HandlesOnlyUp, StopJoins, DownMeansUnstarted,
            OrphanedByFault, QuietAfterDisconnect, StreamingTypeOK, userVars, beatVars, ioVars
<1>1. CASE createMarketSession
    BY <1>1 DEF createMarketSession, Call
<1>2. ASSUME NEW k \in Kinds, NEW h \in BOOLEAN, Subscribe(k, h) PROVE ThreadsInv'
    BY <1>2 DEF Subscribe, Call, ConnectOr
<1>3. CASE SendRequest
    BY <1>3 DEF SendRequest
<1>4. CASE BeginFilter
    BY <1>4 DEF BeginFilter, Call
<1>5. ASSUME NEW f \in Filters, EndFilter(f) PROVE ThreadsInv'
    BY <1>5 DEF EndFilter
<1>6. CASE resetStatistics
    BY <1>6 DEF resetStatistics, Call
<1>25. CASE ResetProcessed \/ ResetErrors
    BY <1>25 DEF ResetProcessed, ResetErrors
<1>7. CASE connect
    BY <1>7 DEF connect, Call, ConnectOr
<1>8. CASE CreateConnection
    BY <1>8 DEF CreateConnection, Orphaned, Destroyable
<1>9. CASE Connected
  <2>1. hb' = "sleep" => hbErrors' < Failures
    BY <1>9 DEF Connected, addThread, Failures
  <2> QED
    BY <1>9, <2>1 DEF Connected, addThread, AfterConnect
<1>10. CASE ConnectFails
    BY <1>10 DEF ConnectFails, AfterConnect
<1>11. ASSUME NEW then \in {"none", "reconnect"}, BeginDisconnect(then) PROVE ThreadsInv'
    BY <1>11 DEF BeginDisconnect, Call
<1>12. CASE Stop
    BY <1>12 DEF Stop
<1>13. CASE Join
    BY <1>13 DEF Join
<1>14. CASE Close
    BY <1>14 DEF Close, ConnectOr, Orphaned, Destroyable
<1>15. CASE Wake
    BY <1>15 DEF Wake, GoesOn
<1>16. CASE Beat
    BY <1>16 DEF Beat, Loop, GoesOn, Failures
<1>17. CASE BeatFails
  <2>1. hb' \in {"sleep", "ended"} /\ (hb' = "sleep" => hbErrors' < Failures)
    BY <1>17 DEF BeatFails, Loop, Failures
  <2>2. hb' = "sleep" => GoesOn
    BY <1>17 DEF BeatFails, Loop
  <2> QED
    BY <1>17, <2>1, <2>2 DEF BeatFails, GoesOn
<1>18. CASE HandshakeSucceeds
    BY <1>18 DEF HandshakeSucceeds
<1>19. CASE HandshakeFails
    BY <1>19 DEF HandshakeFails
<1>20. CASE PeerCloses
    BY <1>20 DEF PeerCloses
<1>21. CASE Receive
    BY <1>21 DEF Receive
<1>22. ASSUME NEW k \in Kinds \cup {"untyped", "malformed"}, NEW e \in Events, Check(k, e)
      PROVE  ThreadsInv'
    BY <1>22 DEF Check, Done
<1>23. CASE CallHandler
    BY <1>23 DEF CallHandler, Done
<1>24. CASE UNCHANGED vars
    BY <1>24 DEF vars
<1> QED
    BY <1>1, <1>2, <1>3, <1>4, <1>5, <1>6, <1>7, <1>8, <1>9, <1>10, <1>11, <1>12,
       <1>13, <1>14, <1>15, <1>16, <1>17, <1>18, <1>19, <1>20, <1>21, <1>22, <1>23,
       <1>24, <1>25,
       StreamingSteps

\* Every step keeps the counters of messages balanced.
LEMMA AccountedStep ==
    StreamingTypeOK /\ EveryMessageAccounted /\ ResetInOrder /\ [Next]_vars
        => EveryMessageAccounted' /\ ResetInOrder'
<1> SUFFICES ASSUME StreamingTypeOK, EveryMessageAccounted, ResetInOrder, [Next]_vars
             PROVE  EveryMessageAccounted' /\ ResetInOrder'
    OBVIOUS
<1> USE DEF EveryMessageAccounted, ResetInOrder, Resetting, StreamingTypeOK, ioVars
<1>1. CASE resetStatistics
  <2>1. io' = io /\ (~overlapped' => io.step = "idle") /\ upc' = "resetProcessed"
    BY <1>1, Zenon DEF resetStatistics
  <2>2. stats'.received = 0
    BY <1>1 DEF resetStatistics
  <2> QED
    BY <2>1, <2>2
<1>10. CASE ResetProcessed
    BY <1>10 DEF ResetProcessed
<1>11. CASE ResetErrors
    BY <1>11 DEF ResetErrors
<1>2. CASE Receive
  <2>1. io.step = "idle" /\ io'.step = "got" /\ upc' = upc
    BY <1>2 DEF Receive, userVars
  <2>2. ~overlapped' => ~overlapped /\ ~Resetting
    BY <1>2, Zenon DEF Receive
  <2>3. /\ stats'.received = stats.received + 1
        /\ stats'.processed = stats.processed /\ stats'.errors = stats.errors
    BY <1>2 DEF Receive
  <2> QED
    BY <2>1, <2>2, <2>3
<1>3. ASSUME io.step # "idle", UNCHANGED <<upc, overlapped>>,
             \/ io'.step = "call" /\ stats' = stats
             \/ io'.step = "idle" /\ stats' = [stats EXCEPT !.errors = @ + 1]
             \/ io'.step = "idle" /\ stats' = [stats EXCEPT !.processed = @ + 1]
      PROVE  EveryMessageAccounted' /\ ResetInOrder'
  <2>1. /\ io'.step = "call" => UNCHANGED stats
        /\ io'.step # "call" => /\ io'.step = "idle" /\ stats'.received = stats.received
                                /\ stats'.processed + stats'.errors
                                      = stats.processed + stats.errors + 1
    BY <1>3
  <2>2. ~overlapped' => ~overlapped /\ ~Resetting /\ ~Resetting'
    BY <1>3
  <2>3. stats.received \in Nat /\ stats.processed \in Nat /\ stats.errors \in Nat
    BY DEF StreamingTypeOK
  <2>4. ResetInOrder'
    BY <2>2 DEF ResetInOrder
  <2>5. EveryMessageAccounted'
    BY <1>3, <2>1, <2>2, <2>3 DEF EveryMessageAccounted
  <2> QED
    BY <2>4, <2>5
<1>4. ASSUME NEW k \in Kinds \cup {"untyped", "malformed"}, NEW e \in Events,
             Check(k, e) \/ CallHandler
      PROVE  EveryMessageAccounted' /\ ResetInOrder'
  <2>1. io.step # "idle" /\ UNCHANGED <<upc, overlapped>>
    BY <1>4 DEF Check, CallHandler, Done, userVars
  <2>2. \/ io'.step = "call" /\ stats' = stats
        \/ io'.step = "idle" /\ stats' = [stats EXCEPT !.errors = @ + 1]
        \/ io'.step = "idle" /\ stats' = [stats EXCEPT !.processed = @ + 1]
    BY <1>4 DEF Check, CallHandler, Done
  <2> QED
    BY <1>3, <2>1, <2>2
<1> DEFINE Aside == /\ UNCHANGED <<io, stats, overlapped>>
                    /\ upc' = upc \/ (~Resetting /\ ~Resetting')
<1>5. ASSUME Aside PROVE EveryMessageAccounted' /\ ResetInOrder'
    BY <1>5
<1>6. ASSUME NEW f \in Filters, EndFilter(f) PROVE Aside
    BY <1>6 DEF EndFilter
<1>7. ASSUME NEW k \in Kinds, NEW h \in BOOLEAN, Subscribe(k, h) PROVE Aside
    BY <1>7 DEF Subscribe, Call, ConnectOr
<1>8. ASSUME NEW then \in {"none", "reconnect"}, BeginDisconnect(then) PROVE Aside
    BY <1>8 DEF BeginDisconnect, Call
<1>9. ASSUME \/ createMarketSession \/ SendRequest \/ BeginFilter \/ connect
             \/ CreateConnection \/ Connected \/ ConnectFails \/ Stop \/ Join \/ Close
      PROVE  Aside
    BY <1>9 DEF createMarketSession, SendRequest, BeginFilter, connect, CreateConnection,
       Connected, ConnectFails, Stop, Join, Close, Call, ConnectOr, AfterConnect
<1>12. ASSUME \/ Wake \/ Beat \/ BeatFails
              \/ HandshakeSucceeds \/ HandshakeFails \/ PeerCloses \/ UNCHANGED vars
       PROVE  Aside
    BY <1>12 DEF Wake, Beat, BeatFails, HandshakeSucceeds, HandshakeFails, PeerCloses,
       vars, userVars
<1>13. CASE CallHandler
  <2>1. io.step = "call" /\ io \in [step : {"call"}, event : Events]
    BY <1>13 DEF CallHandler
  <2> QED
    BY <1>4, <1>13, <2>1 DEF Kinds
<1> QED
    BY <1>1, <1>2, <1>4, <1>5, <1>6, <1>7, <1>8, <1>9, <1>10, <1>11, <1>12, <1>13,
       StreamingSteps

-----------------------------------------------------------------------------
\* A new service has no connection and no thread.
LEMMA StreamingInit == Init => StreamingInv
<1> SUFFICES ASSUME Init PROVE StreamingInv
    OBVIOUS
<1>1. StreamingTypeOK
  <2>1. /\ session \in BOOLEAN /\ connected \in BOOLEAN /\ shouldStop \in BOOLEAN
        /\ requested \in BOOLEAN /\ overlapped \in BOOLEAN /\ fault \in BOOLEAN
    BY Zenon DEF Init
  <2>2. calls \in 0..MaxCalls /\ hbErrors \in 0..Failures
    BY StreamingAssumption DEF Init, Failures
  <2>3. /\ stats \in [received : Nat, processed : Nat, errors : Nat]
        /\ filters \in [symbol : SUBSET Symbols, exch : SUBSET Exchanges]
        /\ handlers \subseteq MarketKinds
        /\ io \in [step : {"idle", "got"}]
    BY DEF Init, ZeroStats
  <2> QED
    BY <2>1, <2>2, <2>3 DEF Init, StreamingTypeOK
<1>2. ThreadsInv
    BY DEF Init, ThreadsInv, FailuresLeft, HandlesOnlyUp, StopJoins, DownMeansUnstarted,
           OrphanedByFault, QuietAfterDisconnect
<1>3. EveryMessageAccounted /\ ResetInOrder
    BY DEF Init, EveryMessageAccounted, ResetInOrder, Resetting, ZeroStats
<1> QED
    BY <1>1, <1>2, <1>3 DEF StreamingInv

\* The invariant of the service holds in every state.
THEOREM StreamingInvariant == Spec => []StreamingInv
<1>1. StreamingInv /\ [Next]_vars => StreamingInv'
  <2>1. ThreadsInv => FailuresLeft
    BY DEF ThreadsInv
  <2> QED
    BY <2>1, StreamingTypeStep, ThreadsStep, AccountedStep DEF StreamingInv
<1> QED
    BY StreamingInit, <1>1, PTL DEF Spec

\* The variables of the service keep their types: in particular the heartbeat
\* counts no more than three failures in a row.
THEOREM StreamingTypes == Spec => []StreamingTypeOK
<1>1. StreamingInv => StreamingTypeOK
    BY DEF StreamingInv
<1> QED
    BY <1>1, StreamingInvariant, PTL

\* When disconnect() has reset the connection neither the heartbeat nor a handler
\* is left that could use it, and the reset terminates the program only after
\* a fault, for any calls, messages and failures.
THEOREM DisconnectIsQuiet == Spec => []QuietAfterDisconnect
<1>1. StreamingInv => QuietAfterDisconnect
    BY DEF StreamingInv, ThreadsInv
<1> QED
    BY <1>1, StreamingInvariant, PTL

\* messagesReceived is what was processed, failed or is being handled, as long
\* as no message overlapped the stores of the last reset.
THEOREM MessagesAccounted == Spec => []EveryMessageAccounted
<1>1. StreamingInv => EveryMessageAccounted
    BY DEF StreamingInv
<1> QED
    BY <1>1, StreamingInvariant, PTL

\* No step starts a heartbeat after stop() was called or one has run before.
THEOREM OneHeartbeat == Spec => HeartbeatStartsOnce
<1> DEFINE Starts == (hb' = "sleep" /\ hb \in {"none", "ended"}) => hb = "none" /\ ~shouldStop
<1>1. StreamingInv /\ [Next]_vars => [Starts]_vars
  <2> SUFFICES ASSUME StreamingInv, [Next]_vars, hb' = "sleep", hb \in {"none", "ended"}
               PROVE  hb = "none" /\ ~shouldStop
    OBVIOUS
  <2>1. StreamingTypeOK /\ DownMeansUnstarted
    BY DEF StreamingInv, ThreadsInv
  <2>2. CASE Connected
    BY <2>1, <2>2 DEF Connected, addThread, beatVars, DownMeansUnstarted
  <2>3. CASE Wake \/ Beat \/ BeatFails
    BY <2>3 DEF Wake, Beat, BeatFails
  <2>4. ASSUME hb' = hb PROVE FALSE
    BY <2>4
  <2>5. ASSUME NEW k \in Kinds, NEW h \in BOOLEAN, Subscribe(k, h) PROVE FALSE
    BY <2>4, <2>5 DEF Subscribe, beatVars
  <2>6. ASSUME NEW f \in Filters, EndFilter(f) PROVE FALSE
    BY <2>4, <2>6 DEF EndFilter, beatVars
  <2>7. ASSUME NEW then \in {"none", "reconnect"}, BeginDisconnect(then) PROVE FALSE
    BY <2>4, <2>7 DEF BeginDisconnect, beatVars
  <2>8. ASSUME NEW k \in Kinds \cup {"untyped", "malformed"}, NEW e \in Events, Check(k, e)
        PROVE  FALSE
    BY <2>4, <2>8 DEF Check, Done, beatVars
  <2>9. ASSUME \/ createMarketSession \/ SendRequest \/ BeginFilter \/ resetStatistics
               \/ ResetProcessed \/ ResetErrors \/ connect \/ CreateConnection \/ ConnectFails \/ Stop \/ Join \/ Close
               \/ HandshakeSucceeds \/ HandshakeFails \/ PeerCloses \/ Receive
               \/ CallHandler \/ UNCHANGED vars
        PROVE  FALSE
    BY <2>4, <2>9 DEF createMarketSession, SendRequest, BeginFilter, resetStatistics, ResetProcessed,
       ResetErrors, connect, CreateConnection, ConnectFails, Stop, Join, Close, HandshakeSucceeds, HandshakeFails,
       PeerCloses, Receive, CallHandler, Done, vars, beatVars
  <2> QED
    BY <2>1, <2>2, <2>3, <2>5, <2>6, <2>7, <2>8, <2>9, StreamingSteps
<1>2. [][Starts]_vars => HeartbeatStartsOnce
    BY PTL DEF HeartbeatStartsOnce
<1> QED
    BY <1>1, <1>2, StreamingInvariant, PTL DEF Spec

=============================================================================
