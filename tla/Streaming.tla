----------------------------- MODULE Streaming ------------------------------
(***************************************************************************)
(* StreamingService and its ThreadManager (src/streaming.cpp): sessions,   *)
(* subscriptions, connect() and disconnect(), the heartbeat thread, and    *)
(* the dispatch of messages on the I/O thread of the connection.           *)
(*                                                                         *)
(* Three threads: the user of the service, the heartbeat and the I/O       *)
(* thread.  The WebSocketConnection is the one of module WebSocket, seen   *)
(* from outside: it is "opening" while its thread shakes hands, "up" while *)
(* connected, and "lost" once it is neither and its thread has ended       *)
(* without being joined; destroying it then terminates the program.        *)
(***************************************************************************)
EXTENDS Naturals, FiniteSets

CONSTANTS Symbols, Exchanges,
          QuoteKinds,    \* quote, summary and timesale, or some of them
          MaxMessages,   \* bound on messagesReceived
          MaxCalls       \* bound on the calls of the user

ASSUME StreamingAssumption ==
    /\ QuoteKinds \subseteq {"quote", "summary", "timesale"}
    /\ MaxMessages \in Nat /\ MaxCalls \in Nat

MarketKinds == {"trade"} \cup QuoteKinds
Kinds == MarketKinds \cup {"account"}
NoExchange == "none"   \* the message has no field "exch"
Failures == 3          \* consecutive failures that end the heartbeat

VARIABLES upc,        \* where the user's call is
          sub,        \* the kind being subscribed, "none" for connect() itself
          calls,      \* calls made so far
          session,    \* currentSession is active
          connected,  \* the atomic flag of the service
          conn,       \* the connection object
          requested,  \* a subscription was sent on this connection (history)
          handlers,   \* market kinds whose handler is set
          filters,    \* symbolFilter and exchangeFilter
          shouldStop, \* of the ThreadManager
          hb,         \* where the heartbeat thread is
          hbErrors,   \* its errorCount
          io,         \* the I/O thread: "idle", "got" a message, or the event
                      \* whose handler it is about to call
          stats,      \* messagesReceived, messagesProcessed, errors
          overlapped, \* the last resetStatistics() and a message overlapped (history)
          fault       \* a handshake failed or the peer closed (history)

userVars == <<upc, sub, calls, session, handlers, filters>>
beatVars == <<hb, hbErrors>>
ioVars == <<io, stats, overlapped>>
vars == <<userVars, connected, conn, requested, shouldStop, beatVars, ioVars, fault>>

\* What the filters read of a message; a message that they do not name.
Events == [symbol : Symbols \cup {"other"}, exch : Exchanges \cup {"other", NoExchange}]
ZeroStats == [received |-> 0, processed |-> 0, errors |-> 0]

Init ==
    /\ upc = "idle" /\ sub = "none" /\ calls = 0
    /\ session = FALSE /\ connected = FALSE
    /\ conn = "none" /\ requested = FALSE
    /\ handlers = {}
    /\ filters = [symbol |-> {}, exch |-> {}]
    /\ shouldStop = FALSE
    /\ hb = "none" /\ hbErrors = 0
    /\ io = [step |-> "idle"]
    /\ stats = ZeroStats /\ overlapped = FALSE
    /\ fault = FALSE

\* A call of the user starts.
Call ==
    /\ upc = "idle"
    /\ calls < MaxCalls
    /\ calls' = calls + 1

\* connect() returns at once when connected or without an active session.
ConnectOr(next) == IF connected \/ ~session THEN next ELSE "create"

-----------------------------------------------------------------------------
(* Sessions, subscriptions, filters.                                       *)

\* POST /markets/events/session: the answer may fail, or lack the url or the
\* identifier; then nothing is stored, or an inactive session is.
createMarketSession ==
    /\ Call
    /\ session' \in {session, TRUE, FALSE}
    /\ UNCHANGED <<upc, sub, connected, conn, requested, handlers, filters,
                   shouldStop, beatVars, ioVars, fault>>

createAccountSession == createMarketSession

\* A new market session replaces the session when it could be created.
renewSession == createMarketSession

\* A subscription: the handler is stored before anything is sent.  The session the
\* user passes is tested, not the current one; with an inactive one the call returns
\* at once, as subscribeToTrades() does with a null handler.  The handlers of order
\* and position events are never called and the names in subscribedSymbols never
\* read: both are left out.
Subscribe(k, handler) ==
    /\ Call
    /\ (k = "trade") => handler
    /\ handlers' = IF handler THEN handlers \cup ({k} \cap MarketKinds) ELSE handlers \ {k}
    /\ sub' = k
    /\ upc' = ConnectOr("send")
    /\ UNCHANGED <<session, connected, conn, requested, filters, shouldStop, beatVars,
                   ioVars, fault>>

subscribeToTrades == Subscribe("trade", TRUE)

\* subscribeToQuotes(), subscribeToSummary() and subscribeToTimesales().
subscribeToMarket == \E k \in QuoteKinds, h \in BOOLEAN : Subscribe(k, h)

\* subscribeToOrderEvents() and subscribeToPositionEvents().
subscribeToAccount == \E h \in BOOLEAN : Subscribe("account", h)

\* The request is written when the connection is up; else send() throws and
\* the call returns false.  Trades test the flag as well.
SendRequest ==
    /\ upc = "send"
    /\ upc' = "idle" /\ sub' = "none"
    /\ requested' \in IF conn = "up" /\ (sub = "trade" => connected)
                      THEN {requested, TRUE} ELSE {requested}
    /\ UNCHANGED <<calls, session, connected, conn, handlers, filters,
                   shouldStop, beatVars, ioVars, fault>>

\* A filter is written under subscriptionMutex, which the I/O thread does not
\* take: between the two steps it may read anything.
BeginFilter ==
    /\ Call
    /\ upc' = "filter"
    /\ UNCHANGED <<sub, session, connected, conn, requested, handlers, filters,
                   shouldStop, beatVars, ioVars, fault>>

EndFilter(f) ==
    /\ upc = "filter"
    /\ upc' = "idle"
    /\ filters' = f
    /\ UNCHANGED <<sub, calls, session, connected, conn, requested, handlers,
                   shouldStop, beatVars, io, stats, overlapped, fault>>

setSymbolFilter == \E S \in SUBSET Symbols : EndFilter([filters EXCEPT !.symbol = S])
setExchangeFilter == \E S \in SUBSET Exchanges : EndFilter([filters EXCEPT !.exch = S])
clearFilters == EndFilter([symbol |-> {}, exch |-> {}])

\* StreamStatistics::reset() stores the counters one after the other, without
\* a lock, while the I/O thread counts on: messagesReceived, then
\* messagesProcessed, then errors.
resetStatistics ==
    /\ Call
    /\ upc' = "resetProcessed"
    /\ stats' = [stats EXCEPT !.received = 0]
    /\ overlapped' = (io.step # "idle")
    /\ UNCHANGED <<sub, session, connected, conn, requested, handlers,
                   filters, shouldStop, beatVars, io, fault>>

ResetProcessed ==
    /\ upc = "resetProcessed"
    /\ upc' = "resetErrors"
    /\ stats' = [stats EXCEPT !.processed = 0]
    /\ UNCHANGED <<sub, calls, session, connected, conn, requested, handlers,
                   filters, shouldStop, beatVars, io, overlapped, fault>>

ResetErrors ==
    /\ upc = "resetErrors"
    /\ upc' = "idle"
    /\ stats' = [stats EXCEPT !.errors = 0]
    /\ UNCHANGED <<sub, calls, session, connected, conn, requested, handlers,
                   filters, shouldStop, beatVars, io, overlapped, fault>>

Resetting == upc \in {"resetProcessed", "resetErrors"}

-----------------------------------------------------------------------------
(* connect(), disconnect(), reconnect() and the ThreadManager.             *)

connect ==
    /\ Call
    /\ upc' = ConnectOr("idle")
    /\ UNCHANGED <<sub, session, connected, conn, requested, handlers, filters,
                   shouldStop, beatVars, ioVars, fault>>

\* What destroying the connection object does: one that is up is closed and
\* its thread joined, which waits for the message being handled.
Destroyable == conn = "up" => io.step = "idle"
Orphaned == conn \in {"opening", "lost"}

\* A new connection object replaces the old one and starts its thread.
CreateConnection ==
    /\ upc = "create"
    /\ Destroyable
    /\ IF Orphaned THEN upc' = "terminated" /\ conn' = "none"
                   ELSE upc' = "open" /\ conn' = "opening"
    /\ requested' = FALSE
    /\ UNCHANGED <<sub, calls, session, connected, handlers, filters,
                   shouldStop, beatVars, ioVars, fault>>

AfterConnect == IF sub = "none" THEN "idle" ELSE "send"

\* Mutant: shouldStop is not tested.
addThreadAlways == hb' = "sleep" /\ hbErrors' = 0

\* ThreadManager::addThread(): refused for good once stop() was called, and
\* the creation of the thread may fail.
addThread ==
    \/ ~shouldStop /\ hb' = "sleep" /\ hbErrors' = 0
    \/ UNCHANGED beatVars

\* The handshake is done; the flag is set and the heartbeat started.
Connected ==
    /\ upc = "open"
    /\ conn = "up"
    /\ connected' = TRUE
    /\ addThread
    /\ upc' = AfterConnect
    /\ UNCHANGED <<sub, calls, session, conn, requested, handlers, filters,
                   shouldStop, ioVars, fault>>

\* connect() of the connection throws: the thread failed, or it is still
\* shaking hands after 30 s.  The object stays.
ConnectFails ==
    /\ upc = "open"
    /\ conn # "up"
    /\ connected' = FALSE
    /\ fault' = TRUE
    /\ upc' = AfterConnect
    /\ UNCHANGED <<sub, calls, session, conn, requested, handlers, filters,
                   shouldStop, beatVars, ioVars>>

\* sub tells reconnect(), which connects again, from disconnect().
BeginDisconnect(then) ==
    /\ Call
    /\ connected' = FALSE
    /\ sub' = then
    /\ upc' = "stop"
    /\ UNCHANGED <<session, conn, requested, handlers, filters, shouldStop,
                   beatVars, ioVars, fault>>

disconnect == BeginDisconnect("none")
reconnect == BeginDisconnect("reconnect")

\* Mutant: stop() does not join.
StopWithoutJoin ==
    /\ upc = "stop"
    /\ shouldStop' = TRUE
    /\ upc' = "close"
    /\ UNCHANGED <<sub, calls, session, connected, conn, requested, handlers, filters,
                   beatVars, ioVars, fault>>

\* ThreadManager::stop(): only the first call joins.
Stop ==
    /\ upc = "stop"
    /\ shouldStop' = TRUE
    /\ upc' = IF shouldStop THEN "close" ELSE "join"
    /\ UNCHANGED <<sub, calls, session, connected, conn, requested, handlers,
                   filters, beatVars, ioVars, fault>>

Join ==
    /\ upc = "join"
    /\ hb \in {"none", "ended"}
    /\ upc' = "close"
    /\ UNCHANGED <<sub, calls, session, connected, conn, requested, handlers,
                   filters, shouldStop, beatVars, ioVars, fault>>

Close ==
    /\ upc = "close"
    /\ Destroyable
    /\ conn' = "none" /\ requested' = FALSE
    /\ sub' = "none"
    /\ upc' = IF Orphaned THEN "terminated"
              ELSE IF sub = "reconnect" THEN ConnectOr("idle") ELSE "idle"
    /\ UNCHANGED <<calls, session, connected, handlers, filters, shouldStop,
                   beatVars, ioVars, fault>>

-----------------------------------------------------------------------------
(* The heartbeat thread.                                                   *)

\* Mutant: the flags are not tested.
GoesOnAlways == TRUE

\* The loop's condition, tested before and after the sleep.
GoesOn == connected /\ ~shouldStop

Loop == IF GoesOn THEN "sleep" ELSE "ended"

\* The interval is over; the conditions are tested again.
Wake ==
    /\ upc # "terminated"
    /\ hb = "sleep"
    /\ hb' = IF GoesOn /\ conn # "none" THEN "beat" ELSE "ended"
    /\ UNCHANGED <<userVars, connected, conn, requested, shouldStop, hbErrors, ioVars, fault>>

Beat ==
    /\ upc # "terminated"
    /\ hb = "beat"
    /\ conn = "up"
    /\ hbErrors' = 0
    /\ hb' = Loop
    /\ UNCHANGED <<userVars, connected, conn, requested, shouldStop, ioVars, fault>>

\* Mutants: the count of failures is not limited; failures are not counted.
BeatFailsOn ==
    /\ upc # "terminated"
    /\ hb = "beat"
    /\ hbErrors <= Failures
    /\ hbErrors' = hbErrors + 1
    /\ hb' = Loop
    /\ UNCHANGED <<userVars, connected, conn, requested, shouldStop, ioVars, fault>>

BeatForgives ==
    /\ upc # "terminated"
    /\ hb = "beat"
    /\ hb' = Loop
    /\ UNCHANGED <<userVars, connected, conn, requested, shouldStop, hbErrors, ioVars,
                   fault>>

\* The write fails: a third failure in a row, or five minutes without a
\* success, ends the thread.
BeatFails ==
    /\ upc # "terminated"
    /\ hb = "beat"
    /\ hbErrors' = hbErrors + 1
    /\ hb' \in IF hbErrors' >= Failures THEN {"ended"} ELSE {Loop, "ended"}
    /\ UNCHANGED <<userVars, connected, conn, requested, shouldStop, ioVars, fault>>

-----------------------------------------------------------------------------
(* The I/O thread and the peer.                                            *)

HandshakeSucceeds ==
    /\ conn = "opening"
    /\ upc # "terminated"
    /\ conn' = "up"
    /\ UNCHANGED <<userVars, connected, requested, shouldStop, beatVars, ioVars, fault>>

HandshakeFails ==
    /\ conn = "opening"
    /\ upc # "terminated"
    /\ conn' = "lost"
    /\ fault' = TRUE
    /\ UNCHANGED <<userVars, connected, requested, shouldStop, beatVars, ioVars>>

PeerCloses ==
    /\ conn = "up"
    /\ io.step = "idle"
    /\ conn' = "lost"
    /\ fault' = TRUE
    /\ UNCHANGED <<userVars, connected, requested, shouldStop, beatVars, ioVars>>

\* handleMessage() starts.  A connection that is being closed reads no more.
Receive ==
    /\ conn = "up"
    /\ io.step = "idle"
    /\ upc \notin {"create", "close"}
    /\ stats.received < MaxMessages
    /\ io' = [step |-> "got"]
    /\ stats' = [stats EXCEPT !.received = @ + 1]
    /\ overlapped' = (overlapped \/ Resetting)
    /\ UNCHANGED <<userVars, connected, conn, requested, shouldStop, beatVars, fault>>

\* Does an event pass both filters?
Passes(e) ==
    /\ filters.symbol # {} => e.symbol \in filters.symbol
    /\ (filters.exch # {} /\ e.exch # NoExchange) => e.exch \in filters.exch

\* Mutant: only a message that reaches a handler is counted as processed.
DoneHandled(outcome) ==
    /\ io' = [step |-> "idle"]
    /\ stats' = IF outcome = "error" THEN [stats EXCEPT !.errors = @ + 1]
                ELSE IF io.step = "call" THEN [stats EXCEPT !.processed = @ + 1] ELSE stats
    /\ UNCHANGED <<userVars, connected, conn, requested, shouldStop, beatVars, overlapped,
                   fault>>

\* The message is done: a malformed one is an error, any other is processed,
\* also one that was filtered, had no handler, or whose handler threw.
Done(outcome) ==
    /\ io' = [step |-> "idle"]
    /\ stats' = IF outcome = "error" THEN [stats EXCEPT !.errors = @ + 1]
                                     ELSE [stats EXCEPT !.processed = @ + 1]
    /\ UNCHANGED <<userVars, connected, conn, requested, shouldStop, beatVars, overlapped,
                   fault>>

\* Parsing and processEvent() up to the call of the handler.  The filters are
\* read without the lock.  A message without a type, of a kind without a handler
\* and every order or position event has no branch.
Check(k, e) ==
    /\ io.step = "got"
    /\ \/ k = "malformed" /\ Done("error")
       \/ /\ k # "malformed"
          /\ upc = "filter" \/ ~Passes(e) \/ k \notin handlers
          /\ Done("processed")
       \/ /\ k \in handlers
          /\ upc = "filter" \/ Passes(e)
          /\ io' = [step |-> "call", event |-> e]
          /\ UNCHANGED <<userVars, connected, conn, requested, shouldStop, beatVars,
                         stats, overlapped, fault>>

\* The handler is called.
CallHandler ==
    /\ io.step = "call"
    /\ Done("processed")

-----------------------------------------------------------------------------

User ==
    \/ createMarketSession \/ createAccountSession \/ renewSession
    \/ subscribeToTrades \/ subscribeToMarket \/ subscribeToAccount
    \/ BeginFilter \/ resetStatistics
    \/ connect \/ disconnect \/ reconnect

\* The rest of a call of the user.
Continue ==
    \/ SendRequest \/ setSymbolFilter \/ setExchangeFilter \/ clearFilters
    \/ ResetProcessed \/ ResetErrors
    \/ CreateConnection \/ Connected \/ ConnectFails \/ Stop \/ Join \/ Close

Heartbeat == Wake \/ Beat \/ BeatFails

Handle ==
    \/ \E k \in Kinds \cup {"untyped", "malformed"}, e \in Events : Check(k, e)
    \/ CallHandler

Peer == HandshakeSucceeds \/ HandshakeFails \/ PeerCloses \/ Receive

\* No call is left to be made, or the program has ended.
Over ==
    /\ upc = "terminated" \/ (upc = "idle" /\ calls = MaxCalls)
    /\ UNCHANGED vars

Next == User \/ Continue \/ Heartbeat \/ Handle \/ Peer \/ Over

\* Threads run; the user and the peer need not do anything, but connect() of
\* the connection ends after 30 s.
Spec == Init /\ [][Next]_vars /\ WF_vars(Continue) /\ WF_vars(Heartbeat) /\ WF_vars(Handle)

-----------------------------------------------------------------------------
(* Properties.                                                             *)

\* Type invariant of the service, its heartbeat and its I/O thread.
StreamingTypeOK ==
    /\ upc \in {"idle", "send", "filter", "resetProcessed", "resetErrors", "create",
                "open", "stop", "join", "close", "terminated"}
    /\ sub \in Kinds \cup {"none", "reconnect"}
    /\ calls \in 0..MaxCalls
    /\ session \in BOOLEAN /\ connected \in BOOLEAN /\ shouldStop \in BOOLEAN
    /\ conn \in {"none", "opening", "up", "lost"}
    /\ requested \in BOOLEAN /\ handlers \subseteq MarketKinds
    /\ filters \in [symbol : SUBSET Symbols, exch : SUBSET Exchanges]
    /\ hb \in {"none", "sleep", "beat", "ended"}
    /\ hbErrors \in 0..Failures
    /\ io \in [step : {"idle", "got"}] \cup [step : {"call"}, event : Events]
    /\ stats \in [received : Nat, processed : Nat, errors : Nat]
    /\ overlapped \in BOOLEAN /\ fault \in BOOLEAN

\* Once the connection is gone no thread of the service is left: neither a
\* heartbeat that would use it, which was joined before the reset, nor a message
\* being handled.  As long as no handshake failed and the peer did not close,
\* destroying a connection does not terminate the program.
QuietAfterDisconnect ==
    conn = "none" =>
        \/ hb \in {"none", "ended"} /\ io.step = "idle" /\ upc # "terminated"
        \/ upc = "terminated" /\ fault

\* stop() is final: once it was called the heartbeat thread is never started
\* again, however often the service connects, so at most one ever runs.
HeartbeatStartsOnce ==
    [][(hb' = "sleep" /\ hb \in {"none", "ended"}) => hb = "none" /\ ~shouldStop]_vars

\* Every received message is processed, an error, or in handleMessage(), unless
\* the last resetStatistics() overlapped one: its stores are three, and a message
\* counted before one of them and after another is missed for good.
EveryMessageAccounted ==
    ~overlapped /\ ~Resetting => stats.received =
        stats.processed + stats.errors + (IF io.step = "idle" THEN 0 ELSE 1)

\* disconnect() and reconnect() come back: the heartbeat sees the flags within
\* one interval.  That closing the connection comes back is DisconnectReturns of
\* module WebSocket, with its assumption about the peer.
StopReturns == upc \in {"stop", "join", "close"} ~> upc \notin {"stop", "join", "close"}

\* A heartbeat on a connection that the peer closed ends by itself.
DeadConnectionNoticed ==
    (conn = "lost" /\ hb = "sleep") ~> (hb = "ended" \/ upc = "terminated")

=============================================================================
