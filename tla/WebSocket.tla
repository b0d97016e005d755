----------------------------- MODULE WebSocket ------------------------------
(***************************************************************************)
(* WebSocketImpl of src/common/websocket_client.cpp: the flags connected_, *)
(* connecting_ and shouldStop_, the I/O thread with its blocking connect,  *)
(* handshake and read loop, the queue of messages sent before the          *)
(* connection is up, and the threads that call connect(), disconnect(),    *)
(* the destructor and send().                                              *)
(*                                                                         *)
(* Each atomic flag access that another thread can come in between is a    *)
(* step of its own.  The condition variable's waits have timeouts (30 s    *)
(* and 5 s) and may wake early, so a waiter may look at its predicate at   *)
(* any time.  The blocking calls of Boost.Beast (handshake, read, close)   *)
(* have no timeout: they end when the peer or the network ends them.       *)
(***************************************************************************)
EXTENDS Naturals, Sequences

CONSTANTS Users,    \* threads that open, close or destroy the connection
          Messages  \* calls of send(), each with the message it passes

VARIABLES connected,   \* connected_
          connecting,  \* connecting_
          shouldStop,  \* shouldStop_
          joinable,    \* ioThread_.joinable()
          io,          \* where the I/O thread is
          stream,      \* ws_: "null", "closed", "open", or "closing" while a close
                       \* frame of this side is unanswered
          pending,     \* pendingMessages_
          wire,        \* messages written to the stream (history)
          fault,       \* a handshake or a read failed, or connect() timed out (history)
          upc,         \* where each user is
          mpc,         \* where each call of send() is
          life         \* "alive", "dying", "gone" or "terminated"

flags == <<connected, connecting, shouldStop>>
vars == <<flags, joinable, io, stream, pending, wire, fault, upc, mpc, life>>

Init ==
    /\ connected = FALSE
    /\ connecting = FALSE
    /\ shouldStop = FALSE
    /\ joinable = FALSE
    /\ io = "none"
    /\ stream = "null"
    /\ pending = <<>>
    /\ wire = <<>>
    /\ fault = FALSE
    /\ upc = [u \in Users |-> "idle"]
    /\ mpc = [m \in Messages |-> "idle"]
    /\ life = "alive"

IoAlive == io \notin {"none", "ended"}
Goto(u, label) == upc' = [upc EXCEPT ![u] = label]

-----------------------------------------------------------------------------
(* The I/O thread: runIoThread(), onConnect(), onClose().                  *)

IoHandshakeOk ==
    /\ io = "handshake"
    /\ io' = "onConnect"
    /\ stream' = "open"
    /\ UNCHANGED <<flags, joinable, pending, wire, fault, upc, mpc, life>>

\* Resolving, connecting or shaking hands throws.
IoHandshakeFail ==
    /\ io = "handshake"
    /\ io' = "onClose"
    /\ fault' = TRUE
    /\ UNCHANGED <<flags, joinable, stream, pending, wire, upc, mpc, life>>

\* onConnect() under connectionMutex_.
IoOnConnect ==
    /\ io = "onConnect"
    /\ connected' = TRUE
    /\ connecting' = FALSE
    /\ io' = "opened"
    /\ UNCHANGED <<shouldStop, joinable, stream, pending, wire, fault, upc, mpc, life>>

\* onConnect() takes pendingMutex_ for the whole of its flush.
IoFlushLock ==
    /\ io = "opened"
    /\ io' = "flush"
    /\ UNCHANGED <<flags, joinable, stream, pending, wire, fault, upc, mpc, life>>

\* Mutant: the message is written and not popped.
IoFlushNoPop ==
    /\ io = "flush"
    /\ pending # <<>>
    /\ stream = "open"
    /\ Len(wire) < 4
    /\ wire' = Append(wire, Head(pending))
    /\ UNCHANGED <<flags, joinable, io, stream, pending, fault, upc, mpc, life>>

\* Mutant: front() of the queue is taken without asking whether there is one.
IoFlushUnguarded ==
    /\ io = "flush"
    /\ stream = "open"
    /\ Len(wire) < 4
    /\ wire' = Append(wire, IF pending = <<>> THEN "garbage" ELSE Head(pending))
    /\ pending' = IF pending = <<>> THEN pending ELSE Tail(pending)
    /\ UNCHANGED <<flags, joinable, io, stream, fault, upc, mpc, life>>

IoFlushWrite ==
    /\ io = "flush"
    /\ pending # <<>>
    /\ stream = "open"
    /\ wire' = Append(wire, Head(pending))
    /\ pending' = Tail(pending)
    /\ UNCHANGED <<flags, joinable, io, stream, fault, upc, mpc, life>>

\* The queue is empty, or a write failed and the rest stays queued.
IoFlushEnd ==
    /\ io = "flush"
    /\ io' = "loop"
    /\ UNCHANGED <<flags, joinable, stream, pending, wire, fault, upc, mpc, life>>

IoLoop ==
    /\ io = "loop"
    /\ io' = IF ~shouldStop /\ stream = "open" THEN "read" ELSE "onClose"
    /\ UNCHANGED <<flags, joinable, stream, pending, wire, fault, upc, mpc, life>>

\* A message arrives and the callback returns; the peer may still send some
\* before it answers a close frame.
IoMessage ==
    /\ io = "read"
    /\ stream \in {"open", "closing"}
    /\ io' = "loop"
    /\ UNCHANGED <<flags, joinable, stream, pending, wire, fault, upc, mpc, life>>

\* read() throws: the closing handshake is over, or the peer closes, or the
\* network fails.
IoReadFail ==
    /\ io = "read"
    /\ stream # "closing"
    /\ io' = "onClose"
    /\ stream' = "closed"
    /\ fault' = (fault \/ stream = "open")
    /\ UNCHANGED <<flags, joinable, pending, wire, upc, mpc, life>>

\* The peer answers the close frame, or the connection breaks; which of the two
\* threads that read the stream meets it makes no difference.
PeerAnswersClose ==
    /\ stream = "closing"
    /\ stream' = "closed"
    /\ UNCHANGED <<flags, joinable, io, pending, wire, fault, upc, mpc, life>>

\* Mutant: the flags are left to disconnect().
IoOnCloseSilent ==
    /\ io = "onClose"
    /\ io' = "ended"
    /\ UNCHANGED <<flags, joinable, stream, pending, wire, fault, upc, mpc, life>>

IoOnClose ==
    /\ io = "onClose"
    /\ connected' = FALSE
    /\ connecting' = FALSE
    /\ io' = "ended"
    /\ UNCHANGED <<shouldStop, joinable, stream, pending, wire, fault, upc, mpc, life>>

-----------------------------------------------------------------------------
(* connect().                                                              *)

ConnectTest(u) ==
    /\ life = "alive"
    /\ upc[u] = "idle"
    /\ ~connected
    /\ Goto(u, "cas")
    /\ UNCHANGED <<flags, joinable, io, stream, pending, wire, fault, mpc, life>>

\* The test of connecting_ and the exchange that repeats it.
ConnectCas(u) ==
    /\ upc[u] = "cas"
    /\ Goto(u, IF connecting THEN "idle" ELSE "start")
    /\ connecting' = TRUE
    /\ UNCHANGED <<connected, shouldStop, joinable, io, stream, pending, wire, fault,
                   mpc, life>>

ConnectStart(u) ==
    /\ upc[u] = "start"
    /\ shouldStop' = FALSE
    /\ Goto(u, "spawn")
    /\ UNCHANGED <<connected, connecting, joinable, io, stream, pending, wire, fault,
                   mpc, life>>

\* A thread is started only if ioThread_ is not joinable; one that has ended
\* and has not been joined still is.
ConnectSpawn(u) ==
    /\ upc[u] = "spawn"
    /\ Goto(u, IF joinable THEN "connecting" ELSE "launch")
    /\ UNCHANGED <<flags, joinable, io, stream, pending, wire, fault, mpc, life>>

\* Assigning to a std::thread that another connect() has made joinable calls
\* std::terminate.
ConnectLaunch(u) ==
    /\ upc[u] = "launch"
    /\ Goto(u, "connecting")
    /\ joinable' = TRUE
    /\ IF joinable
       THEN life' = "terminated" /\ UNCHANGED <<io, stream>>
       ELSE io' = "handshake" /\ stream' = "closed" /\ UNCHANGED life
    /\ UNCHANGED <<flags, pending, wire, fault, mpc>>

\* Mutant: connect() waits for the end of the thread, not for its flag.
ConnectReturnJoins(u) ==
    /\ upc[u] = "connecting"
    /\ connected /\ io = "ended"
    /\ Goto(u, "idle")
    /\ UNCHANGED <<flags, joinable, io, stream, pending, wire, fault, mpc, life>>

ConnectReturn(u) ==
    /\ upc[u] = "connecting"
    /\ connected
    /\ Goto(u, "idle")
    /\ UNCHANGED <<flags, joinable, io, stream, pending, wire, fault, mpc, life>>

\* Not connected when the wait ends: the attempt has failed, or 30 s are over.
ConnectThrow(u) ==
    /\ upc[u] = "connecting"
    /\ ~connected
    /\ fault' = (fault \/ connecting)
    /\ connecting' = FALSE
    /\ Goto(u, "catch")
    /\ UNCHANGED <<connected, shouldStop, joinable, io, stream, pending, wire, mpc, life>>

\* The handler clears the flag once more, with connectionMutex_ released.
ConnectCatch(u) ==
    /\ upc[u] = "catch"
    /\ connecting' = FALSE
    /\ Goto(u, "idle")
    /\ UNCHANGED <<connected, shouldStop, joinable, io, stream, pending, wire, fault,
                   mpc, life>>

-----------------------------------------------------------------------------
(* disconnect() and the destructor.                                        *)

\* Where disconnect() goes on after its test of connected_.
Doubtful == IF connected THEN "stop" ELSE "test"

\* Where its caller goes on: the destructor has members left to destroy.
Left == IF life = "dying" THEN "destroyed" ELSE "idle"

DisconnectTest(u) ==
    /\ life = "alive" /\ upc[u] = "idle"
    /\ Goto(u, Doubtful)
    /\ UNCHANGED <<flags, joinable, io, stream, pending, wire, fault, mpc, life>>

\* Not connected and not connecting: disconnect() returns.
DisconnectRetest(u) ==
    /\ upc[u] = "test"
    /\ Goto(u, IF connecting THEN "stop" ELSE Left)
    /\ UNCHANGED <<flags, joinable, io, stream, pending, wire, fault, mpc, life>>

DisconnectStop(u) ==
    /\ upc[u] = "stop"
    /\ shouldStop' = TRUE
    /\ Goto(u, "close")
    /\ UNCHANGED <<connected, connecting, joinable, io, stream, pending, wire, fault,
                   mpc, life>>

\* Mutant: the stream is left open.
DisconnectNoClose(u) ==
    /\ upc[u] = "close"
    /\ Goto(u, "join")
    /\ UNCHANGED <<flags, joinable, io, stream, pending, wire, fault, mpc, life>>

\* On an open stream close() sends its frame and waits for the peer's.
DisconnectClose(u) ==
    /\ upc[u] = "close"
    /\ IF stream = "open" THEN Goto(u, "closing") /\ stream' = "closing"
                          ELSE Goto(u, "join") /\ UNCHANGED stream
    /\ UNCHANGED <<flags, joinable, io, pending, wire, fault, mpc, life>>

\* close() returns; the end of the I/O thread is then awaited for at most 5 s.
DisconnectClosed(u) ==
    /\ upc[u] = "closing"
    /\ stream # "closing"
    /\ Goto(u, "join")
    /\ UNCHANGED <<flags, joinable, io, stream, pending, wire, fault, mpc, life>>

DisconnectJoin(u) ==
    /\ upc[u] = "join"
    /\ joinable => io = "ended"
    /\ joinable' = FALSE
    /\ Goto(u, "down")
    /\ UNCHANGED <<flags, io, stream, pending, wire, fault, mpc, life>>

\* A second join of one thread throws, and disconnect() goes on.
DisconnectJoinThrows(u) ==
    /\ upc[u] = "join" /\ joinable
    /\ \E v \in Users \ {u} : upc[v] = "join"
    /\ Goto(u, "down")
    /\ UNCHANGED <<flags, joinable, io, stream, pending, wire, fault, mpc, life>>

DisconnectDown(u) ==
    /\ upc[u] = "down"
    /\ connected' = FALSE
    /\ Goto(u, "clear")
    /\ UNCHANGED <<connecting, shouldStop, joinable, io, stream, pending, wire, fault,
                   mpc, life>>

DisconnectClear(u) ==
    /\ upc[u] = "clear"
    /\ connecting' = FALSE
    /\ Goto(u, "drop")
    /\ UNCHANGED <<connected, shouldStop, joinable, io, stream, pending, wire, fault,
                   mpc, life>>

\* Under pendingMutex_.
DisconnectDrop(u) ==
    /\ upc[u] = "drop"
    /\ io # "flush"
    /\ pending' = <<>>
    /\ Goto(u, Left)
    /\ UNCHANGED <<flags, joinable, io, stream, wire, fault, mpc, life>>

\* Mutant: a defaulted destructor.
DestroyBare(u) ==
    /\ life = "alive"
    /\ \A v \in Users : upc[v] = "idle"
    /\ \A m \in Messages : mpc[m] \notin {"choose", "push", "write"}
    /\ life' = "dying"
    /\ Goto(u, "destroyed")
    /\ UNCHANGED <<flags, joinable, io, stream, pending, wire, fault, mpc>>

\* The destructor, when no other call is under way, begins with disconnect().
Destroy(u) ==
    /\ life = "alive"
    /\ \A v \in Users : upc[v] = "idle"
    /\ \A m \in Messages : mpc[m] \notin {"choose", "push", "write"}
    /\ life' = "dying"
    /\ Goto(u, Doubtful)
    /\ UNCHANGED <<flags, joinable, io, stream, pending, wire, fault, mpc>>

\* A std::thread that is destroyed while joinable calls std::terminate.
DestroyThread(u) ==
    /\ upc[u] = "destroyed"
    /\ life = "dying"
    /\ life' = IF joinable THEN "terminated" ELSE "gone"
    /\ UNCHANGED <<flags, joinable, io, stream, pending, wire, fault, upc, mpc>>

-----------------------------------------------------------------------------
(* send().                                                                 *)

SendTest(m) ==
    /\ life = "alive"
    /\ mpc[m] = "idle"
    /\ mpc' = [mpc EXCEPT ![m] = IF connected THEN "write" ELSE "choose"]
    /\ UNCHANGED <<flags, joinable, io, stream, pending, wire, fault, upc, life>>

SendChoose(m) ==
    /\ mpc[m] = "choose"
    /\ mpc' = [mpc EXCEPT ![m] = IF connecting THEN "push" ELSE "threw"]
    /\ UNCHANGED <<flags, joinable, io, stream, pending, wire, fault, upc, life>>

\* Under pendingMutex_, which the flush of onConnect() holds throughout.
SendPush(m) ==
    /\ mpc[m] = "push"
    /\ io # "flush"
    /\ pending' = Append(pending, m)
    /\ mpc' = [mpc EXCEPT ![m] = "queued"]
    /\ UNCHANGED <<flags, joinable, io, stream, wire, fault, upc, life>>

\* connected_ is tested again, and may be cleared right after; a write on a
\* stream that is not open throws, and on an open one it may fail.
SendWrite(m) ==
    /\ mpc[m] = "write"
    /\ \/ /\ stream = "open"
          /\ wire' = Append(wire, m)
          /\ mpc' = [mpc EXCEPT ![m] = "written"]
       \/ /\ mpc' = [mpc EXCEPT ![m] = "threw"]
          /\ UNCHANGED wire
    /\ UNCHANGED <<flags, joinable, io, stream, pending, fault, upc, life>>

-----------------------------------------------------------------------------
IoStep == IoOnConnect \/ IoFlushLock \/ IoFlushWrite \/ IoFlushEnd \/ IoLoop \/ IoOnClose
Network == IoHandshakeOk \/ IoHandshakeFail \/ IoReadFail \/ PeerAnswersClose
Connecting(u) ==
    \/ ConnectCas(u) \/ ConnectStart(u) \/ ConnectSpawn(u) \/ ConnectLaunch(u)
    \/ ConnectReturn(u) \/ ConnectThrow(u) \/ ConnectCatch(u)
Disconnecting(u) ==
    \/ DisconnectRetest(u) \/ DisconnectStop(u) \/ DisconnectClose(u) \/ DisconnectClosed(u)
    \/ DisconnectJoin(u) \/ DisconnectJoinThrows(u)
    \/ DisconnectDown(u) \/ DisconnectClear(u) \/ DisconnectDrop(u) \/ DestroyThread(u)

\* An object that is gone, or a program that was terminated, does nothing.
Over == life \in {"gone", "terminated"} /\ UNCHANGED vars

Next ==
    \/ IoStep \/ Network \/ IoMessage
    \/ \E u \in Users : \/ ConnectTest(u) \/ Connecting(u)
                        \/ DisconnectTest(u) \/ Disconnecting(u) \/ Destroy(u)
    \/ \E m \in Messages : SendTest(m) \/ SendChoose(m) \/ SendPush(m) \/ SendWrite(m)
    \/ Over

SafeSpec == Init /\ [][Next]_vars

\* Threads keep running, and a read returns once the closing handshake is over or
\* the connection broken.  Nobody has to send a message, to open the connection or
\* to close it, and the peer need not do anything: it may leave a handshake or a
\* close frame unanswered for ever.
Fairness ==
    /\ WF_vars(IoStep)
    /\ WF_vars(stream = "closed" /\ IoReadFail)
    /\ \A u \in Users : WF_vars(Connecting(u)) /\ WF_vars(Disconnecting(u))

Spec == SafeSpec /\ Fairness

-----------------------------------------------------------------------------
\* Type invariant: what is queued and what is written are messages that callers of
\* send() passed.
TypeOK ==
    /\ connected \in BOOLEAN /\ connecting \in BOOLEAN /\ shouldStop \in BOOLEAN
    /\ joinable \in BOOLEAN
    /\ io \in {"none", "handshake", "onConnect", "opened", "flush", "loop", "read",
               "onClose", "ended"}
    /\ stream \in {"null", "closed", "open", "closing"}
    /\ pending \in Seq(Messages)
    /\ wire \in Seq(Messages)
    /\ fault \in BOOLEAN
    /\ upc \in [Users -> {"idle", "cas", "start", "spawn", "launch", "connecting", "catch",
                          "test", "stop", "close", "closing", "join", "down", "clear",
                          "drop", "destroyed"}]
    /\ mpc \in [Messages -> {"idle", "choose", "push", "queued", "write", "written", "threw"}]
    /\ life \in {"alive", "dying", "gone", "terminated"}

\* connected_ never promises a connection nobody serves: while it is set, the
\* I/O thread runs, past its handshake, and ioThread_ can be joined.
ConnectedIsServed ==
    connected => /\ io \in {"opened", "flush", "loop", "read", "onClose"}
                 /\ joinable

\* connecting_ without connected_ means that some connect() or disconnect() is
\* still at work and will clear it: send() never queues for an attempt that
\* was given up.
ConnectingHasOwner ==
    connecting /\ ~connected =>
        \E u \in Users : upc[u] \in {"start", "spawn", "launch", "connecting", "clear"}

\* A thread that was joined has ended: no callback runs and nothing is
\* connected once disconnect() is past its join.
JoinedMeansDown == ~joinable => ~IoAlive /\ ~connected

\* The two flags agree with the threads behind them, however connect(),
\* disconnect(), timeouts and failures interleave.
FlagsAgree == ConnectedIsServed /\ ConnectingHasOwner /\ JoinedMeansDown

\* A message goes to the server at most once, however send() and the flush of
\* onConnect() interleave.
SentAtMostOnce ==
    \A i, j \in 1..Len(wire) : wire[i] = wire[j] => i = j

\* The peer, or the network in its place, ends every handshake and answers every
\* close frame in the end.
PeerReacts == []<>(io # "handshake") /\ []<>(stream # "closing")

\* disconnect() returns if the peer reacts: close() and the join have no timeout,
\* and a peer that stays silent is the only thing that holds them for ever; nothing
\* on this side does, whenever the call meets the handshake, the flush, a read or a
\* failure.
DisconnectReturns ==
    PeerReacts => \A u \in Users : upc[u] = "stop" ~> upc[u] \in {"idle", "destroyed"}

\* As long as nothing fails, connect() returns with the connection up, also on an
\* object that was connected and disconnected before.
ConnectConnects == \A u \in Users : upc[u] = "start" ~> fault \/ (upc[u] = "idle" /\ connected)

\* As long as nothing failed, destroying a connection does not terminate the
\* program.
DestroyIsClean == life = "terminated" => fault

=============================================================================
