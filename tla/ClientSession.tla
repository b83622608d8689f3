--------------------------- MODULE ClientSession ---------------------------
(***************************************************************************)
(* The client library (client/client.cpp): the application's thread calls  *)
(* connect, sendMessage, disconnect and the destructor, and a receive      *)
(* thread runs next to it.  They share connected_, running_, socketFd_ and *)
(* the std::thread object itself.  What the received bytes mean is the     *)
(* subject of module ClientReader.                                         *)
(***************************************************************************)
EXTENDS Integers, Sequences, FiniteSets

CONSTANTS
    MaxConnects,    \* bound: calls of connect that reach socket()
    MaxPending,     \* bound: packets the server has sent and recv has not read
    ServerCloses    \* may the server close a connection

ASSUME ClientAssumption ==
    MaxConnects \in Nat /\ MaxPending \in Nat \ {0} /\ ServerCloses \in BOOLEAN

Sockets  == 1 .. MaxConnects
NoSocket == 0     \* the code's -1

VARIABLES
    connected, running, \* the atomic flags
    socketFd,           \* the client's socket
    open,               \* the sockets of this process the kernel holds
    peer,               \* the sockets whose server side is open
    pending,            \* packets waiting in the current socket
    dialed,             \* sockets created so far
    reader,             \* receiveThread_: "none" is a std::thread without a thread
    app, then,          \* the application's thread, where it goes after disconnect
    events              \* the connection callbacks, oldest first

flags   == <<connected, running>>
netVars == <<socketFd, open, peer, pending, dialed>>
vars    == <<flags, netVars, reader, app, then, events>>

\* "stop", "join", "close", "report" are disconnect's lines in order; "dial",
\* "spawn", "greet" are connect's.  In "dead" and "gone" there is no client:
\* the process was killed, or the destructor has returned.  A "thrown" receive
\* thread was left by an exception that nobody catches.
AppStates    == {"idle", "send", "stop", "join", "close", "report",
                 "dial", "spawn", "greet", "destroy", "dead", "gone"}
ReaderStates == {"none", "loop", "recv", "handle", "thrown", "exit", "lost", "ended"}

TypeOK ==
    /\ connected \in BOOLEAN /\ running \in BOOLEAN
    /\ socketFd \in Sockets \cup {NoSocket}
    /\ open \subseteq Sockets /\ peer \subseteq Sockets
    /\ pending \in 0 .. MaxPending
    /\ dialed \in 0 .. MaxConnects
    /\ reader \in ReaderStates
    /\ app \in AppStates
    /\ then \in {"idle", "dial", "destroy"}
    /\ events \in Seq({"failed", "up", "lost", "down"})

Init ==
    /\ connected = FALSE /\ running = FALSE
    /\ socketFd = NoSocket /\ open = {} /\ peer = {}
    /\ pending = 0 /\ dialed = 0
    /\ reader = "none" /\ app = "idle" /\ then = "idle" /\ events = <<>>

Notify(event) == events' = Append(events, event)
-----------------------------------------------------------------------------
(* Plausible slips in the helpers below. *)
AfterStopNoJoin         == "close"
KeepsReadingIgnoresStop == connected
AfterEofRetry           == "loop"
LostKeepsFlag           == connected
ClosedNot               == open

\* After running_ = false, disconnect joins before it closes.
AfterStop == "join"

\* The receive loop's condition.
KeepsReading == running /\ connected

\* recv has something to return.
HasData == pending > 0

\* recv returned 0 or an error.
AfterEof == "exit"

\* connected_ when the receive loop has been left.
LostFlag == FALSE

\* The open sockets after close(socketFd_).
Closed == open \ {socketFd}
-----------------------------------------------------------------------------
(* The application's thread. *)

\* connect, sendMessage, disconnect and ~Client begin by looking at connected_.
CallConnect ==
    /\ app = "idle"
    /\ dialed < MaxConnects
    /\ then' = "dial"
    /\ app' = IF connected THEN "stop" ELSE "dial"
    /\ UNCHANGED <<flags, netVars, reader, events>>

CallSend ==
    /\ app = "idle" /\ connected
    /\ app' = "send"
    /\ UNCHANGED <<flags, netVars, reader, then, events>>

CallDisconnect ==
    /\ app = "idle" /\ connected
    /\ app' = "stop" /\ then' = "idle"
    /\ UNCHANGED <<flags, netVars, reader, events>>

CallDestructor ==
    /\ app = "idle"
    /\ then' = "destroy"
    /\ app' = IF connected THEN "stop" ELSE "destroy"
    /\ UNCHANGED <<flags, netVars, reader, events>>

\* The send() calls of sendMessage.  On a connection the server has closed they
\* may still be buffered; otherwise SIGPIPE, which nobody ignores, kills the
\* process.
Send ==
    /\ app = "send"
    /\ app' \in IF socketFd \in peer THEN {"idle"} ELSE {"idle", "dead"}
    /\ UNCHANGED <<flags, netVars, reader, then, events>>

Stop ==
    /\ app = "stop"
    /\ running' = FALSE
    /\ app' = AfterStop
    /\ UNCHANGED <<connected, netVars, reader, then, events>>

\* receiveThread_.join(), if it is joinable.
Join ==
    /\ app = "join"
    /\ reader \in {"none", "ended"}
    /\ reader' = "none"
    /\ app' = "close"
    /\ UNCHANGED <<flags, netVars, then, events>>

Close ==
    /\ app = "close"
    /\ open' = Closed
    /\ socketFd' = NoSocket
    /\ pending' = 0
    /\ app' = "report"
    /\ UNCHANGED <<flags, peer, dialed, reader, then, events>>

Report ==
    /\ app = "report"
    /\ connected' = FALSE
    /\ Notify("down")
    /\ app' = then
    /\ UNCHANGED <<running, netVars, reader, then>>

\* socket() and ::connect(); both may fail.
Dial ==
    /\ app = "dial"
    /\ dialed' = dialed + 1
    /\ \/ /\ socketFd' = dialed'
          /\ open' = open \cup {dialed'}
          /\ peer' = peer \cup {dialed'}
          /\ pending' = 0
          /\ app' = "spawn"
          /\ UNCHANGED events
       \/ /\ socketFd' = NoSocket
          /\ Notify("failed")
          /\ app' = "idle"
          /\ UNCHANGED <<open, peer, pending>>
    /\ UNCHANGED <<flags, reader, then>>

\* The flags and the new thread.  Assigning to a std::thread that is still
\* joinable is std::terminate.
Spawn ==
    /\ app = "spawn"
    /\ connected' = TRUE /\ running' = TRUE
    /\ IF reader = "none" THEN reader' = "loop" /\ app' = "greet"
                          ELSE app' = "dead" /\ UNCHANGED reader
    /\ UNCHANGED <<netVars, then, events>>

Greet ==
    /\ app = "greet"
    /\ Notify("up")
    /\ app' = "idle"
    /\ UNCHANGED <<flags, netVars, reader, then>>

\* The end of ~Client: destroying a joinable std::thread is std::terminate.
Destroy ==
    /\ app = "destroy"
    /\ app' = IF reader = "none" THEN "gone" ELSE "dead"
    /\ UNCHANGED <<flags, netVars, reader, then, events>>

AppStep == Send \/ Stop \/ Join \/ Close \/ Report \/ Dial \/ Spawn \/ Greet \/ Destroy
-----------------------------------------------------------------------------
(* The receive thread: receiveThreadFunc. *)

LoopTest ==
    /\ reader = "loop"
    /\ reader' = IF KeepsReading THEN "recv" ELSE "exit"
    /\ UNCHANGED <<flags, netVars, app, then, events>>

\* recv blocks while there are neither bytes nor an end of stream.
Recv ==
    /\ reader = "recv"
    /\ \/ /\ HasData
          /\ pending' = pending - 1
          /\ reader' = "handle"
       \/ /\ ~HasData /\ socketFd \notin peer
          /\ reader' = AfterEof
          /\ UNCHANGED pending
    /\ UNCHANGED <<flags, socketFd, open, peer, dialed, app, then, events>>

\* handleMessage, the message callback, the pause: back to the loop, unless the bytes
\* are such that append throws (module ClientReader says which).  Nobody catches that:
\* the process is terminated, whatever state the connection is in.
Handle ==
    /\ reader = "handle"
    /\ \/ reader' = "loop" /\ UNCHANGED app
       \/ reader' = "thrown" /\ app' = "dead"
    /\ UNCHANGED <<flags, netVars, then, events>>

Exit ==
    /\ reader = "exit"
    /\ connected' = IF connected THEN LostFlag ELSE connected
    /\ reader' = IF connected THEN "lost" ELSE "ended"
    /\ UNCHANGED <<running, netVars, app, then, events>>

ReportLost ==
    /\ reader = "lost"
    /\ Notify("lost")
    /\ reader' = "ended"
    /\ UNCHANGED <<flags, netVars, app, then>>

ReaderStep == LoopTest \/ Recv \/ Handle \/ Exit \/ ReportLost
-----------------------------------------------------------------------------
(* The server. *)

ServerSend ==
    /\ socketFd \in peer /\ socketFd \in open
    /\ pending < MaxPending
    /\ pending' = pending + 1
    /\ UNCHANGED <<flags, socketFd, open, peer, dialed, reader, app, then, events>>

ServerClose ==
    /\ ServerCloses
    /\ socketFd \in peer
    /\ peer' = peer \ {socketFd}
    /\ UNCHANGED <<flags, socketFd, open, pending, dialed, reader, app, then, events>>

Alive == app \notin {"dead", "gone"}

Next ==
    /\ Alive
    /\ \/ CallConnect \/ CallSend \/ CallDisconnect \/ CallDestructor
       \/ AppStep \/ ReaderStep \/ ServerSend \/ ServerClose

Spec == Init /\ [][Next]_vars

\* Both threads run; the application need not call anything.
FairSpec == Spec /\ WF_vars(Alive /\ AppStep) /\ WF_vars(Alive /\ ReaderStep)
-----------------------------------------------------------------------------
(* Properties. *)

\* The receive thread never calls recv on a socket that the application's thread
\* has closed (its number may already be another file's): disconnect joins
\* before it closes.
ReadsOpenSocket == reader = "recv" => socketFd \in open

\* While the client says it is connected, somebody reads: the receive thread
\* takes connected_ back before it ends (client.cpp:298).
ConnectedIsRead ==
    app \in {"idle", "greet", "send"} /\ connected => reader \notin {"none", "ended"}

\* A client that is not connected and has no thread to join holds no socket,
\* whichever of connect's and disconnect's steps brought it there; so neither
\* does a client whose destructor has returned.
Released ==
    (app = "idle" /\ reader = "none" /\ ~connected) \/ app = "gone" => open = {}

\* The process dies only of what the other side did: of a lost connection, by SIGPIPE
\* in a send to a server that is gone or by std::terminate for the thread such a loss
\* left behind (client.cpp:298), or of bytes, by append's exception in the receive
\* thread (client.cpp:280).  No order of connect, sendMessage, disconnect and the
\* destructor alone terminates it.
DiesOnlyOfPeer ==
    app = "dead" => \/ reader \in {"lost", "ended"}
                    \/ reader = "thrown"
                    \/ socketFd \in Sockets \ peer

\* The inductive strengthening of the properties above: the states of the
\* two threads that connect, disconnect and the receive thread's end allow
\* together.  While a thread may still call recv it has the one open socket.
Held == socketFd \in Sockets /\ open = {socketFd}

SessionInv ==
    /\ TypeOK
    /\ reader \in {"loop", "recv", "handle", "exit"} =>
         connected /\ Held /\ app \in {"idle", "send", "greet", "stop", "join", "dead"}
    /\ reader \in {"lost", "ended"} =>
         (connected => app = "dead") /\ app \notin {"close", "report", "gone"}
    /\ reader = "none" => app \notin {"send", "greet", "stop", "join"}
    /\ reader = "none" /\ app \in {"idle", "dial", "spawn", "destroy", "gone"} => ~connected
    /\ reader = "none" /\ app \in {"idle", "dial", "report", "destroy", "gone"} => open = {}
    /\ app \in {"stop", "join", "close"} \/ (app = "spawn" /\ reader = "none") => Held
    /\ app = "dial" \/ (app \in {"stop", "join", "close", "report"} /\ then = "dial") =>
         dialed < MaxConnects
    /\ reader = "thrown" => app = "dead"
    /\ DiesOnlyOfPeer

\* A connection the server has closed does not stay connected.
LossNoticed == (connected /\ socketFd \notin peer) ~> (~connected \/ ~Alive)

\* disconnect stops the receive thread and returns (client.cpp:109), unless that
\* thread waits in recv for a server that neither speaks nor hangs up: only recv
\* itself keeps the thread from seeing running_.
DisconnectReturns ==
    (app = "join" /\ ~ (reader = "recv" /\ ~HasData /\ socketFd \in peer))
    ~> app # "join"
=============================================================================
