------------------------ MODULE ClientSessionProofs ------------------------
(***************************************************************************)
(* The client never reads from a closed socket, never believes in a        *)
(* connection that nobody reads and never leaks a socket on the way from   *)
(* connect to disconnect, for any number of connects and waiting packets.  *)
(***************************************************************************)
EXTENDS ClientSession, TLAPS

USE ClientAssumption

\* A fresh client (Client::Client) has no socket and no thread.
LEMMA SessionInit == Init => SessionInv
<1> SUFFICES ASSUME Init PROVE SessionInv
  OBVIOUS
<1> USE DEF Init
<1>1. 0 \in 0 .. MaxPending /\ 0 \in 0 .. MaxConnects
  BY DEF ClientAssumption
<1>2. events \in Seq({"failed", "up", "lost", "down"})
  OBVIOUS
<1>3. TypeOK
  BY <1>1, <1>2 DEF TypeOK, NoSocket, AppStates, ReaderStates
<1> QED
  BY <1>3 DEF SessionInv, DiesOnlyOfPeer, Held, NoSocket, Sockets

\* Callbacks are recorded one at a time (triggerConnectionCallback).
LEMMA NotifyType ==
    ASSUME events \in Seq({"failed", "up", "lost", "down"}),
           NEW event \in {"failed", "up", "lost", "down"}, Notify(event)
    PROVE  events' \in Seq({"failed", "up", "lost", "down"})
BY DEF Notify

\* The calls with which the application's thread enters the library.
LEMMA CallStep ==
    ASSUME SessionInv, CallConnect \/ CallSend \/ CallDisconnect \/ CallDestructor
    PROVE  SessionInv'
<1> USE DEF SessionInv, TypeOK, Held, DiesOnlyOfPeer, flags, netVars, AppStates, ReaderStates
<1>1. CASE CallConnect
  BY <1>1 DEF CallConnect
<1>2. CASE CallSend
  BY <1>2 DEF CallSend
<1>3. CASE CallDisconnect
  BY <1>3 DEF CallDisconnect
<1>4. CASE CallDestructor
  BY <1>4 DEF CallDestructor
<1> QED
  BY <1>1, <1>2, <1>3, <1>4

\* The lines of sendMessage, disconnect, connect and ~Client.
LEMMA AppStepKeeps ==
    ASSUME SessionInv, AppStep
    PROVE  SessionInv'
<1> USE DEF SessionInv, TypeOK, Held, DiesOnlyOfPeer, flags, netVars, AppStates, ReaderStates
<1>1. CASE Send
  BY <1>1 DEF Send
<1>2. CASE Stop
  BY <1>2 DEF Stop, AfterStop
<1>3. CASE Join
  BY <1>3 DEF Join
<1>4. CASE Close
  BY <1>4 DEF Close, Closed, Sockets, NoSocket
<1>5. CASE Report
  <2>1. events' \in Seq({"failed", "up", "lost", "down"})
    BY <1>5, NotifyType DEF Report
  <2> QED
    BY <1>5, <2>1 DEF Report
<1>6. CASE Dial
  <2>1. dialed' = dialed + 1 /\ dialed' \in Sockets /\ dialed' \in 0 .. MaxConnects
    BY <1>6 DEF Dial, Sockets
  <2>2. CASE socketFd' = dialed'
    <3>1. open = {} \/ reader \in {"lost", "ended"}
      BY <1>6 DEF Dial
    <3>2. /\ open' = open \cup {dialed'} /\ peer' = peer \cup {dialed'}
          /\ pending' = 0 /\ app' = "spawn" /\ events' = events
      BY <1>6, <2>1, <2>2 DEF Dial, Sockets, NoSocket
    <3>3. /\ UNCHANGED <<connected, running, reader, then>>
          /\ app = "dial" /\ dialed \in Nat /\ MaxConnects \in Nat /\ ~connected
      BY <1>6 DEF Dial
    <3>4. TypeOK'
      BY <2>1, <2>2, <3>2, <3>3 DEF Sockets
    <3>5. reader = "none" => Held'
      BY <2>1, <2>2, <3>1, <3>2
    <3> QED
      BY <2>1, <2>2, <3>2, <3>3, <3>4, <3>5
  <2>3. CASE socketFd' = NoSocket
    <3>1. /\ UNCHANGED <<open, peer, pending>> /\ app' = "idle" /\ Notify("failed")
      BY <1>6, <2>1, <2>3 DEF Dial, Sockets, NoSocket
    <3>2. events' \in Seq({"failed", "up", "lost", "down"})
      BY <3>1, NotifyType
    <3> QED
      BY <1>6, <2>1, <2>3, <3>1, <3>2 DEF Dial
  <2> QED
    BY <1>6, <2>2, <2>3 DEF Dial
<1>7. CASE Spawn
  BY <1>7 DEF Spawn
<1>8. CASE Greet
  <2>1. events' \in Seq({"failed", "up", "lost", "down"})
    BY <1>8, NotifyType DEF Greet
  <2> QED
    BY <1>8, <2>1 DEF Greet
<1>9. CASE Destroy
  BY <1>9 DEF Destroy
<1> QED
  BY <1>1, <1>2, <1>3, <1>4, <1>5, <1>6, <1>7, <1>8, <1>9 DEF AppStep

\* The lines of receiveThreadFunc.
LEMMA ReaderStepKeeps ==
    ASSUME SessionInv, ReaderStep
    PROVE  SessionInv'
<1> USE DEF SessionInv, TypeOK, Held, DiesOnlyOfPeer, flags, netVars, AppStates, ReaderStates
<1>1. CASE LoopTest
  BY <1>1 DEF LoopTest
<1>2. CASE Recv
  BY <1>2 DEF Recv, HasData, AfterEof
<1>3. CASE Handle
  BY <1>3 DEF Handle
<1>4. CASE Exit
  BY <1>4 DEF Exit, LostFlag
<1>5. CASE ReportLost
  <2>1. events' \in Seq({"failed", "up", "lost", "down"})
    BY <1>5, NotifyType DEF ReportLost
  <2> QED
    BY <1>5, <2>1 DEF ReportLost
<1> QED
  BY <1>1, <1>2, <1>3, <1>4, <1>5 DEF ReaderStep

\* Every step of the two threads and of the server keeps the inductive invariant.
LEMMA SessionStep == SessionInv /\ [Next]_vars => SessionInv'
<1> SUFFICES ASSUME SessionInv, [Next]_vars PROVE SessionInv'
  OBVIOUS
<1>1. CASE CallConnect \/ CallSend \/ CallDisconnect \/ CallDestructor
  BY <1>1, CallStep
<1>2. CASE AppStep
  BY <1>2, AppStepKeeps
<1>3. CASE ReaderStep
  BY <1>3, ReaderStepKeeps
<1>4. CASE ServerSend
  BY <1>4 DEF ServerSend, SessionInv, TypeOK, Held, DiesOnlyOfPeer, flags
<1>5. CASE ServerClose
  BY <1>5 DEF ServerClose, SessionInv, TypeOK, Held, DiesOnlyOfPeer, flags
<1>6. CASE UNCHANGED vars
  BY <1>6 DEF vars, flags, netVars, SessionInv, TypeOK, Held, DiesOnlyOfPeer
<1> QED
  BY <1>1, <1>2, <1>3, <1>4, <1>5, <1>6 DEF Next

\* What relates the flags, the two threads, the std::thread object and the socket
\* of a client holds through any order of calls and losses (client.cpp:30-310).
THEOREM SessionHolds == Spec => []SessionInv
BY SessionInit, SessionStep, PTL DEF Spec

\* The state of the client session keeps its types.
THEOREM SessionTypeCorrect == Spec => []TypeOK
<1>1. SessionInv => TypeOK
  BY DEF SessionInv
<1> QED
  BY <1>1, SessionInit, SessionStep, PTL DEF Spec

\* recv is only called on an open socket: disconnect joins the receive thread
\* before it closes, and no other code closes.
THEOREM ReadsOpenSocketHolds == Spec => []ReadsOpenSocket
<1>1. SessionInv => ReadsOpenSocket
  BY DEF SessionInv, ReadsOpenSocket, Held
<1> QED
  BY <1>1, SessionInit, SessionStep, PTL DEF Spec

\* A client that says it is connected has a receive thread that has not ended.
THEOREM ConnectedIsReadHolds == Spec => []ConnectedIsRead
<1>1. SessionInv => ConnectedIsRead
  BY DEF SessionInv, ConnectedIsRead, TypeOK
<1> QED
  BY <1>1, SessionInit, SessionStep, PTL DEF Spec

\* While the connection lasts and the bytes received are harmless, no order of calls
\* ends in std::terminate or SIGPIPE; append's exception (client.cpp:280) is part of
\* the specification and ends the process.
THEOREM DiesOnlyOfPeerHolds == Spec => []DiesOnlyOfPeer
<1>1. SessionInv => DiesOnlyOfPeer
  BY DEF SessionInv
<1> QED
  BY <1>1, SessionInit, SessionStep, PTL DEF Spec

\* A client without connection and thread, and one that has been destroyed,
\* holds no socket.
THEOREM ReleasedHolds == Spec => []Released
<1>1. SessionInv => Released
  BY DEF SessionInv, Released, TypeOK, ReaderStates
<1> QED
  BY <1>1, SessionInit, SessionStep, PTL DEF Spec
=============================================================================
