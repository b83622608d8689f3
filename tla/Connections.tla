---------------------------- MODULE Connections ----------------------------
(***************************************************************************)
(* The connection layer of the chat server (server/server.cpp): the main   *)
(* thread accepts sockets and hands them to the workers through one notify *)
(* socketpair per worker, each worker keeps the connections it owns, and   *)
(* fdToWorker_ routes messages between workers.  What the workers do with  *)
(* a connection's requests is the subject of module ChatServer, which      *)
(* extends this one; when the workers' threads run, that of EventLoops.    *)
(***************************************************************************)
EXTENDS Integers, Sequences, FiniteSets

CONSTANTS
    NumWorkers,   \* threadCount_ (main.cpp starts 2)
    Fds, NoFd,    \* socket descriptors; NoFd is the code's -1
    Conns, NoConn,\* client connections, each made once; NoConn: closed socket
    FdsFor,       \* [Conns -> SUBSET Fds], descriptors accept may return
    Closers,      \* connections whose client may go away
    Msgs,         \* what workers forward to each other (ChatServer says what)
    PipeCap,      \* notifications a socketpair holds before send fails
    MaxCrashes    \* bound: how often the server process dies

Workers  == 0 .. NumWorkers - 1
NoWorker == -1    \* the null WorkerThread*

\* What the notify socketpairs carry: 'c' records and 's' records.
Note == [type : {"c"}, fd : Fds] \cup [type : {"s"}, fd : Fds, msg : Msgs]

ASSUME ConnAssumption ==
    /\ NumWorkers \in Nat \ {0}
    /\ PipeCap \in Nat \ {0}
    /\ MaxCrashes \in Nat
    /\ NoFd \notin Fds
    /\ NoConn \notin Conns
    /\ FdsFor \in [Conns -> SUBSET Fds]
    /\ Closers \subseteq Conns

VARIABLES
    up,              \* is the server process running
    crashes,         \* how often it has died so far
    accepted,        \* connections accepted so far
    sock,            \* the kernel's table: the open connection of each fd
    nextWorkerIndex, \* round-robin cursor of the main thread
    main,            \* dispatchClient between addClient and fdToWorker_
    pipe,            \* notifications sent to each worker and not yet read
    clients,         \* the keys of each worker's clients_
    fdToWorker       \* the server's fdToWorker_

connVars == <<up, crashes, accepted, sock, nextWorkerIndex, main, pipe,
              clients, fdToWorker>>

IdleMain == [fd |-> NoFd, worker |-> 0]

ConnTypeOK ==
    /\ up \in BOOLEAN
    /\ crashes \in Nat
    /\ accepted \subseteq Conns
    /\ sock \in [Fds -> Conns \cup {NoConn}]
    /\ nextWorkerIndex \in Workers
    /\ main \in [fd : Fds \cup {NoFd}, worker : Workers]
    /\ pipe \in [Workers -> Seq(Note)]
    /\ clients \in [Workers -> SUBSET Fds]
    /\ fdToWorker \in [Fds -> Workers \cup {NoWorker}]

ConnInit ==
    /\ up = TRUE
    /\ crashes = 0
    /\ accepted = {}
    /\ sock = [fd \in Fds |-> NoConn]
    /\ nextWorkerIndex = 0
    /\ main = IdleMain
    /\ pipe = [w \in Workers |-> <<>>]
    /\ clients = [w \in Workers |-> {}]
    /\ fdToWorker = [fd \in Fds |-> NoWorker]
-----------------------------------------------------------------------------
(* What plausible slips in the helpers below would look like. *)
EnqueueFront(w, note) == [pipe EXCEPT ![w] = <<note>> \o @]
DropClientNot(w, fd) == clients
KeepClientNot(w, fd) == clients
RouteKeepFirst(fd, w) ==
    IF fdToWorker[fd] = NoWorker THEN [fdToWorker EXCEPT ![fd] = w]
                                 ELSE fdToWorker

\* getLeastLoadedWorker advances its cursor whatever the workers' loads.
NextIndex == (nextWorkerIndex + 1) % NumWorkers

\* The non-blocking send of one record to worker w.  When the socketpair is
\* full send fails, and no caller looks at its result.
Enqueue(w, note) ==
    IF Len(pipe[w]) < PipeCap THEN [pipe EXCEPT ![w] = Append(@, note)]
                              ELSE pipe

\* clients_[clientFd] = bev.
KeepClient(w, fd) == [clients EXCEPT ![w] = @ \cup {fd}]

\* removeClient: forget the descriptor.
DropClient(w, fd) == [clients EXCEPT ![w] = @ \ {fd}]

\* fdToWorker_[clientFd] = w, whatever was there before.
Route(fd, w) == [fdToWorker EXCEPT ![fd] = w]

\* getWorkerForFd; -1 is never a key.
GetWorkerForFd(fd) == IF fd = NoFd THEN NoWorker ELSE fdToWorker[fd]
-----------------------------------------------------------------------------
(* The main thread. *)

\* acceptCallback and the first half of dispatchClient: pick the next worker
\* and send it a 'c' record.
Accept(c) ==
    /\ up
    /\ main.fd = NoFd
    /\ c \notin accepted
    /\ accepted' = accepted \cup {c}
    /\ \E fd \in FdsFor[c] :
         /\ sock[fd] = NoConn
         /\ sock' = [sock EXCEPT ![fd] = c]
         /\ pipe' = Enqueue(nextWorkerIndex, [type |-> "c", fd |-> fd])
         /\ main' = [fd |-> fd, worker |-> nextWorkerIndex]
    /\ nextWorkerIndex' = NextIndex
    /\ UNCHANGED <<up, crashes, clients, fdToWorker>>

\* The second half of dispatchClient: the worker may already be serving the
\* connection, and may even have closed it.
RegisterFd ==
    /\ up
    /\ main.fd # NoFd
    /\ fdToWorker' = Route(main.fd, main.worker)
    /\ main' = IdleMain
    /\ UNCHANGED <<up, crashes, accepted, sock, nextWorkerIndex, pipe, clients>>

(* A worker's event loop. *)

\* handleNotify, 'c' record: a bufferevent for the new connection.
HandleAdd(w) ==
    /\ up
    /\ pipe[w] # <<>>
    /\ Head(pipe[w]).type = "c"
    /\ pipe' = [pipe EXCEPT ![w] = Tail(@)]
    /\ clients' = KeepClient(w, Head(pipe[w]).fd)
    /\ UNCHANGED <<up, crashes, accepted, sock, nextWorkerIndex, main, fdToWorker>>

\* The same when no bufferevent can be made for it: the descriptor is closed.
\* fdToWorker_ is not told, and main may be about to write it there.
RefuseAdd(w) ==
    /\ up
    /\ pipe[w] # <<>>
    /\ Head(pipe[w]).type = "c"
    /\ pipe' = [pipe EXCEPT ![w] = Tail(@)]
    /\ sock' = [sock EXCEPT ![Head(pipe[w]).fd] = NoConn]
    /\ UNCHANGED <<up, crashes, accepted, nextWorkerIndex, main, clients, fdToWorker>>

\* handleNotify, 's' record: consumed, whether or not the target is there.
HandleSend(w) ==
    /\ up
    /\ pipe[w] # <<>>
    /\ Head(pipe[w]).type = "s"
    /\ pipe' = [pipe EXCEPT ![w] = Tail(@)]
    /\ UNCHANGED <<up, crashes, accepted, sock, nextWorkerIndex, main, clients,
                   fdToWorker>>

\* notifySendMessage on worker w, called by any worker.
NotifySendMessage(w, fd, msg) ==
    /\ up
    /\ pipe' = Enqueue(w, [type |-> "s", fd |-> fd, msg |-> msg])
    /\ UNCHANGED <<up, crashes, accepted, sock, nextWorkerIndex, main, clients,
                   fdToWorker>>

\* eventCallback on EOF or ERROR: removeClient, then the socket is closed by
\* BEV_OPT_CLOSE_ON_FREE.  unregisterClientFd is not called.  (The second
\* bufferevent_free may instead abort the process: Crash.)
RemoveClient(w, fd) ==
    /\ up
    /\ fd \in clients[w]
    /\ sock[fd] \in Closers
    /\ clients' = DropClient(w, fd)
    /\ sock' = [sock EXCEPT ![fd] = NoConn]
    /\ UNCHANGED <<up, crashes, accepted, nextWorkerIndex, main, pipe, fdToWorker>>

\* The process dies (Ctrl+C, a signal, an abort): everything in memory and
\* every open socket is gone.
Crash ==
    /\ up
    /\ crashes < MaxCrashes
    /\ crashes' = crashes + 1
    /\ up' = FALSE
    /\ sock' = [fd \in Fds |-> NoConn]
    /\ nextWorkerIndex' = 0
    /\ main' = IdleMain
    /\ pipe' = [w \in Workers |-> <<>>]
    /\ clients' = [w \in Workers |-> {}]
    /\ fdToWorker' = [fd \in Fds |-> NoWorker]
    /\ UNCHANGED accepted

\* Server::Server and Server::start on a fresh process.
Start ==
    /\ ~up
    /\ up' = TRUE
    /\ UNCHANGED <<crashes, accepted, sock, nextWorkerIndex, main, pipe, clients,
                   fdToWorker>>

ConnNext ==
    \/ \E c \in Conns : Accept(c)
    \/ RegisterFd
    \/ \E w \in Workers : HandleAdd(w) \/ RefuseAdd(w) \/ HandleSend(w)
    \/ \E w \in Workers, fd \in Fds, msg \in Msgs : NotifySendMessage(w, fd, msg)
    \/ \E w \in Workers, fd \in Fds : RemoveClient(w, fd)
    \/ Crash
    \/ Start

ConnSpec == ConnInit /\ [][ConnNext]_connVars
-----------------------------------------------------------------------------
(* Properties. *)

\* A 'c' record for fd is the i-th notification waiting for worker w.
Pending(fd, w, i) ==
    /\ i \in 1 .. Len(pipe[w])
    /\ pipe[w][i].type = "c"
    /\ pipe[w][i].fd = fd

\* Worker w owns fd, or will once it has drained its socketpair.
Claims(fd, w) == fd \in clients[w] \/ \E i \in 1 .. Len(pipe[w]) : Pending(fd, w, i)

OneOwner  == \A v, w \in Workers : \A fd \in clients[v] \cap clients[w] : v = w
OwnedOpen == \A w \in Workers : \A fd \in clients[w] : sock[fd] # NoConn

AnnouncedOnce ==
    \A w \in Workers, fd \in Fds : \A i \in 1 .. Len(pipe[w]) : Pending(fd, w, i) =>
      /\ sock[fd] # NoConn
      /\ \A v \in Workers : fd \notin clients[v]
      /\ \A v \in Workers : \A j \in 1 .. Len(pipe[v]) : Pending(fd, v, j) => v = w /\ j = i

OneDescriptor == \A e, fd \in Fds : sock[e] = sock[fd] /\ sock[fd] # NoConn => e = fd

\* The clients_ maps of different workers never share a descriptor, an owned or
\* announced descriptor is open, it is announced once and not yet owned, and two
\* descriptors never name one connection: libevent would otherwise serve one
\* socket from two threads.  Descriptors are reused, so this rests on the order
\* in which eventCallback forgets and closes them.
Ownership == OneOwner /\ OwnedOpen /\ AnnouncedOnce /\ OneDescriptor

\* A descriptor that a worker has or is about to have is routed to that worker,
\* except while dispatchClient is between addClient and fdToWorker_, and then
\* it is about to be.  Without it getWorkerForFd would send to a stranger.
Routing ==
    \A fd \in Fds, w \in Workers :
        Claims(fd, w) => IF main.fd = fd THEN main.worker = w
                                         ELSE fdToWorker[fd] = w

\* A connection appears in the socket table only by being accepted.
OpenAccepted == \A fd \in Fds : sock[fd] \in accepted \cup {NoConn}

\* The inductive strengthening of the invariants above.
ConnInv == ConnTypeOK /\ OpenAccepted /\ Ownership /\ Routing
=============================================================================
