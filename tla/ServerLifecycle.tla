-------------------------- MODULE ServerLifecycle --------------------------
(***************************************************************************)
(* How the server comes up and goes down (server/server.cpp,               *)
(* server/main.cpp): Server::start and stop on the main thread,            *)
(* WorkerThread::start, stop and threadMain, and the accept error that is  *)
(* the only caller of Server::stop while the server runs.  The threads     *)
(* talk through the byte streams of module NotifyPipe.                     *)
(***************************************************************************)
EXTENDS NotifyPipe, SequencesExt

CONSTANT MaxNotes    \* bound: messages forwarded between workers

ASSUME LifecycleAssumption ==
    /\ Faults \subseteq {"server", "socketpair", "event_base", "bufferevent"}
    /\ MaxNotes \in Nat

VARIABLES
    main,            \* control point of the main thread
    idx,             \* the worker its loop over workers_ has come to
    nextWorkerIndex, \* round-robin cursor of dispatchClient
    fdToWorker,      \* accepted descriptor -> worker
    thread,          \* control point of each worker's thread
    base,            \* each worker's base_ with its notify event
    sendFd,          \* is notifySendFd_ open
    letter,          \* what each worker's thread is about to send to another worker
    notes            \* messages forwarded so far

threadVars == <<main, idx, nextWorkerIndex, fdToWorker, thread, base, sendFd, letter, notes>>
vars       == <<pipeVars, threadVars>>

NoWorker == -1

\* The locals of notifySendMessage: the worker it is called on, the record, and the
\* control point to which the calling thread returns.
NoLetter == [to |-> NoWorker, record |-> <<>>, then |-> "none"]

\* new: in Server::start before the listener; starting: in its loop over workers;
\* dispatching: in event_base_dispatch; stopping, joining: in Server::stop's loop;
\* freed: back in the dispatch of an event_base that stop has freed; sleeping: in the
\* loop of main.  In the last three the process is gone.
MainStates == {"new", "starting", "dispatching", "stopping", "joining", "freed",
               "sleeping", "exited", "terminated", "crashed"}

\* none: no std::thread; started: before event_base_new; testing: at the condition of
\* threadMain's loop; polling, notified: in a pass of event_base_loop, before and after
\* its recv; sending: in notifySendMessage between the test of notifySendFd_ and send;
\* hung: in a handler that waits for itself (handlePrivateChat); ended: returned, not
\* joined.
ThreadStates == {"none", "started", "testing", "polling", "notified", "sending", "hung",
                 "ended", "joined"}

Inside   == {"testing", "polling", "notified", "sending", "hung"}
Joinable == Inside \cup {"started", "ended"}

LifecycleTypeOK ==
    /\ pipe \in [Workers -> Seq(Bytes)]
    /\ buf \in [Workers -> Seq(Bytes)]
    /\ running \in [Workers -> BOOLEAN]
    /\ clients \in [Workers -> SUBSET Bytes]
    /\ refused \in [Workers -> SUBSET Bytes]
    /\ cut \in BOOLEAN
    /\ main \in MainStates
    /\ idx \in 0 .. NumWorkers
    /\ nextWorkerIndex \in Workers
    /\ fdToWorker \in [Fds -> Workers \cup {NoWorker}]
    /\ thread \in [Workers -> ThreadStates]
    /\ base \in [Workers -> {"null", "live", "freed"}]
    /\ sendFd \in [Workers -> BOOLEAN]
    /\ letter \in [Workers -> [to : Workers \cup {NoWorker}, record : Seq(Bytes),
                                then : ThreadStates]]
    /\ notes \in Nat

Init ==
    /\ PipeInit
    /\ main = "new" /\ idx = 0 /\ nextWorkerIndex = 0
    /\ fdToWorker = [fd \in Fds |-> NoWorker]
    /\ thread = [w \in Workers |-> "none"]
    /\ base = [w \in Workers |-> "null"]
    /\ sendFd = [w \in Workers |-> FALSE]
    /\ letter = [w \in Workers |-> NoLetter]
    /\ notes = 0

Alive == main \notin {"exited", "terminated", "crashed"}

Outcomes(what) == IF what \in Faults THEN BOOLEAN ELSE {TRUE}
-----------------------------------------------------------------------------
(* The main thread. *)

\* Database::connect, event_base_new and the listener.  If one fails main returns 1,
\* and ~Server finds a server that never ran.
Listen ==
    /\ main = "new"
    /\ \E done \in Outcomes("server") : main' = IF done THEN "starting" ELSE "exited"
    /\ UNCHANGED <<pipeVars, idx, nextWorkerIndex, fdToWorker, thread, base, sendFd,
                   letter, notes>>

\* WorkerThread::start: without a socketpair there is no thread, and nobody is told.
StartWorker ==
    /\ main = "starting" /\ idx < NumWorkers
    /\ \E done \in Outcomes("socketpair") :
         /\ running' = [running EXCEPT ![idx] = done]
         /\ sendFd' = [sendFd EXCEPT ![idx] = done]
         /\ thread' = [thread EXCEPT ![idx] = IF done THEN "started" ELSE "none"]
    /\ idx' = idx + 1
    /\ UNCHANGED <<pipe, buf, clients, refused, sent, handled, cut, main, nextWorkerIndex,
                   fdToWorker, base, letter, notes>>

Dispatch ==
    /\ main = "starting" /\ idx = NumWorkers
    /\ main' = "dispatching"
    /\ UNCHANGED <<pipeVars, idx, nextWorkerIndex, fdToWorker, thread, base, sendFd,
                   letter, notes>>

\* acceptCallback: the next worker, whatever became of its thread.
Accept(fd) ==
    /\ main = "dispatching"
    /\ fdToWorker[fd] = NoWorker
    /\ IF sendFd[nextWorkerIndex] THEN Write(nextWorkerIndex, AddRecord(fd))
                                  ELSE UNCHANGED <<pipe, sent, cut>>
    /\ fdToWorker' = [fdToWorker EXCEPT ![fd] = nextWorkerIndex]
    /\ nextWorkerIndex' = (nextWorkerIndex + 1) % NumWorkers
    /\ UNCHANGED <<buf, running, clients, refused, handled, main, idx, thread, base, sendFd,
                   letter, notes>>

\* acceptErrorCallback (no descriptor is left, for one): stop, within the dispatch.
AcceptError ==
    /\ main = "dispatching"
    /\ main' = "stopping"
    /\ idx' = 0
    /\ UNCHANGED <<pipeVars, nextWorkerIndex, fdToWorker, thread, base, sendFd,
                   letter, notes>>

(* Trusting in the 'q' alone. *)
FlagOnStopKept(w) == running

FlagOnStop(w) == [running EXCEPT ![w] = FALSE]

\* WorkerThread::stop up to the join.
StopWorker ==
    /\ main = "stopping" /\ idx < NumWorkers /\ running[idx]
    /\ running' = FlagOnStop(idx)
    /\ Write(idx, QuitRecord)
    /\ main' = "joining"
    /\ UNCHANGED <<buf, clients, refused, handled, idx, nextWorkerIndex, fdToWorker, thread,
                   base, sendFd, letter, notes>>

\* The early return of WorkerThread::stop.
SkipWorker ==
    /\ main = "stopping" /\ idx < NumWorkers /\ ~ running[idx]
    /\ idx' = idx + 1
    /\ UNCHANGED <<pipeVars, main, nextWorkerIndex, fdToWorker, thread, base, sendFd,
                   letter, notes>>

(* Closing and freeing without the wait, as a detach in place of the join would. *)
JoinWorkerDetached ==
    /\ main = "joining"
    /\ sendFd' = [sendFd EXCEPT ![idx] = FALSE]
    /\ base' = [base EXCEPT ![idx] = IF @ = "live" THEN "freed" ELSE @]
    /\ main' = "stopping"
    /\ idx' = idx + 1
    /\ UNCHANGED <<pipeVars, nextWorkerIndex, fdToWorker, thread, letter, notes>>

\* The join, and what WorkerThread::stop closes and frees after it.
JoinWorker ==
    /\ main = "joining" /\ thread[idx] = "ended"
    /\ thread' = [thread EXCEPT ![idx] = "joined"]
    /\ sendFd' = [sendFd EXCEPT ![idx] = FALSE]
    /\ base' = [base EXCEPT ![idx] = IF @ = "live" THEN "freed" ELSE @]
    /\ main' = "stopping"
    /\ idx' = idx + 1
    /\ UNCHANGED <<pipeVars, nextWorkerIndex, fdToWorker, letter, notes>>

\* workers_.clear() destroys the std::thread objects, and terminates the process if
\* one can still be joined; then the listener, the event_base and the database go.
ClearWorkers ==
    /\ main = "stopping" /\ idx = NumWorkers
    /\ main' = IF \E w \in Workers : thread[w] \in Joinable THEN "terminated" ELSE "freed"
    /\ UNCHANGED <<pipeVars, idx, nextWorkerIndex, fdToWorker, thread, base, sendFd,
                   letter, notes>>

\* The callback returns to a dispatch whose event_base is gone: undefined.  Either the
\* process dies, or the dispatch returns and main sleeps for good.
LeaveDispatch ==
    /\ main = "freed"
    /\ main' \in {"sleeping", "crashed"}
    /\ UNCHANGED <<pipeVars, idx, nextWorkerIndex, fdToWorker, thread, base, sendFd,
                   letter, notes>>
-----------------------------------------------------------------------------
(* A worker's thread: threadMain. *)

Moves(w, from, to) ==
    /\ Alive
    /\ thread[w] = from
    /\ thread' = [thread EXCEPT ![w] = to]

MakeBase(w) ==
    /\ \E done \in Outcomes("event_base") :
         /\ Moves(w, "started", IF done THEN "testing" ELSE "ended")
         /\ base' = [base EXCEPT ![w] = IF done THEN "live" ELSE "null"]
    /\ UNCHANGED <<pipeVars, main, idx, nextWorkerIndex, fdToWorker, sendFd,
                   letter, notes>>

LoopTest(w) ==
    /\ Moves(w, "testing", IF running[w] THEN "polling" ELSE "ended")
    /\ UNCHANGED <<pipeVars, main, idx, nextWorkerIndex, fdToWorker, base, sendFd,
                   letter, notes>>

\* The socketpair is readable: handleNotify receives, and then takes the buffer apart.
Notified(w) ==
    /\ Moves(w, "polling", "notified")
    /\ Recv(w)
    /\ UNCHANGED <<main, idx, nextWorkerIndex, fdToWorker, base, sendFd,
                   letter, notes>>

NotifyTurn(w) ==
    /\ Alive /\ thread[w] = "notified"
    /\ HandleNotify(w)
    /\ UNCHANGED threadVars

PassDone(w) ==
    /\ \/ Moves(w, "notified", "testing")
       \/ Moves(w, "polling", "testing") /\ pipe[w] = <<>>
    /\ buf[w] = <<>>
    /\ UNCHANGED <<pipeVars, main, idx, nextWorkerIndex, fdToWorker, base, sendFd,
                   letter, notes>>

\* Where a pass of the event loop calls the handlers of its clients.
InPass(w) == \/ thread[w] = "polling"
             \/ thread[w] = "notified" /\ buf[w] = <<>>

\* A handler has a message for another worker's client, and notifySendMessage finds
\* that worker's notifySendFd_ open.  (If it does not, nothing changes.)
Forward(w, fd) ==
    LET v == fdToWorker[fd] IN
    /\ InPass(w) /\ clients[w] # {}
    /\ v \notin {w, NoWorker} /\ sendFd[v]
    /\ notes < MaxNotes
    /\ notes' = notes + 1
    /\ \E body \in Bodies :
         letter' = [letter EXCEPT ![w] = [to |-> v, record |-> SendRecord(fd, body),
                                          then |-> thread[w]]]
    /\ Moves(w, thread[w], "sending")
    /\ UNCHANGED <<pipeVars, main, idx, nextWorkerIndex, fdToWorker, base, sendFd>>

\* The send of notifySendMessage: it fails when WorkerThread::stop has closed the
\* socketpair since.
SendNote(w) ==
    LET v == letter[w].to IN
    /\ Moves(w, "sending", letter[w].then)
    /\ IF sendFd[v] THEN Write(v, letter[w].record) ELSE UNCHANGED <<pipe, sent, cut>>
    /\ letter' = [letter EXCEPT ![w] = NoLetter]
    /\ UNCHANGED <<buf, running, clients, refused, handled, main, idx, nextWorkerIndex,
                   fdToWorker, base, sendFd, notes>>

\* A private message to a client of the same worker, which may be its sender.
Hang(w) ==
    /\ InPass(w) /\ clients[w] # {}
    /\ Moves(w, thread[w], "hung")
    /\ UNCHANGED <<pipeVars, main, idx, nextWorkerIndex, fdToWorker, base, sendFd, letter,
                   notes>>

MainStep ==
    \/ Listen \/ StartWorker \/ Dispatch \/ AcceptError
    \/ StopWorker \/ SkipWorker \/ JoinWorker \/ ClearWorkers \/ LeaveDispatch
    \/ \E fd \in Fds : Accept(fd)

LoopStep(w) == \/ MakeBase(w) \/ LoopTest(w) \/ Notified(w) \/ NotifyTurn(w)
               \/ SendNote(w) \/ PassDone(w)

Next ==
    \/ MainStep
    \/ \E w \in Workers : LoopStep(w) \/ Hang(w)
    \/ \E w \in Workers, fd \in Fds : Forward(w, fd)

Spec == Init /\ [][Next]_vars

\* Threads are scheduled; accepts, accept errors and clients' messages need not come.
FairSpec ==
    /\ Spec
    /\ WF_vars(StopWorker \/ SkipWorker \/ JoinWorker \/ ClearWorkers)
    /\ \A w \in Workers : WF_vars(LoopStep(w))
-----------------------------------------------------------------------------
(* Properties. *)

\* What a worker's thread works with outlives it: while the thread is in threadMain's
\* loop its event_base is there and its own socketpair open, and the socketpair of a
\* fellow worker, to which it has decided to send, is closed only after Server::stop has
\* joined that fellow (server.cpp:146, 151), never under a worker that still runs.
OwnOutlives    == \A w \in Workers : thread[w] \in Inside => base[w] = "live" /\ sendFd[w]
FellowOutlives == \A w \in Workers : thread[w] = "sending" =>
                    sendFd[letter[w].to] \/ thread[letter[w].to] = "joined"
OutlivesThread == OwnOutlives /\ FellowOutlives

\* The inductive strengthening of OutlivesThread: workers are started one after the
\* other, each with its socketpair before its thread, and joined before they are freed;
\* a letter is addressed to one of them, and its sender goes back to where it was.
Unstarted == main \in {"new", "starting"} =>
               \A w \in Workers : w >= idx => thread[w] = "none" /\ ~ sendFd[w]
PairFirst == \A w \in Workers : thread[w] = "started" => sendFd[w]
JoinsOne  == main = "joining" => idx \in Workers
Addressed == \A w \in Workers : thread[w] = "sending" =>
               /\ letter[w].to \in Workers
               /\ letter[w].record \in {SendRecord(fd, body) : fd \in Fds, body \in Bodies}
               /\ letter[w].then \in {"polling", "notified"}

LifecycleInv == LifecycleTypeOK /\ OutlivesThread /\ Unstarted /\ PairFirst /\ JoinsOne
                /\ Addressed

\* As long as no record was cut in two, a worker takes from its socketpair the records
\* that were written to it, in their order, whatever bytes their bodies hold.
PipeInOrder == ~ cut => \A w \in Workers : IsPrefix(handled[w], sent[w])

\* A worker that has an event_base leaves its loop only when Server::stop told it to,
\* so that stop joins it and the destructor of its std::thread finds nothing to
\* terminate the process for.  A record cut in two can leave a 'q' that nobody sent.
StopsOnlyAsked ==
    ~ cut => /\ main # "terminated"
             /\ main \in {"starting", "dispatching"} =>
                  \A w \in Workers : thread[w] = "ended" => base[w] = "null"

\* Server::stop comes to its end, also when a socketpair is full and the 'q' is lost,
\* unless a worker is caught in a handler that waits for itself.
StopReturns ==
    main = "stopping" ~> \/ main \notin {"stopping", "joining"}
                         \/ \E w \in Workers : thread[w] = "hung"

\* A connection whose record was written whole gets its bufferevent, or is closed because
\* there is none to be had, as long as the worker runs and no record is cut in two: none
\* is forgotten in the socketpair.
Excused(w) == cut \/ ~ running[w] \/ thread[w] \in {"hung", "ended"}

AnnouncedServed ==
    \A w \in Workers, fd \in Fds :
        AddRecord(fd) \in Range(sent[w]) ~> fd \in clients[w] \/ fd \in refused[w] \/ Excused(w)
=============================================================================
