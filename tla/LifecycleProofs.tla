-------------------------- MODULE LifecycleProofs --------------------------
(***************************************************************************)
(* Proofs about module ServerLifecycle: for any number of workers, any     *)
(* descriptors and bodies, any sizes of the socketpairs and of the read    *)
(* buffer, and whatever fails, no thread outlives what it uses; and as     *)
(* long as no record is cut in two, a worker takes the records written to  *)
(* it in their order, and leaves its loop only when it is told to.         *)
(***************************************************************************)
EXTENDS ServerLifecycle, StreamProofs

\* Workers are numbered from 0 and NoWorker is none of them.
LEMMA WorkerNumbers ==
    /\ NumWorkers \in Nat \ {0} /\ Workers = 0 .. NumWorkers - 1
    /\ 0 \in Workers /\ NoWorker \notin Workers
BY PipeAssumption DEF Workers, NoWorker

\* The records are sequences of bytes, none of them empty.
LEMMA RecordTypes ==
    /\ QuitRecord \in Seq(Bytes)
    /\ \A fd \in Fds : AddRecord(fd) \in Seq(Bytes)
    /\ \A fd \in Fds : \A body \in Bodies : SendRecord(fd, body) \in Seq(Bytes)
<1>1. C \in Bytes /\ S \in Bytes /\ Q \in Bytes
  BY DEF C, S, Q, Bytes
<1>2. QuitRecord \in Seq(Bytes)
  BY <1>1 DEF QuitRecord
<1>3. ASSUME NEW fd \in Fds PROVE AddRecord(fd) \in Seq(Bytes)
  BY <1>1, PipeAssumption DEF AddRecord
<1>4. ASSUME NEW fd \in Fds, NEW body \in Bodies PROVE SendRecord(fd, body) \in Seq(Bytes)
  <2>1. <<S, fd, Len(body)>> \in Seq(Bytes) /\ body \in Seq(Bytes)
    BY <1>1, PipeAssumption
  <2>. QED
    BY <2>1 DEF SendRecord
<1>. QED
  BY <1>2, <1>3, <1>4

\* A part of a sequence is a sequence.
LEMMA PartTypes ==
    ASSUME NEW s \in Seq(Bytes), NEW m \in Nat, NEW n \in Nat, m >= 1, n <= Len(s)
    PROVE  SubSeq(s, m, n) \in Seq(Bytes)
OBVIOUS

\* A send leaves bytes on the socketpair and touches no other one.
LEMMA WriteTypes ==
    ASSUME NEW w \in Workers, NEW record \in Seq(Bytes),
           pipe \in [Workers -> Seq(Bytes)], cut \in BOOLEAN,
           Write(w, record)
    PROVE  pipe' \in [Workers -> Seq(Bytes)] /\ cut' \in BOOLEAN
<1>1. CASE pipe' = [pipe EXCEPT ![w] = @ \o record] /\ cut' = cut
  <2>1. pipe[w] \o record \in Seq(Bytes)
    OBVIOUS
  <2>. QED
    BY <1>1, <2>1
<1>2. CASE \E n \in 0 .. Len(record) - 1 :
             /\ pipe' = [pipe EXCEPT ![w] = @ \o SubSeq(record, 1, n)]
             /\ cut' = (cut \/ n > 0)
  <2>1. PICK n \in 0 .. Len(record) - 1 :
          /\ pipe' = [pipe EXCEPT ![w] = @ \o SubSeq(record, 1, n)]
          /\ cut' = (cut \/ n > 0)
    BY <1>2, Zenon
  <2>2. SubSeq(record, 1, n) \in Seq(Bytes)
    BY PartTypes
  <2>3. pipe[w] \o SubSeq(record, 1, n) \in Seq(Bytes)
    BY <2>2
  <2>4. pipe' \in [Workers -> Seq(Bytes)]
    BY <2>1, <2>3
  <2>5. cut' \in BOOLEAN
    BY <2>1, Zenon
  <2>. QED
    BY <2>4, <2>5
<1>. QED
  BY <1>1, <1>2, Zenon DEF Write
-----------------------------------------------------------------------------
(* What LifecycleInv says of the threads does not depend on the streams. *)

Threads == OutlivesThread /\ Unstarted /\ PairFirst /\ JoinsOne /\ Addressed

LEMMA ThreadsKept ==
    ASSUME LifecycleInv, UNCHANGED <<main, idx, thread, base, sendFd, letter>>
    PROVE  Threads'
BY DEF LifecycleInv, Threads, OutlivesThread, OwnOutlives, FellowOutlives, Unstarted,
       PairFirst, JoinsOne, Addressed

\* A thread that goes from one place to another inside threadMain's loop, or out of it,
\* leaves everything else as it was.
LEMMA MoveKeeps ==
    ASSUME NEW w \in Workers, NEW to \in (Inside \ {"sending"}) \cup {"ended"}, LifecycleInv,
           thread[w] \in Inside,
           thread' = [thread EXCEPT ![w] = to],
           UNCHANGED <<main, idx, base, sendFd, letter>>
    PROVE  Threads' /\ thread' \in [Workers -> ThreadStates]
<1>1. /\ thread \in [Workers -> ThreadStates]
      /\ OwnOutlives /\ FellowOutlives /\ Unstarted /\ PairFirst /\ JoinsOne /\ Addressed
  BY DEF LifecycleInv, LifecycleTypeOK, OutlivesThread
<1>2. to \in ThreadStates
  BY DEF Inside, ThreadStates
<1>3. /\ thread' \in [Workers -> ThreadStates]
      /\ thread'[w] = to
      /\ \A v \in Workers \ {w} : thread'[v] = thread[v]
  BY <1>1, <1>2
<1>4. Addressed'
  BY <1>1, <1>3 DEF Addressed
<1>5. OutlivesThread'
  <2>1. OwnOutlives'
    BY <1>1, <1>3 DEF OwnOutlives
  <2>2. ASSUME NEW v \in Workers, thread'[v] = "sending"
        PROVE  sendFd'[letter'[v].to] \/ thread'[letter'[v].to] = "joined"
    <3>1. thread[v] = "sending" /\ letter[v].to \in Workers
      BY <1>1, <1>3, <2>2 DEF Addressed
    <3>2. sendFd[letter[v].to] \/ thread[letter[v].to] = "joined"
      BY <1>1, <3>1 DEF FellowOutlives
    <3>3. thread[w] # "joined"
      BY DEF Inside
    <3>. QED
      BY <1>3, <3>1, <3>2, <3>3
  <2>. QED
    BY <2>1, <2>2 DEF OutlivesThread, FellowOutlives
<1>6. Unstarted'
  <2>. SUFFICES ASSUME main \in {"new", "starting"}, NEW v \in Workers, v >= idx
                PROVE  thread'[v] = "none" /\ ~ sendFd'[v]
    BY DEF Unstarted
  <2>1. thread[v] = "none" /\ ~ sendFd[v]
    BY <1>1 DEF Unstarted
  <2>2. v # w
    BY <2>1 DEF Inside
  <2>. QED
    BY <1>3, <2>1, <2>2
<1>7. PairFirst'
  <2>1. to # "started"
    BY DEF Inside
  <2>. QED
    BY <1>1, <1>3, <2>1 DEF PairFirst
<1>8. JoinsOne'
  BY <1>1 DEF JoinsOne
<1>. QED
  BY <1>3, <1>4, <1>5, <1>6, <1>7, <1>8 DEF Threads
-----------------------------------------------------------------------------
(* The streams keep their types. *)

StreamTypes ==
    /\ pipe \in [Workers -> Seq(Bytes)]
    /\ buf \in [Workers -> Seq(Bytes)]
    /\ running \in [Workers -> BOOLEAN]
    /\ clients \in [Workers -> SUBSET Bytes]
    /\ refused \in [Workers -> SUBSET Bytes]
    /\ cut \in BOOLEAN

\* What handleNotify receives are the first bytes on the socketpair.
LEMMA RecvTypes ==
    ASSUME NEW w \in Workers, StreamTypes, Recv(w)
    PROVE  StreamTypes'
<1>. DEFINE n == Received(w)
<1>1. n \in Nat /\ n <= Len(pipe[w]) /\ 1 <= n
  <2>1. pipe[w] \in Seq(Bytes) /\ pipe[w] # <<>>
    BY DEF Recv, StreamTypes
  <2>2. Len(pipe[w]) \in Nat /\ Len(pipe[w]) >= 1
    BY <2>1
  <2>. QED
    BY <2>2, PipeAssumption DEF Received
<1>. HIDE DEF n
<1>2. /\ buf' = [buf EXCEPT ![w] = SubSeq(pipe[w], 1, n)]
      /\ pipe' = [pipe EXCEPT ![w] = SubSeq(pipe[w], n + 1, Len(pipe[w]))]
      /\ UNCHANGED <<running, clients, refused>>
  BY DEF Recv, n
<1>3. cut' = (cut \/ ~ EndsRecord(w, n))
  BY DEF Recv, n
<1>4. cut' \in BOOLEAN
  BY <1>3, Zenon
<1>5. pipe[w] \in Seq(Bytes)
  BY DEF StreamTypes
<1>6. SubSeq(pipe[w], 1, n) \in Seq(Bytes)
  BY <1>1, <1>5, PartTypes
<1>7. SubSeq(pipe[w], n + 1, Len(pipe[w])) \in Seq(Bytes)
  BY <1>1, <1>5, PartTypes
<1>. QED
  BY <1>2, <1>4, <1>6, <1>7 DEF StreamTypes

\* A turn of its loop leaves a rest of the buffer, and takes a descriptor from it.
LEMMA TurnTypes ==
    ASSUME NEW w \in Workers, StreamTypes, HandleNotify(w)
    PROVE  StreamTypes'
<1>1. buf[w] \in Seq(Bytes) /\ Len(buf[w]) \in Nat
  BY DEF StreamTypes
<1>2. ASSUME NEW n \in Nat
      PROVE  SubSeq(buf[w], n + 1, Len(buf[w])) \in Seq(Bytes)
  BY <1>1, PartTypes
<1>3. CASE TakeQuit(w)
  <2>1. /\ buf' = [buf EXCEPT ![w] = <<>>] /\ running' = [running EXCEPT ![w] = FALSE]
        /\ UNCHANGED <<pipe, clients, refused, cut>>
    BY <1>3 DEF TakeQuit
  <2>. QED
    BY <2>1 DEF StreamTypes
<1>4. CASE TakeAdd(w)
  <2>1. /\ buf' = [buf EXCEPT ![w] = SubSeq(buf[w], 2 + 1, Len(buf[w]))]
        /\ \/ /\ clients' = [clients EXCEPT ![w] = clients[w] \cup {buf[w][2]}]
              /\ UNCHANGED refused
           \/ /\ refused' = [refused EXCEPT ![w] = refused[w] \cup {buf[w][2]}]
              /\ UNCHANGED clients
        /\ UNCHANGED <<pipe, running, cut>>
    BY <1>4 DEF TakeAdd, Take
  <2>2. buf[w][2] \in Bytes
    BY <1>1, <1>4 DEF TakeAdd, WholeAdd
  <2>3. SubSeq(buf[w], 2 + 1, Len(buf[w])) \in Seq(Bytes)
    BY <1>2
  <2>4. /\ clients[w] \cup {buf[w][2]} \in SUBSET Bytes
        /\ refused[w] \cup {buf[w][2]} \in SUBSET Bytes
    BY <2>2 DEF StreamTypes
  <2>. QED
    BY <2>1, <2>3, <2>4 DEF StreamTypes
<1>5. CASE TakeSend(w)
  <2>. DEFINE n == SendLength(w)
  <2>1. n \in Nat
    <3>1. buf[w][3] \in Bytes
      BY <1>1, <1>5 DEF TakeSend, SendHeader
    <3>. QED
      BY <3>1 DEF SendLength, Bytes
  <2>2. /\ buf' = [buf EXCEPT ![w] = SubSeq(buf[w], n + 1, Len(buf[w]))]
        /\ UNCHANGED <<pipe, running, clients, refused, cut>>
    BY <1>5 DEF TakeSend, Take
  <2>. HIDE DEF n
  <2>3. SubSeq(buf[w], n + 1, Len(buf[w])) \in Seq(Bytes)
    BY <1>2, <2>1
  <2>. QED
    BY <2>2, <2>3 DEF StreamTypes
<1>6. CASE GiveUp(w) \/ SkipByte(w)
  <2>1. PICK n \in Nat : /\ buf' = [buf EXCEPT ![w] = SubSeq(buf[w], n + 1, Len(buf[w]))]
                         /\ UNCHANGED <<pipe, running, clients, refused, cut>>
    BY <1>1, <1>6 DEF GiveUp, SkipByte, Lose
  <2>2. SubSeq(buf[w], n + 1, Len(buf[w])) \in Seq(Bytes)
    BY <1>2
  <2>. QED
    BY <2>1, <2>2 DEF StreamTypes
<1>. QED
  BY <1>3, <1>4, <1>5, <1>6 DEF HandleNotify

LEMMA WriteKeeps ==
    ASSUME NEW w \in Workers, NEW record \in Seq(Bytes), StreamTypes, Write(w, record),
           UNCHANGED <<buf, running, clients, refused>>
    PROVE  StreamTypes'
BY WriteTypes DEF StreamTypes
-----------------------------------------------------------------------------
(* The steps of the main thread. *)

\* The parts of the invariant, as the steps below use them.
ThreadTypes ==
    /\ main \in MainStates
    /\ idx \in 0 .. NumWorkers
    /\ nextWorkerIndex \in Workers
    /\ fdToWorker \in [Fds -> Workers \cup {NoWorker}]
    /\ thread \in [Workers -> ThreadStates]
    /\ base \in [Workers -> {"null", "live", "freed"}]
    /\ sendFd \in [Workers -> BOOLEAN]
    /\ letter \in [Workers -> [to : Workers \cup {NoWorker}, record : Seq(Bytes),
                                then : ThreadStates]]
    /\ notes \in Nat

LEMMA Parts == LifecycleInv <=> StreamTypes /\ ThreadTypes /\ Threads
BY DEF LifecycleInv, LifecycleTypeOK, StreamTypes, ThreadTypes, Threads

LEMMA PartsNext == LifecycleInv' <=> StreamTypes' /\ ThreadTypes' /\ Threads'
BY DEF LifecycleInv, LifecycleTypeOK, StreamTypes, ThreadTypes, Threads

LEMMA StreamsKept ==
    ASSUME StreamTypes, UNCHANGED pipeVars PROVE StreamTypes'
BY DEF StreamTypes, pipeVars

LEMMA InitInv == Init => LifecycleInv
<1>. SUFFICES ASSUME Init PROVE LifecycleInv
  OBVIOUS
<1>1. StreamTypes
  <2>1. <<>> \in Seq(Bytes) /\ {} \in SUBSET Bytes
    OBVIOUS
  <2>. QED
    BY <2>1 DEF Init, PipeInit, StreamTypes
<1>2. ThreadTypes
  <2>1. NoLetter \in [to : Workers \cup {NoWorker}, record : Seq(Bytes), then : ThreadStates]
    BY DEF NoLetter, ThreadStates
  <2>. QED
    BY <2>1, WorkerNumbers, PipeAssumption DEF Init, ThreadTypes, MainStates, ThreadStates
<1>3. Threads
  BY DEF Init, Threads, OutlivesThread, OwnOutlives, FellowOutlives, Unstarted, PairFirst,
         JoinsOne, Addressed, Inside
<1>. QED
  BY <1>1, <1>2, <1>3, Parts

\* A worker's thread comes after its socketpair, and the workers one after the other.
LEMMA StartWorkerInv == LifecycleInv /\ StartWorker => LifecycleInv'
<1>. SUFFICES ASSUME LifecycleInv, StartWorker PROVE LifecycleInv'
  OBVIOUS
<1>0. StreamTypes /\ ThreadTypes /\ Threads
  BY Parts
<1>1. PICK done \in BOOLEAN :
        /\ running' = [running EXCEPT ![idx] = done]
        /\ sendFd' = [sendFd EXCEPT ![idx] = done]
        /\ thread' = [thread EXCEPT ![idx] = IF done THEN "started" ELSE "none"]
  <2>1. \E done \in Outcomes("socketpair") :
          /\ running' = [running EXCEPT ![idx] = done]
          /\ sendFd' = [sendFd EXCEPT ![idx] = done]
          /\ thread' = [thread EXCEPT ![idx] = IF done THEN "started" ELSE "none"]
    BY Zenon DEF StartWorker
  <2>2. Outcomes("socketpair") \subseteq BOOLEAN
    BY DEF Outcomes
  <2>. QED
    BY <2>1, <2>2, Zenon
<1>2. main = "starting" /\ idx \in Workers /\ idx' = idx + 1
  BY <1>0, WorkerNumbers DEF StartWorker, ThreadTypes
<1>3. /\ UNCHANGED <<pipe, buf, clients, refused, cut>>
      /\ UNCHANGED <<main, nextWorkerIndex, fdToWorker, base, letter, notes>>
  BY DEF StartWorker
<1>4. StreamTypes'
  BY <1>0, <1>1, <1>3 DEF StreamTypes
<1>5. ThreadTypes'
  <2>1. idx' \in 0 .. NumWorkers
    BY <1>2, WorkerNumbers
  <2>2. thread' \in [Workers -> ThreadStates]
    BY <1>0, <1>1 DEF ThreadTypes, ThreadStates
  <2>3. sendFd' \in [Workers -> BOOLEAN]
    BY <1>0, <1>1 DEF ThreadTypes
  <2>. QED
    BY <1>0, <1>3, <2>1, <2>2, <2>3 DEF ThreadTypes
<1>6. /\ thread[idx] = "none" /\ ~ sendFd[idx]
      /\ \A w \in Workers : w >= idx => thread[w] = "none" /\ ~ sendFd[w]
  <2>1. \A w \in Workers : w >= idx => thread[w] = "none" /\ ~ sendFd[w]
    BY <1>0, <1>2 DEF Threads, Unstarted
  <2>2. idx >= idx
    BY <1>2, WorkerNumbers
  <2>. QED
    BY <1>2, <2>1, <2>2
<1>7. /\ thread'[idx] \in {"started", "none"}
      /\ thread'[idx] = "started" => sendFd'[idx]
      /\ \A w \in Workers \ {idx} : thread'[w] = thread[w] /\ sendFd'[w] = sendFd[w]
  BY <1>0, <1>1, <1>2 DEF ThreadTypes
<1>8. OutlivesThread' /\ Addressed'
  <2>1. OwnOutlives'
    BY <1>0, <1>2, <1>3, <1>7 DEF Threads, OutlivesThread, OwnOutlives, Inside
  <2>2. ASSUME NEW w \in Workers, thread'[w] = "sending"
        PROVE  /\ thread[w] = "sending" /\ letter'[w] = letter[w]
               /\ letter[w].to \in Workers \ {idx}
               /\ sendFd[letter[w].to] \/ thread[letter[w].to] = "joined"
    <3>1. w # idx /\ thread[w] = "sending"
      BY <1>7, <2>2
    <3>2. sendFd[letter[w].to] \/ thread[letter[w].to] = "joined"
      BY <1>0, <3>1 DEF Threads, OutlivesThread, FellowOutlives
    <3>3. letter[w].to \in Workers
      BY <1>0, <3>1 DEF Threads, Addressed
    <3>. QED
      BY <1>3, <1>6, <3>1, <3>2, <3>3
  <2>3. FellowOutlives'
    BY <1>7, <2>2 DEF FellowOutlives
  <2>4. Addressed'
    BY <1>0, <2>2 DEF Threads, Addressed
  <2>. QED
    BY <2>1, <2>3, <2>4 DEF OutlivesThread
<1>9. Unstarted'
  <2>. SUFFICES ASSUME NEW w \in Workers, w >= idx + 1
                PROVE  thread'[w] = "none" /\ ~ sendFd'[w]
    BY <1>2 DEF Unstarted
  <2>1. w # idx /\ w >= idx
    BY <1>2, WorkerNumbers
  <2>. QED
    BY <1>6, <1>7, <2>1
<1>10. PairFirst'
  BY <1>0, <1>2, <1>7 DEF Threads, PairFirst
<1>11. JoinsOne'
  BY <1>2, <1>3 DEF JoinsOne
<1>. QED
  BY <1>4, <1>5, <1>8, <1>9, <1>10, <1>11, PartsNext DEF Threads

\* The steps that only move the main thread on.
LEMMA MainMovesInv ==
    LifecycleInv /\ (Listen \/ Dispatch \/ AcceptError \/ SkipWorker \/ LeaveDispatch)
        => LifecycleInv'
<1>. SUFFICES ASSUME LifecycleInv,
                     Listen \/ Dispatch \/ AcceptError \/ SkipWorker \/ LeaveDispatch
              PROVE  LifecycleInv'
  OBVIOUS
<1>0. StreamTypes /\ ThreadTypes /\ Threads
  BY Parts
<1>1. UNCHANGED <<pipeVars, nextWorkerIndex, fdToWorker, thread, base, sendFd, letter, notes>>
  BY DEF Listen, Dispatch, AcceptError, SkipWorker, LeaveDispatch
<1>2. /\ main' \in MainStates /\ idx' \in 0 .. NumWorkers
      /\ main' \in {"new", "starting"} => main \in {"new", "starting"} /\ idx' = idx
      /\ main' # "joining"
  <2>1. CASE Listen
    BY <1>0, <2>1 DEF Listen, ThreadTypes, MainStates
  <2>2. CASE Dispatch
    BY <1>0, <2>2 DEF Dispatch, ThreadTypes, MainStates
  <2>3. CASE AcceptError
    BY <1>0, <2>3, WorkerNumbers DEF AcceptError, ThreadTypes, MainStates
  <2>4. CASE SkipWorker
    BY <1>0, <2>4, WorkerNumbers DEF SkipWorker, ThreadTypes, MainStates
  <2>5. CASE LeaveDispatch
    BY <1>0, <2>5 DEF LeaveDispatch, ThreadTypes, MainStates
  <2>. QED
    BY <2>1, <2>2, <2>3, <2>4, <2>5
<1>3. StreamTypes'
  BY <1>0, <1>1, StreamsKept
<1>4. ThreadTypes'
  BY <1>0, <1>1, <1>2 DEF ThreadTypes
<1>5. Threads'
  BY <1>0, <1>1, <1>2 DEF Threads, OutlivesThread, OwnOutlives, FellowOutlives, Unstarted,
                          PairFirst, JoinsOne, Addressed
<1>. QED
  BY <1>3, <1>4, <1>5, PartsNext

\* An accepted connection is announced; no thread is touched.
LEMMA AcceptInv ==
    ASSUME LifecycleInv, NEW fd \in Fds, Accept(fd)
    PROVE  LifecycleInv'
<1>0. StreamTypes /\ ThreadTypes /\ Threads
  BY Parts
<1>1. /\ UNCHANGED <<buf, running, clients, refused, main, idx, thread, base, sendFd, letter,
                      notes>>
      /\ fdToWorker' = [fdToWorker EXCEPT ![fd] = nextWorkerIndex]
      /\ nextWorkerIndex' = (nextWorkerIndex + 1) % NumWorkers
  BY DEF Accept
<1>2. Write(nextWorkerIndex, AddRecord(fd)) \/ UNCHANGED <<pipe, cut>>
  BY Zenon DEF Accept
<1>3. StreamTypes'
  <2>1. CASE Write(nextWorkerIndex, AddRecord(fd))
    BY <1>0, <1>1, <2>1, RecordTypes, WriteKeeps DEF ThreadTypes
  <2>2. CASE UNCHANGED <<pipe, cut>>
    BY <1>0, <1>1, <2>2 DEF StreamTypes
  <2>. QED
    BY <1>2, <2>1, <2>2
<1>4. nextWorkerIndex' \in Workers
  BY <1>0, <1>1, WorkerNumbers DEF ThreadTypes
<1>5. ThreadTypes'
  BY <1>0, <1>1, <1>4 DEF ThreadTypes
<1>6. Threads'
  BY <1>1, ThreadsKept
<1>. QED
  BY <1>3, <1>5, <1>6, PartsNext

\* WorkerThread::stop before its join; it is about a worker that the loop has reached.
LEMMA StopWorkerInv == LifecycleInv /\ StopWorker => LifecycleInv'
<1>. SUFFICES ASSUME LifecycleInv, StopWorker PROVE LifecycleInv'
  OBVIOUS
<1>0. StreamTypes /\ ThreadTypes /\ Threads
  BY Parts
<1>1. /\ main = "stopping" /\ main' = "joining"
      /\ idx \in Workers
      /\ running' = [running EXCEPT ![idx] = FALSE]
      /\ Write(idx, QuitRecord)
      /\ UNCHANGED <<buf, clients, refused, idx, nextWorkerIndex, fdToWorker, thread, base,
                     sendFd, letter, notes>>
  BY <1>0, WorkerNumbers DEF StopWorker, FlagOnStop, ThreadTypes
<1>2. pipe' \in [Workers -> Seq(Bytes)] /\ cut' \in BOOLEAN
  BY <1>0, <1>1, RecordTypes, WriteTypes DEF StreamTypes
<1>3. StreamTypes'
  BY <1>0, <1>1, <1>2 DEF StreamTypes
<1>4. ThreadTypes'
  BY <1>0, <1>1 DEF ThreadTypes, MainStates
<1>5. Threads'
  BY <1>0, <1>1 DEF Threads, OutlivesThread, OwnOutlives, FellowOutlives, Unstarted,
                    PairFirst, JoinsOne, Addressed
<1>. QED
  BY <1>3, <1>4, <1>5, PartsNext

\* Only after the join are the socketpair closed and the event_base freed.
LEMMA JoinWorkerInv == LifecycleInv /\ JoinWorker => LifecycleInv'
<1>. SUFFICES ASSUME LifecycleInv, JoinWorker PROVE LifecycleInv'
  OBVIOUS
<1>0. StreamTypes /\ ThreadTypes /\ Threads
  BY Parts
<1>1. /\ idx \in Workers /\ idx' = idx + 1
      /\ thread[idx] = "ended" /\ thread' = [thread EXCEPT ![idx] = "joined"]
      /\ sendFd' = [sendFd EXCEPT ![idx] = FALSE]
      /\ base' = [base EXCEPT ![idx] = IF base[idx] = "live" THEN "freed" ELSE base[idx]]
      /\ main' = "stopping"
      /\ UNCHANGED <<pipeVars, nextWorkerIndex, fdToWorker, letter, notes>>
  BY <1>0 DEF JoinWorker, Threads, JoinsOne
<1>2. StreamTypes'
  BY <1>0, <1>1, StreamsKept
<1>3. ThreadTypes'
  BY <1>0, <1>1, WorkerNumbers DEF ThreadTypes, MainStates, ThreadStates
<1>4. /\ thread'[idx] = "joined"
      /\ \A w \in Workers \ {idx} : /\ thread'[w] = thread[w]
                                    /\ base'[w] = base[w] /\ sendFd'[w] = sendFd[w]
  BY <1>0, <1>1 DEF ThreadTypes
<1>5. OutlivesThread' /\ Addressed'
  <2>1. \A w \in Workers : thread'[w] = "sending" => thread[w] = "sending" /\ letter[w].to \in Workers
    BY <1>0, <1>4 DEF Threads, Addressed
  <2>2. FellowOutlives'
    BY <1>0, <1>1, <1>4, <2>1 DEF Threads, OutlivesThread, FellowOutlives
  <2>3. OwnOutlives'
    BY <1>0, <1>1, <1>4 DEF Threads, OutlivesThread, OwnOutlives, Inside
  <2>4. Addressed'
    BY <1>0, <1>1, <2>1 DEF Threads, Addressed
  <2>. QED
    BY <2>2, <2>3, <2>4 DEF OutlivesThread
<1>6. PairFirst'
  BY <1>0, <1>4 DEF Threads, PairFirst
<1>7. Unstarted' /\ JoinsOne'
  BY <1>1 DEF Unstarted, JoinsOne
<1>. QED
  BY <1>2, <1>3, <1>5, <1>6, <1>7, PartsNext DEF Threads

\* workers_.clear() happens when all workers have been joined or passed over.
LEMMA ClearWorkersInv == LifecycleInv /\ ClearWorkers => LifecycleInv'
<1>. SUFFICES ASSUME LifecycleInv, ClearWorkers PROVE LifecycleInv'
  OBVIOUS
<1>0. StreamTypes /\ ThreadTypes /\ Threads
  BY Parts
<1>1. /\ main' \in {"terminated", "freed"}
      /\ UNCHANGED <<pipeVars, idx, nextWorkerIndex, fdToWorker, thread, base, sendFd, letter,
                     notes>>
  BY DEF ClearWorkers
<1>2. StreamTypes'
  BY <1>0, <1>1, StreamsKept
<1>3. ThreadTypes'
  BY <1>0, <1>1 DEF ThreadTypes, MainStates
<1>4. Threads'
  BY <1>0, <1>1 DEF Threads, OutlivesThread, OwnOutlives, FellowOutlives, Unstarted,
                    PairFirst, JoinsOne, Addressed
<1>. QED
  BY <1>2, <1>3, <1>4, PartsNext
-----------------------------------------------------------------------------
(* The steps of a worker's thread. *)

LEMMA MakeBaseInv ==
    ASSUME LifecycleInv, NEW w \in Workers, MakeBase(w)
    PROVE  LifecycleInv'
<1>0. StreamTypes /\ ThreadTypes /\ Threads
  BY Parts
<1>1. /\ thread[w] = "started"
      /\ \/ /\ thread' = [thread EXCEPT ![w] = "testing"]
            /\ base' = [base EXCEPT ![w] = "live"]
         \/ /\ thread' = [thread EXCEPT ![w] = "ended"]
            /\ base' = [base EXCEPT ![w] = "null"]
      /\ UNCHANGED <<pipeVars, main, idx, nextWorkerIndex, fdToWorker, sendFd, letter, notes>>
  BY DEF MakeBase, Moves
<1>2. StreamTypes'
  BY <1>0, <1>1, StreamsKept
<1>3. ThreadTypes'
  BY <1>0, <1>1 DEF ThreadTypes, ThreadStates
<1>4. /\ (thread'[w] = "testing" /\ base'[w] = "live") \/ thread'[w] = "ended"
      /\ \A v \in Workers \ {w} : thread'[v] = thread[v] /\ base'[v] = base[v]
  BY <1>0, <1>1 DEF ThreadTypes
<1>5. sendFd[w]
  BY <1>0, <1>1 DEF Threads, PairFirst
<1>6. Addressed'
  BY <1>0, <1>1, <1>4 DEF Threads, Addressed
<1>7. OutlivesThread'
  <2>1. OwnOutlives'
    BY <1>0, <1>1, <1>4, <1>5 DEF Threads, OutlivesThread, OwnOutlives, Inside
  <2>2. FellowOutlives'
    <3>. SUFFICES ASSUME NEW v \in Workers, thread'[v] = "sending"
                  PROVE  sendFd[letter[v].to] \/ thread'[letter[v].to] = "joined"
      BY <1>1 DEF FellowOutlives
    <3>1. thread[v] = "sending" /\ letter[v].to \in Workers
      BY <1>0, <1>4 DEF Threads, Addressed
    <3>2. sendFd[letter[v].to] \/ thread[letter[v].to] = "joined"
      BY <1>0, <3>1 DEF Threads, OutlivesThread, FellowOutlives
    <3>. QED
      BY <1>1, <1>4, <3>1, <3>2
  <2>. QED
    BY <2>1, <2>2 DEF OutlivesThread
<1>8. Unstarted'
  BY <1>0, <1>1, <1>4 DEF Threads, Unstarted
<1>9. PairFirst'
  BY <1>0, <1>1, <1>4 DEF Threads, PairFirst
<1>10. JoinsOne'
  BY <1>0, <1>1 DEF Threads, JoinsOne
<1>. QED
  BY <1>2, <1>3, <1>6, <1>7, <1>8, <1>9, <1>10, PartsNext DEF Threads

\* The other steps move a thread inside threadMain's loop or out of it.
LEMMA LoopMovesInv ==
    ASSUME LifecycleInv, NEW w \in Workers,
           LoopTest(w) \/ Notified(w) \/ PassDone(w) \/ Hang(w)
    PROVE  LifecycleInv'
<1>0. StreamTypes /\ ThreadTypes /\ Threads
  BY Parts
<1>1. PICK to \in (Inside \ {"sending"}) \cup {"ended"} :
        thread[w] \in Inside /\ thread' = [thread EXCEPT ![w] = to]
  <2>1. CASE LoopTest(w)
    BY <2>1 DEF LoopTest, Moves, Inside
  <2>2. CASE Notified(w)
    BY <2>2 DEF Notified, Moves, Inside
  <2>3. CASE PassDone(w)
    BY <2>3 DEF PassDone, Moves, Inside
  <2>4. CASE Hang(w)
    BY <2>4 DEF Hang, InPass, Moves, Inside
  <2>. QED
    BY <2>1, <2>2, <2>3, <2>4
<1>2. /\ UNCHANGED <<main, idx, nextWorkerIndex, fdToWorker, base, sendFd, letter, notes>>
      /\ UNCHANGED pipeVars \/ Recv(w)
  BY DEF LoopTest, Notified, PassDone, Hang
<1>3. StreamTypes'
  BY <1>0, <1>2, StreamsKept, RecvTypes
<1>4. Threads' /\ thread' \in [Workers -> ThreadStates]
  BY <1>1, <1>2, MoveKeeps
<1>5. ThreadTypes'
  BY <1>0, <1>2, <1>4 DEF ThreadTypes
<1>. QED
  BY <1>3, <1>4, <1>5, PartsNext

LEMMA NotifyTurnInv ==
    ASSUME LifecycleInv, NEW w \in Workers, NotifyTurn(w)
    PROVE  LifecycleInv'
<1>0. StreamTypes /\ ThreadTypes /\ Threads
  BY Parts
<1>1. HandleNotify(w)
      /\ UNCHANGED <<main, idx, nextWorkerIndex, fdToWorker, thread, base, sendFd, letter,
                     notes>>
  BY DEF NotifyTurn, threadVars
<1>2. StreamTypes'
  BY <1>0, <1>1, TurnTypes
<1>3. ThreadTypes'
  BY <1>0, <1>1 DEF ThreadTypes
<1>4. Threads'
  BY <1>1, ThreadsKept
<1>. QED
  BY <1>2, <1>3, <1>4, PartsNext

\* A letter is written for a worker whose socketpair is open.
LEMMA ForwardInv ==
    ASSUME LifecycleInv, NEW w \in Workers, NEW fd \in Fds, Forward(w, fd)
    PROVE  LifecycleInv'
<1>. DEFINE v == fdToWorker[fd]
<1>0. StreamTypes /\ ThreadTypes /\ Threads
  BY Parts
<1>1. /\ v \in Workers /\ v # w /\ sendFd[v]
      /\ thread[w] \in {"polling", "notified"} /\ thread' = [thread EXCEPT ![w] = "sending"]
      /\ notes' = notes + 1
      /\ UNCHANGED <<pipeVars, main, idx, nextWorkerIndex, fdToWorker, base, sendFd>>
  BY <1>0 DEF Forward, InPass, Moves, ThreadTypes
<1>2. PICK body \in Bodies :
        letter' = [letter EXCEPT ![w] = [to |-> v, record |-> SendRecord(fd, body),
                                         then |-> thread[w]]]
  BY Zenon DEF Forward
<1>3. SendRecord(fd, body) \in Seq(Bytes)
  BY RecordTypes
<1>. HIDE DEF v
<1>4. [to |-> v, record |-> SendRecord(fd, body), then |-> thread[w]]
        \in [to : Workers \cup {NoWorker}, record : Seq(Bytes), then : ThreadStates]
  BY <1>1, <1>3 DEF ThreadStates
<1>5. /\ letter'[w].to = v /\ letter'[w].then = thread[w] /\ thread'[w] = "sending"
      /\ letter'[w].record \in {SendRecord(e, b) : e \in Fds, b \in Bodies}
      /\ \A u \in Workers \ {w} : letter'[u] = letter[u] /\ thread'[u] = thread[u]
  BY <1>0, <1>1, <1>2 DEF ThreadTypes
<1>6. StreamTypes'
  BY <1>0, <1>1, StreamsKept
<1>7. ThreadTypes'
  <2>1. letter' \in [Workers -> [to : Workers \cup {NoWorker}, record : Seq(Bytes),
                                 then : ThreadStates]]
    BY <1>0, <1>2, <1>4 DEF ThreadTypes
  <2>2. thread' \in [Workers -> ThreadStates]
    BY <1>0, <1>1 DEF ThreadTypes, ThreadStates
  <2>. QED
    BY <1>0, <1>1, <2>1, <2>2 DEF ThreadTypes
<1>8. Threads'
  <2>1. Addressed'
    BY <1>0, <1>1, <1>5 DEF Threads, Addressed
  <2>2. OwnOutlives'
    BY <1>0, <1>1, <1>5 DEF Threads, OutlivesThread, OwnOutlives, Inside
  <2>3. ASSUME NEW u \in Workers \ {w}, thread'[u] = "sending"
        PROVE  sendFd'[letter'[u].to] \/ thread'[letter'[u].to] = "joined"
    <3>1. thread[u] = "sending" /\ letter'[u] = letter[u] /\ letter[u].to \in Workers
      BY <1>0, <1>5, <2>3 DEF Threads, Addressed
    <3>2. sendFd[letter[u].to] \/ thread[letter[u].to] = "joined"
      BY <1>0, <3>1 DEF Threads, OutlivesThread, FellowOutlives
    <3>. QED
      BY <1>1, <1>5, <3>1, <3>2
  <2>4. FellowOutlives'
    BY <1>1, <1>5, <2>3 DEF FellowOutlives
  <2>5. Unstarted' /\ PairFirst' /\ JoinsOne'
    BY <1>0, <1>1, <1>5 DEF Threads, Unstarted, PairFirst, JoinsOne
  <2>. QED
    BY <2>1, <2>2, <2>4, <2>5 DEF Threads, OutlivesThread
<1>. QED
  BY <1>6, <1>7, <1>8, PartsNext

\* It is sent, if that socketpair is still open.
LEMMA SendNoteInv ==
    ASSUME LifecycleInv, NEW w \in Workers, SendNote(w)
    PROVE  LifecycleInv'
<1>0. StreamTypes /\ ThreadTypes /\ Threads
  BY Parts
<1>1. /\ thread[w] = "sending" /\ thread' = [thread EXCEPT ![w] = letter[w].then]
      /\ letter' = [letter EXCEPT ![w] = NoLetter]
      /\ UNCHANGED <<buf, running, clients, refused, main, idx, nextWorkerIndex, fdToWorker,
                     base, sendFd, notes>>
  BY DEF SendNote, Moves
<1>2. /\ letter[w].to \in Workers /\ letter[w].then \in {"polling", "notified"}
      /\ letter[w].record \in Seq(Bytes)
  BY <1>0, <1>1 DEF Threads, Addressed, ThreadTypes
<1>3. Write(letter[w].to, letter[w].record) \/ UNCHANGED <<pipe, cut>>
  BY Zenon DEF SendNote
<1>4. StreamTypes'
  <2>1. CASE Write(letter[w].to, letter[w].record)
    BY <1>0, <1>1, <1>2, <2>1, WriteKeeps
  <2>2. CASE UNCHANGED <<pipe, cut>>
    BY <1>0, <1>1, <2>2 DEF StreamTypes
  <2>. QED
    BY <1>3, <2>1, <2>2
<1>5. /\ thread'[w] \in {"polling", "notified"}
      /\ \A u \in Workers \ {w} : letter'[u] = letter[u] /\ thread'[u] = thread[u]
  BY <1>0, <1>1, <1>2 DEF ThreadTypes
<1>6. ThreadTypes'
  <2>1. NoLetter \in [to : Workers \cup {NoWorker}, record : Seq(Bytes), then : ThreadStates]
    BY DEF NoLetter, ThreadStates
  <2>2. letter' \in [Workers -> [to : Workers \cup {NoWorker}, record : Seq(Bytes),
                                 then : ThreadStates]]
    BY <1>0, <1>1, <2>1 DEF ThreadTypes
  <2>3. thread' \in [Workers -> ThreadStates]
    BY <1>0, <1>1, <1>2 DEF ThreadTypes, ThreadStates
  <2>. QED
    BY <1>0, <1>1, <2>2, <2>3 DEF ThreadTypes
<1>7. Threads'
  <2>1. Addressed'
    BY <1>0, <1>5 DEF Threads, Addressed
  <2>2. OwnOutlives'
    BY <1>0, <1>1, <1>5 DEF Threads, OutlivesThread, OwnOutlives, Inside
  <2>3. ASSUME NEW u \in Workers, thread'[u] = "sending"
        PROVE  sendFd'[letter'[u].to] \/ thread'[letter'[u].to] = "joined"
    <3>1. u # w /\ thread[u] = "sending" /\ letter'[u] = letter[u] /\ letter[u].to \in Workers
      BY <1>0, <1>5, <2>3 DEF Threads, Addressed
    <3>2. sendFd[letter[u].to] \/ thread[letter[u].to] = "joined"
      BY <1>0, <3>1 DEF Threads, OutlivesThread, FellowOutlives
    <3>. QED
      BY <1>1, <1>5, <3>1, <3>2
  <2>4. FellowOutlives'
    BY <2>3 DEF FellowOutlives
  <2>5. Unstarted' /\ PairFirst' /\ JoinsOne'
    BY <1>0, <1>1, <1>5 DEF Threads, Unstarted, PairFirst, JoinsOne
  <2>. QED
    BY <2>1, <2>2, <2>4, <2>5 DEF Threads, OutlivesThread
<1>. QED
  BY <1>4, <1>6, <1>7, PartsNext

LEMMA StutterInv == LifecycleInv /\ UNCHANGED vars => LifecycleInv'
<1>. SUFFICES ASSUME LifecycleInv, UNCHANGED vars PROVE LifecycleInv'
  OBVIOUS
<1>1. UNCHANGED pipeVars /\ UNCHANGED threadVars
  BY DEF vars
<1>2. StreamTypes' /\ ThreadTypes'
  BY <1>1, Parts, StreamsKept DEF ThreadTypes, threadVars
<1>3. Threads'
  BY <1>1, ThreadsKept DEF threadVars
<1>. QED
  BY <1>2, <1>3, PartsNext

LEMMA StepInv == LifecycleInv /\ [Next]_vars => LifecycleInv'
<1>. SUFFICES ASSUME LifecycleInv, [Next]_vars PROVE LifecycleInv'
  OBVIOUS
<1>1. CASE MainStep
  BY <1>1, StartWorkerInv, MainMovesInv, AcceptInv, StopWorkerInv, JoinWorkerInv,
     ClearWorkersInv DEF MainStep
<1>2. ASSUME NEW w \in Workers, LoopStep(w) \/ Hang(w) PROVE LifecycleInv'
  BY <1>2, MakeBaseInv, LoopMovesInv, NotifyTurnInv, SendNoteInv DEF LoopStep
<1>3. ASSUME NEW w \in Workers, NEW fd \in Fds, Forward(w, fd) PROVE LifecycleInv'
  BY <1>3, ForwardInv
<1>4. CASE UNCHANGED vars
  BY <1>4, StutterInv
<1>. QED
  BY <1>1, <1>2, <1>3, <1>4 DEF Next

\* Every state of the server is one in which the parts of LifecycleInv hold: its types,
\* OutlivesThread (a worker in its loop has its event_base and its socketpair, and a worker
\* between notifySendMessage's test and send may find only the socketpair of a worker
\* closed that Server::stop has joined) and what OutlivesThread rests on (Server::start,
\* Server::stop, WorkerThread::start, stop and threadMain).
THEOREM LifecycleHolds == Spec => []LifecycleInv
BY InitInv, StepInv, PTL DEF Spec
-----------------------------------------------------------------------------
(* What is on a socketpair.  As long as no record was cut, the bytes a     *)
(* worker holds and those still waiting are what remains of the records    *)
(* written to it, from the end of those it has taken.                      *)

Records == {QuitRecord} \cup {AddRecord(fd) : fd \in Fds}
             \cup {SendRecord(fd, body) : fd \in Fds, body \in Bodies}

\* A worker has taken the first records that were written to it.
Taken(w) ==
    /\ Len(handled[w]) <= Len(sent[w])
    /\ \A i \in 1 .. Len(handled[w]) : handled[w][i] = sent[w][i]

\* Where its thread is in its loop; while it sends, where it will go on.
At(w) == IF thread[w] = "sending" THEN letter[w].then ELSE thread[w]

\* It may take more: it is not on its way out of its loop.
Reads(w) == \/ At(w) \in {"none", "started", "polling"}
            \/ buf[w] # <<>>
            \/ At(w) \in {"testing", "notified"} /\ running[w]

InPlace(w) ==
    Reads(w) =>
      /\ Remains(sent[w], buf[w] \o pipe[w])
      /\ Consumed(sent[w], buf[w] \o pipe[w]) = Written(sent[w])[Len(handled[w])]

\* What it has received ends with a record.
WholeRecords(w) ==
    buf[w] # <<>> =>
      \E k \in 0 .. Len(sent[w]) : Written(sent[w])[k] = Consumed(sent[w], pipe[w])

Follows(w) == Taken(w) /\ InPlace(w) /\ WholeRecords(w)

\* Server::stop has not come to the worker.
Unasked(w) == \/ main \in {"new", "starting", "dispatching"}
              \/ main = "stopping" /\ w >= idx
              \/ main = "joining" /\ w > idx

RunsUnasked(w) ==
    Unasked(w) =>
      /\ \A i \in 1 .. Len(sent[w]) : sent[w][i] # QuitRecord
      /\ thread[w] \in Joinable => running[w]
      /\ thread[w] = "ended" => base[w] = "null"

\* A worker that Server::stop has passed has no thread that could be joined.
Passed(w) == main \in {"stopping", "joining"} /\ w < idx => thread[w] \notin Joinable

\* The invariant of the streams.
StreamInv ==
    /\ sent \in [Workers -> Seq(Records)]
    /\ handled \in [Workers -> Seq(Seq(Bytes))]
    /\ \A w \in Workers : buf[w] # <<>> => thread[w] = "notified"
    /\ ~cut => /\ main # "terminated"
               /\ \A w \in Workers : Follows(w) /\ RunsUnasked(w) /\ Passed(w)

\* The records and their shapes: the first byte tells how long a record is.
LEMMA RecordIs ==
    ASSUME NEW r \in Records
    PROVE  /\ r \in Seq(Bytes) /\ Len(r) \in Nat \ {0}
           /\ \/ r = QuitRecord /\ r[1] = Q
              \/ r # QuitRecord /\ r[1] = C /\ Len(r) = 2
              \/ r # QuitRecord /\ r[1] = S /\ Len(r) >= 3 /\ Len(r) = 3 + r[3]
<1>1. CASE r = QuitRecord
  <2>1. QuitRecord[1] = Q /\ Len(QuitRecord) = 1
    BY DEF QuitRecord
  <2>. QED
    BY <1>1, <2>1, RecordTypes
<1>2. ASSUME NEW fd \in Fds, r = AddRecord(fd)
      PROVE  r \in Seq(Bytes) /\ r[1] = C /\ Len(r) = 2
  <2>1. AddRecord(fd)[1] = C /\ Len(AddRecord(fd)) = 2
    BY DEF AddRecord
  <2>. QED
    BY <1>2, <2>1, RecordTypes
<1>3. ASSUME NEW fd \in Fds, NEW body \in Bodies, r = SendRecord(fd, body)
      PROVE  r \in Seq(Bytes) /\ r[1] = S /\ Len(r) \in Nat /\ Len(r) >= 3 /\ Len(r) = 3 + r[3]
  <2>. DEFINE head == <<S, fd, Len(body)>>
  <2>1. /\ head \in Seq(Bytes) /\ Len(head) = 3 /\ head[1] = S /\ head[3] = Len(body)
        /\ body \in Seq(Bytes) /\ Len(body) \in Nat
    BY PipeAssumption DEF S, Bytes
  <2>. HIDE DEF head
  <2>2. /\ Len(head \o body) = 3 + Len(body)
        /\ (head \o body)[1] = head[1] /\ (head \o body)[3] = head[3]
    <3>1. head \in Seq(Bytes) /\ body \in Seq(Bytes)
      BY <2>1
    <3>2. /\ Len(head \o body) = Len(head) + Len(body)
          /\ \A i \in 1 .. Len(head) : (head \o body)[i] = head[i]
      BY <3>1, ConcatIs
    <3>. QED
      BY <2>1, <3>2
  <2>3. r = head \o body
    BY <1>3 DEF SendRecord, head
  <2>. QED
    BY <1>3, <2>1, <2>2, <2>3, RecordTypes
<1>4. QuitRecord[1] = Q /\ Q # C /\ Q # S
  BY DEF QuitRecord, Q, C, S
<1>. QED
  BY <1>1, <1>2, <1>3, <1>4 DEF Records

\* The streams of one worker.
LEMMA StreamIs ==
    ASSUME NEW w \in Workers, StreamTypes, StreamInv
    PROVE  /\ sent[w] \in Seq(Records) /\ sent[w] \in Seq(Seq(Bytes))
           /\ handled[w] \in Seq(Seq(Bytes))
           /\ pipe[w] \in Seq(Bytes) /\ buf[w] \in Seq(Bytes)
           /\ buf[w] \o pipe[w] \in Seq(Bytes)
           /\ Len(sent[w]) \in Nat /\ Len(handled[w]) \in Nat
           /\ Len(pipe[w]) \in Nat /\ Len(buf[w]) \in Nat
           /\ Len(buf[w] \o pipe[w]) = Len(buf[w]) + Len(pipe[w])
<1>1. /\ sent[w] \in Seq(Records) /\ handled[w] \in Seq(Seq(Bytes))
      /\ pipe[w] \in Seq(Bytes) /\ buf[w] \in Seq(Bytes)
  BY DEF StreamTypes, StreamInv
<1>2. sent[w] \in Seq(Seq(Bytes))
  <2>1. Records \subseteq Seq(Bytes)
    BY RecordIs
  <2>. QED
    BY <1>1, <2>1
<1>. QED
  BY <1>1, <1>2

\* A worker whose streams stay as they are, and that does not begin to read again.
LEMMA FollowsKept ==
    ASSUME NEW w \in Workers, Follows(w),
           pipe'[w] = pipe[w], buf'[w] = buf[w], sent'[w] = sent[w], handled'[w] = handled[w],
           Reads(w)' => Reads(w)
    PROVE  Follows(w)'
<1>1. Taken(w)'
  BY DEF Follows, Taken
<1>2. InPlace(w)'
  BY DEF Follows, InPlace
<1>3. WholeRecords(w)'
  BY DEF Follows, WholeRecords
<1>. QED
  BY <1>1, <1>2, <1>3 DEF Follows

\* A record is written behind what is waiting.
LEMMA FollowsWritten ==
    ASSUME NEW w \in Workers, StreamTypes, StreamInv, Follows(w), NEW r \in Records,
           pipe'[w] = pipe[w] \o r, sent'[w] = Append(sent[w], r),
           buf'[w] = buf[w], handled'[w] = handled[w],
           Reads(w)' => Reads(w)
    PROVE  Follows(w)'
<1>. DEFINE s == sent[w]
            rest == buf[w] \o pipe[w]
            n == Len(handled[w])
<1>1. /\ s \in Seq(Seq(Bytes)) /\ buf[w] \in Seq(Bytes) /\ pipe[w] \in Seq(Bytes)
      /\ rest \in Seq(Bytes) /\ r \in Seq(Bytes) /\ n \in Nat /\ Len(s) \in Nat
      /\ n <= Len(s) /\ \A i \in 1 .. n : handled[w][i] = s[i]
  BY StreamIs, RecordIs DEF Follows, Taken
<1>2. buf'[w] \o pipe'[w] = rest \o r
  <2>1. buf[w] \in Seq(Bytes) /\ pipe[w] \in Seq(Bytes) /\ r \in Seq(Bytes)
    BY <1>1
  <2>. DEFINE b == buf[w]
              p == pipe[w]
  <2>2. (b \o p) \o r = b \o (p \o r)
    <3>1. b \in Seq(Bytes) /\ p \in Seq(Bytes)
      BY <2>1
    <3>. HIDE DEF b, p
    <3>. QED
      BY SMTT(20), <2>1, <3>1, ConcatAssoc
  <2>. QED
    BY <2>2
<1>3. /\ Len(Append(s, r)) = Len(s) + 1
      /\ \A i \in 1 .. Len(s) : Append(s, r)[i] = s[i]
  BY <1>1
<1>4. \A k \in 0 .. Len(s) : Written(Append(s, r))[k] = Written(s)[k]
  BY <1>1, WrittenAppend
<1>. HIDE DEF s, rest, n
<1>5. Taken(w)'
  BY <1>1, <1>3 DEF Taken, s, n
<1>6. InPlace(w)'
  <2>1. SUFFICES ASSUME Reads(w)
                 PROVE  /\ Remains(Append(s, r), rest \o r)
                        /\ Consumed(Append(s, r), rest \o r) = Written(Append(s, r))[n]
    BY <1>2 DEF InPlace, s, n
  <2>2. Remains(s, rest) /\ Consumed(s, rest) = Written(s)[n]
    BY <2>1 DEF Follows, InPlace, s, rest, n
  <2>3. /\ Remains(Append(s, r), rest \o r)
        /\ Consumed(Append(s, r), rest \o r) = Consumed(s, rest)
    BY <1>1, <2>2, RemainsAppend
  <2>4. n \in 0 .. Len(s)
    BY <1>1
  <2>. QED
    BY <2>2, <2>3, <2>4, <1>4
<1>7. WholeRecords(w)'
  <2>1. SUFFICES ASSUME buf[w] # <<>>
                 PROVE  \E k \in 0 .. Len(s) + 1 :
                          Written(Append(s, r))[k] = Consumed(Append(s, r), pipe[w] \o r)
    BY <1>3 DEF WholeRecords, s
  <2>2. PICK k \in 0 .. Len(s) : Written(s)[k] = Consumed(s, pipe[w])
    BY <2>1 DEF Follows, WholeRecords, s
  <2>3. Consumed(Append(s, r), pipe[w] \o r) = Consumed(s, pipe[w])
    <3>. DEFINE total == Written(s)[Len(s)]
                p == Len(pipe[w])
                l == Len(r)
    <3>1. Len(pipe[w] \o r) = p + l /\ p \in Nat /\ l \in Nat
      BY <1>1
    <3>2. Written(Append(s, r))[Len(s) + 1] = total + l
      BY <1>1, WrittenAppend
    <3>3. total \in Nat
      <4>1. Len(s) \in 0 .. Len(s)
        BY <1>1
      <4>. QED
        BY <1>1, <4>1, WrittenIs
    <3>4. (total + l) - (p + l) = total - p
      <4>. HIDE DEF total, p, l
      <4>. QED
        BY <3>1, <3>3
    <3>. QED
      BY <1>3, <3>1, <3>2, <3>4 DEF Consumed
  <2>4. k \in 0 .. Len(s) + 1
    BY <1>1
  <2>. QED
    BY <2>2, <2>3, <2>4, <1>4
<1>. QED
  BY <1>5, <1>6, <1>7 DEF Follows

\* What handleNotify receives moves from the socketpair into its buffer.
LEMMA FollowsReceived ==
    ASSUME NEW w \in Workers, StreamTypes, StreamInv, Follows(w), Reads(w), Recv(w), ~cut'
    PROVE  Follows(w)'
<1>. DEFINE n == Received(w)
            p == pipe[w]
            front == SubSeq(p, 1, n)
            back == SubSeq(p, n + 1, Len(p))
<1>1. p \in Seq(Bytes) /\ Len(p) \in Nat /\ n \in 0 .. Len(p)
  <2>1. p \in Seq(Bytes) /\ Len(p) \in Nat
    BY StreamIs
  <2>. QED
    BY <2>1, PipeAssumption DEF Received
<1>. HIDE DEF n
<1>2. /\ buf[w] = <<>> /\ buf' = [buf EXCEPT ![w] = front]
      /\ pipe' = [pipe EXCEPT ![w] = back]
      /\ EndsRecord(w, n)
      /\ UNCHANGED <<sent, handled>>
  BY DEF Recv, n
<1>3. buf'[w] = front /\ pipe'[w] = back
  BY <1>2 DEF StreamTypes
<1>4. /\ front \in Seq(Bytes) /\ back \in Seq(Bytes) /\ Len(back) = Len(p) - n
  BY <1>1, CutIs
<1>5. buf'[w] \o pipe'[w] = buf[w] \o pipe[w]
  <2>1. <<>> \in Seq(Bytes) /\ p \in Seq(Bytes)
    BY <1>1
  <2>2. (<<>> \o front) \o back = <<>> \o p
    <3>. HIDE DEF p
    <3>. QED
      BY <1>1, <2>1, MoveFront DEF front, back
  <2>3. <<>> \o front = front
    BY <1>4
  <2>. QED
    BY <1>2, <1>3, <2>2, <2>3
<1>6. Taken(w)'
  BY <1>2 DEF Follows, Taken
<1>7. InPlace(w)'
  BY <1>2, <1>5 DEF Follows, InPlace
<1>8. WholeRecords(w)'
  <2>1. PICK k \in 0 .. Len(sent[w]) :
               Written(sent[w])[k] = Written(sent[w])[Len(sent[w])] - Len(p) + n
    BY <1>2 DEF EndsRecord
  <2>2. Written(sent[w])[Len(sent[w])] - Len(p) + n = Consumed(sent[w], back)
    <3>. DEFINE total == Written(sent[w])[Len(sent[w])]
    <3>1. total \in Nat
      <4>1. sent[w] \in Seq(Seq(Bytes)) /\ Len(sent[w]) \in Nat
        BY StreamIs
      <4>2. Len(sent[w]) \in 0 .. Len(sent[w])
        BY <4>1
      <4>. QED
        BY <4>1, <4>2, WrittenIs
    <3>2. total - Len(p) + n = total - (Len(p) - n)
      <4>. HIDE DEF total, p
      <4>. QED
        BY <1>1, <3>1
    <3>. QED
      BY <1>4, <3>2 DEF Consumed
  <2>. QED
    BY <1>2, <1>3, <2>1, <2>2 DEF WholeRecords
<1>. QED
  BY <1>6, <1>7, <1>8 DEF Follows

\* The record that a turn of handleNotify's loop finds in the buffer: the next of those
\* written to the worker, and whole.
NextRecord(w) == sent[w][Len(handled[w]) + 1]

LEMMA NextIsWhole ==
    ASSUME NEW w \in Workers, StreamTypes, StreamInv, Follows(w), buf[w] # <<>>
    PROVE  /\ Len(handled[w]) + 1 \in 1 .. Len(sent[w])
           /\ NextRecord(w) \in Records
           /\ Len(NextRecord(w)) <= Len(buf[w])
           /\ SubSeq(buf[w], 1, Len(NextRecord(w))) = NextRecord(w)
           /\ \A i \in 1 .. Len(NextRecord(w)) : buf[w][i] = NextRecord(w)[i]
<1>. DEFINE s == sent[w]
            b == buf[w]
            p == pipe[w]
            rest == b \o p
            n == Len(handled[w])
            k == n + 1
            r == s[k]
<1>1. /\ s \in Seq(Records) /\ s \in Seq(Seq(Bytes)) /\ b \in Seq(Bytes) /\ p \in Seq(Bytes)
      /\ rest \in Seq(Bytes) /\ n \in Nat /\ Len(s) \in Nat
      /\ n <= Len(s) /\ Len(b) \in Nat /\ Len(p) \in Nat /\ Len(rest) = Len(b) + Len(p)
  BY StreamIs DEF Follows, Taken
<1>2. Len(b) > 0 /\ Remains(s, rest) /\ Consumed(s, rest) = Written(s)[n]
  <2>1. Reads(w)
    BY DEF Reads
  <2>2. Len(b) # 0
    BY <1>1
  <2>. QED
    BY <1>1, <2>1, <2>2 DEF Follows, InPlace
<1>3. PICK j \in 0 .. Len(s) : Written(s)[j] = Consumed(s, p)
  BY DEF Follows, WholeRecords
<1>. HIDE DEF s, b, p, rest, n
<1>4. k \in 1 .. Len(s) /\ k - 1 = n /\ n \in 0 .. Len(s)
  <2>1. rest # <<>>
    BY <1>1, <1>2
  <2>2. n \in 0 .. Len(s)
    BY <1>1
  <2>3. n + 1 \in 1 .. Len(s)
    BY <1>1, <1>2, <2>1, <2>2, MoreRemains
  <2>. QED
    BY <2>2, <2>3, <1>1
<1>. HIDE DEF k
<1>5. /\ r \in Seq(Bytes) /\ Len(r) \in Nat /\ r \in Records
      /\ Written(s)[k] = Written(s)[n] + Len(r)
      /\ Written(s)[n] \in Nat /\ Written(s)[k] \in Nat /\ Written(s)[Len(s)] \in Nat
  <2>1. r \in Records
    BY <1>1, <1>4
  <2>. QED
    BY <1>1, <1>4, <2>1, PieceFits
<1>6. /\ Len(rest) >= Len(r)
      /\ \A i \in 1 .. Len(r) : rest[i] = r[i]
  <2>1. /\ 0 \in 0 .. Len(r) /\ Len(r) - 0 = Len(r)
        /\ Consumed(s, rest) = Written(s)[k - 1] + 0
    BY <1>2, <1>4, <1>5
  <2>2. /\ Len(rest) >= Len(r) - 0
        /\ \A i \in 1 .. Len(r) - 0 : rest[i] = r[0 + i]
    BY <1>1, <1>2, <1>4, <2>1, RemainsNext
  <2>. HIDE DEF r
  <2>. QED
    BY <2>1, <2>2, <1>5
<1>7. Len(b) = Written(s)[j] - Written(s)[n]
  <2>. DEFINE total == Written(s)[Len(s)]
              v == Written(s)[j]
              u == Written(s)[n]
  <2>1. total - Len(p) = v /\ total - Len(rest) = u /\ total \in Nat
    BY <1>2, <1>3, <1>5 DEF Consumed
  <2>. HIDE DEF total, v, u
  <2>2. Len(b) = v - u
    BY <1>1, <2>1
  <2>. QED
    BY <2>2 DEF v, u
<1>8. Written(s)[j] \in Nat
  BY <1>1, WrittenIs
<1>9. j >= k
  <2>1. SUFFICES ASSUME j <= n PROVE FALSE
    BY <1>1, <1>4 DEF k
  <2>2. j \in 0 .. n
    BY <1>1, <2>1
  <2>3. Written(s)[j] <= Written(s)[n]
    BY <1>1, <1>4, <2>2, WrittenGrows
  <2>. QED
    BY SMTT(20), <1>1, <1>2, <1>5, <1>7, <1>8, <2>3
<1>10. Len(r) <= Len(b)
  <2>1. k \in 0 .. j /\ j \in 0 .. Len(s)
    BY <1>1, <1>4, <1>9
  <2>2. Written(s)[k] <= Written(s)[j]
    BY <1>1, <2>1, WrittenGrows
  <2>. DEFINE v == Written(s)[j]
              u == Written(s)[n]
              x == Written(s)[k]
              l == Len(r)
  <2>3. x <= v /\ x = u + l /\ Len(b) = v - u /\ x \in Nat /\ u \in Nat /\ v \in Nat /\ l \in Nat
    BY <1>5, <1>7, <1>8, <2>2
  <2>. HIDE DEF v, u, x, l
  <2>4. l <= Len(b)
    BY <2>3
  <2>. QED
    BY <2>4 DEF l
<1>. HIDE DEF r
<1>11. ASSUME NEW i \in 1 .. Len(r) PROVE b[i] = r[i]
  <2>1. i \in 1 .. Len(b)
    BY <1>1, <1>5, <1>10
  <2>2. rest[i] = b[i]
    BY <1>1, <2>1, ConcatIs DEF rest
  <2>. QED
    BY <1>6, <2>2
<1>12. SubSeq(b, 1, Len(r)) = r
  <2>1. Len(r) \in 0 .. Len(b)
    BY <1>1, <1>5, <1>10
  <2>2. /\ SubSeq(b, 1, Len(r)) \in Seq(Bytes) /\ Len(SubSeq(b, 1, Len(r))) = Len(r)
        /\ \A i \in 1 .. Len(r) : SubSeq(b, 1, Len(r))[i] = b[i]
    BY <1>1, <2>1, CutIs
  <2>. DEFINE front == SubSeq(b, 1, Len(r))
  <2>. HIDE DEF front
  <2>3. front \in Seq(Bytes) /\ Len(front) = Len(r) /\ \A i \in 1 .. Len(front) : front[i] = r[i]
    BY <2>2, <1>11 DEF front
  <2>4. front = r
    BY <2>3, <1>5, SameSeq
  <2>. QED
    BY <2>4 DEF front
<1>. QED
  BY <1>4, <1>5, <1>10, <1>11, <1>12 DEF NextRecord, s, b, n, k, r

\* A turn of the loop takes exactly that record: nothing is given up or skipped, and
\* nothing but a quit record ends the loop.
LEMMA TurnTakesRecord ==
    ASSUME NEW w \in Workers, StreamTypes, StreamInv, Follows(w), HandleNotify(w)
    PROVE  /\ handled' = [handled EXCEPT ![w] = Append(@, NextRecord(w))]
           /\ UNCHANGED <<pipe, sent, cut>>
           /\ \/ /\ buf' = [buf EXCEPT ![w] = SubSeq(@, Len(NextRecord(w)) + 1, Len(@))]
                 /\ UNCHANGED running
              \/ /\ NextRecord(w) = QuitRecord
                 /\ buf' = [buf EXCEPT ![w] = <<>>]
                 /\ running' = [running EXCEPT ![w] = FALSE]
<1>. DEFINE b == buf[w]
            r == NextRecord(w)
            l == Len(r)
<1>0. b # <<>>
  BY DEF HandleNotify, TakeQuit, TakeAdd, WholeAdd, TakeSend, GiveUp, SendHeader, SkipByte
<1>1. /\ r \in Records /\ l <= Len(b) /\ SubSeq(b, 1, l) = r
      /\ \A i \in 1 .. l : b[i] = r[i]
      /\ b \in Seq(Bytes) /\ Len(b) \in Nat
  BY <1>0, NextIsWhole, StreamIs
<1>. HIDE DEF r
<1>2. /\ r \in Seq(Bytes) /\ l \in Nat \ {0}
      /\ \/ r = QuitRecord /\ r[1] = Q
         \/ r # QuitRecord /\ r[1] = C /\ l = 2
         \/ r # QuitRecord /\ r[1] = S /\ l >= 3 /\ l = 3 + r[3]
  BY <1>1, RecordIs
<1>3. Head(b) = r[1] /\ (l >= 3 => b[3] = r[3])
  <2>. HIDE DEF b, l
  <2>. QED
    BY <1>0, <1>1, <1>2
<1>4. Q # C /\ Q # S /\ C # S
  BY DEF Q, C, S
<1>. HIDE DEF b, l
<1>5. CASE TakeQuit(w)
  <2>1. r = QuitRecord
    BY <1>2, <1>3, <1>4, <1>5 DEF TakeQuit, b
  <2>. QED
    BY <1>5, <2>1 DEF TakeQuit, r
<1>6. CASE TakeAdd(w)
  <2>1. l = 2
    BY <1>2, <1>3, <1>4, <1>6 DEF TakeAdd, WholeAdd, b
  <2>2. /\ buf' = [buf EXCEPT ![w] = SubSeq(@, 2 + 1, Len(@))]
        /\ handled' = [handled EXCEPT ![w] = Append(@, SubSeq(buf[w], 1, 2))]
        /\ UNCHANGED <<pipe, sent, cut, running>>
    BY <1>6 DEF TakeAdd, Take
  <2>3. SubSeq(buf[w], 1, 2) = r
    BY <1>1, <2>1 DEF b
  <2>. QED
    BY <2>1, <2>2, <2>3 DEF r, l
<1>7. CASE TakeSend(w) \/ GiveUp(w)
  <2>1. SendHeader(w)
    BY <1>7 DEF TakeSend, GiveUp
  <2>2. l >= 3 /\ l = 3 + r[3]
    BY <1>2, <1>3, <1>4, <2>1 DEF SendHeader, b
  <2>3. SendLength(w) = l
    BY <1>3, <2>2 DEF SendLength, b
  <2>4. TakeSend(w)
    <3>1. ~ SendLength(w) > Len(buf[w])
      BY <1>1, <1>2, <2>3 DEF b
    <3>. QED
      BY <1>7, <3>1 DEF GiveUp
  <2>5. /\ buf' = [buf EXCEPT ![w] = SubSeq(@, l + 1, Len(@))]
        /\ handled' = [handled EXCEPT ![w] = Append(@, SubSeq(buf[w], 1, l))]
        /\ UNCHANGED <<pipe, sent, cut, running>>
    BY <2>3, <2>4 DEF TakeSend, Take
  <2>6. SubSeq(buf[w], 1, l) = r
    BY <1>1 DEF b
  <2>. QED
    BY <2>5, <2>6 DEF r, l
<1>8. CASE SkipByte(w)
  <2>1. ~ WholeAdd(w) /\ ~ SendHeader(w) /\ Head(b) # Q
    BY <1>8 DEF SkipByte, b
  <2>2. ~ (Head(b) = C /\ Len(b) >= 2) /\ ~ (Head(b) = S /\ Len(b) >= 3)
    BY <1>0, <2>1 DEF WholeAdd, SendHeader, b
  <2>. QED
    BY <1>1, <1>2, <1>3, <2>1, <2>2
<1>. QED
  BY <1>5, <1>6, <1>7, <1>8 DEF HandleNotify

\* So the worker's place moves to the end of that record.
LEMMA FollowsTurn ==
    ASSUME NEW w \in Workers, StreamTypes, StreamInv, Follows(w), HandleNotify(w),
           thread' = thread, thread[w] = "notified"
    PROVE  Follows(w)'
<1>. DEFINE s == sent[w]
            b == buf[w]
            p == pipe[w]
            n == Len(handled[w])
            r == NextRecord(w)
            l == Len(r)
            rest == b \o p
            left == SubSeq(b, l + 1, Len(b))
<1>0. b # <<>>
  BY DEF HandleNotify, TakeQuit, TakeAdd, WholeAdd, TakeSend, GiveUp, SendHeader, SkipByte
<1>1. /\ n + 1 \in 1 .. Len(s) /\ r \in Records /\ l <= Len(b) /\ r = s[n + 1]
  BY <1>0, NextIsWhole DEF NextRecord
<1>2. /\ s \in Seq(Seq(Bytes)) /\ b \in Seq(Bytes) /\ p \in Seq(Bytes) /\ rest \in Seq(Bytes)
      /\ n \in Nat /\ Len(s) \in Nat /\ Len(b) \in Nat /\ Len(p) \in Nat
      /\ Len(rest) = Len(b) + Len(p) /\ handled[w] \in Seq(Seq(Bytes))
      /\ n <= Len(s) /\ \A i \in 1 .. n : handled[w][i] = s[i]
  BY StreamIs DEF Follows, Taken
<1>3. r \in Seq(Bytes) /\ l \in Nat
  BY <1>1, RecordIs
<1>4. /\ handled'[w] = Append(handled[w], r)
      /\ UNCHANGED <<pipe, sent>>
      /\ \/ buf'[w] = left /\ running' = running
         \/ buf'[w] = <<>> /\ running'[w] = FALSE
  <2>1. /\ handled' = [handled EXCEPT ![w] = Append(@, r)]
        /\ UNCHANGED <<pipe, sent, cut>>
        /\ \/ /\ buf' = [buf EXCEPT ![w] = left]
              /\ UNCHANGED running
           \/ /\ buf' = [buf EXCEPT ![w] = <<>>]
              /\ running' = [running EXCEPT ![w] = FALSE]
    BY TurnTakesRecord
  <2>. HIDE DEF r, left
  <2>. QED
    BY <2>1 DEF StreamTypes, StreamInv
<1>. HIDE DEF r, left
<1>5. Len(handled'[w]) = n + 1
  BY <1>2, <1>3, <1>4
<1>6. Taken(w)'
  <2>1. ASSUME NEW i \in 1 .. n + 1 PROVE handled'[w][i] = s[i]
    <3>1. CASE i = n + 1
      BY <1>1, <1>2, <1>3, <1>4, <3>1
    <3>2. CASE i # n + 1
      <4>1. i \in 1 .. n
        BY <1>2, <3>2
      <4>. QED
        BY <1>2, <1>3, <1>4, <4>1
    <3>. QED
      BY <3>1, <3>2
  <2>. QED
    BY SMTT(20), <1>1, <1>2, <1>4, <1>5, <2>1 DEF Taken
<1>7. InPlace(w)'
  <2>1. SUFFICES ASSUME Reads(w)'
                 PROVE  /\ Remains(s, buf'[w] \o p)
                        /\ Consumed(s, buf'[w] \o p) = Written(s)[n + 1]
    BY <1>4, <1>5 DEF InPlace
  <2>2. buf'[w] = left
    BY <1>4, <2>1 DEF Reads, At
  <2>3. Remains(s, rest) /\ Consumed(s, rest) = Written(s)[n]
    BY <1>0 DEF Follows, InPlace, Reads
  <2>. HIDE DEF s, b, p, n, l, rest
  <2>4. l \in 0 .. Len(b) /\ l \in 0 .. Len(rest)
    BY <1>1, <1>2, <1>3
  <2>5. left \o p = SubSeq(rest, l + 1, Len(rest))
    BY <1>2, <2>4, DropFront DEF left, rest
  <2>6. /\ Remains(s, SubSeq(rest, l + 1, Len(rest)))
        /\ Consumed(s, SubSeq(rest, l + 1, Len(rest))) = Consumed(s, rest) + l
    BY <1>2, <2>3, <2>4, RemainsDrop
  <2>7. Written(s)[n + 1] = Written(s)[n] + l
    <3>1. (n + 1) - 1 = n
      BY <1>2
    <3>2. Written(s)[n + 1] = Written(s)[(n + 1) - 1] + Len(s[n + 1])
      BY <1>1, <1>2, WrittenIs
    <3>. QED
      BY <1>1, <3>1, <3>2 DEF l
  <2>. QED
    BY <2>2, <2>3, <2>5, <2>6, <2>7
<1>8. WholeRecords(w)'
  BY <1>0, <1>4 DEF Follows, WholeRecords
<1>. QED
  BY <1>6, <1>7, <1>8 DEF Follows

\* A send that cuts nothing takes the record whole, or leaves everything as it was.
LEMMA WriteWhole ==
    ASSUME NEW v \in Workers, NEW r \in Records, StreamTypes, StreamInv, Write(v, r), ~cut'
    PROVE  /\ ~cut
           /\ \/ /\ pipe' = [pipe EXCEPT ![v] = @ \o r]
                 /\ sent' = [sent EXCEPT ![v] = Append(@, r)]
              \/ pipe' = pipe /\ sent' = sent
<1>1. CASE /\ pipe' = [pipe EXCEPT ![v] = @ \o r]
           /\ sent' = [sent EXCEPT ![v] = Append(@, r)]
           /\ UNCHANGED cut
  BY <1>1
<1>2. ASSUME NEW n \in 0 .. Len(r) - 1,
             pipe' = [pipe EXCEPT ![v] = @ \o SubSeq(r, 1, n)],
             cut' = (cut \/ n > 0), sent' = sent
      PROVE  ~cut /\ pipe' = pipe
  <2>1. ~cut /\ ~(n > 0)
    BY <1>2, Zenon
  <2>2. r \in Seq(Bytes) /\ Len(r) \in Nat
    BY RecordIs
  <2>3. n = 0
    BY <2>1, <2>2
  <2>4. pipe[v] \in Seq(Bytes) /\ pipe \in [Workers -> Seq(Bytes)]
    BY DEF StreamTypes
  <2>5. SubSeq(r, 1, 0) = <<>>
    BY <2>2
  <2>6. pipe[v] \o <<>> = pipe[v]
    BY <2>4
  <2>. QED
    BY <1>2, <2>1, <2>3, <2>4, <2>5, <2>6
<1>. QED
  BY <1>1, <1>2, Zenon DEF Write

\* A record written to one worker, whole or not at all, leaves every worker in place.
LEMMA FollowsWrite ==
    ASSUME NEW v \in Workers, NEW r \in Records, StreamTypes, StreamInv, Write(v, r), ~cut',
           UNCHANGED <<buf, handled>>,
           \A w \in Workers : Reads(w)' => Reads(w)
    PROVE  /\ ~cut
           /\ \A w \in Workers : /\ Follows(w)'
                                 /\ \/ sent'[w] = sent[w]
                                    \/ w = v /\ sent'[w] = Append(sent[w], r)
<1>1. /\ ~cut
      /\ \/ /\ pipe' = [pipe EXCEPT ![v] = @ \o r]
            /\ sent' = [sent EXCEPT ![v] = Append(@, r)]
         \/ pipe' = pipe /\ sent' = sent
  BY WriteWhole
<1>2. \A w \in Workers : Follows(w)
  BY <1>1 DEF StreamInv
<1>3. pipe \in [Workers -> Seq(Bytes)] /\ sent \in [Workers -> Seq(Records)]
  BY DEF StreamTypes, StreamInv
<1>4. CASE pipe' = pipe /\ sent' = sent
  BY <1>1, <1>2, <1>4, FollowsKept
<1>5. CASE /\ pipe' = [pipe EXCEPT ![v] = @ \o r]
           /\ sent' = [sent EXCEPT ![v] = Append(@, r)]
  <2>1. /\ pipe'[v] = pipe[v] \o r /\ sent'[v] = Append(sent[v], r)
        /\ \A w \in Workers \ {v} : pipe'[w] = pipe[w] /\ sent'[w] = sent[w]
    BY <1>3, <1>5
  <2>2. Follows(v)'
    BY <1>2, <2>1, FollowsWritten
  <2>3. ASSUME NEW w \in Workers \ {v} PROVE Follows(w)'
    BY <1>2, <2>1, FollowsKept
  <2>. QED
    BY <1>1, <2>1, <2>2, <2>3
<1>. QED
  BY <1>1, <1>4, <1>5

\* What a send leaves of the history of records.
LEMMA WriteSent ==
    ASSUME NEW v \in Workers, NEW r \in Records, StreamInv, Write(v, r)
    PROVE  sent' \in [Workers -> Seq(Records)]
<1>1. sent \in [Workers -> Seq(Records)]
  BY DEF StreamInv
<1>2. sent' = sent \/ sent' = [sent EXCEPT ![v] = Append(@, r)]
  BY Zenon DEF Write
<1>3. Append(sent[v], r) \in Seq(Records)
  <2>1. sent[v] \in Seq(Records)
    BY <1>1
  <2>. QED
    BY <2>1
<1>4. CASE sent' = sent
  BY <1>1, <1>4
<1>5. CASE sent' = [sent EXCEPT ![v] = Append(@, r)]
  <2>. DEFINE a == Append(sent[v], r)
              Lists == Seq(Records)
  <2>1. sent' = [sent EXCEPT ![v] = a] /\ a \in Lists /\ sent \in [Workers -> Lists]
    BY <1>1, <1>3, <1>5
  <2>. HIDE DEF a, Lists
  <2>2. sent' \in [Workers -> Lists]
    BY <2>1
  <2>. QED
    BY <2>2 DEF Lists
<1>. QED
  BY <1>2, <1>4, <1>5

LEMMA StreamInit == Init => StreamInv
<1>. SUFFICES ASSUME Init PROVE StreamInv
  OBVIOUS
<1>1. /\ \A w \in Workers : pipe[w] = <<>> /\ buf[w] = <<>> /\ sent[w] = <<>> /\ handled[w] = <<>>
      /\ \A w \in Workers : thread[w] = "none"
      /\ main = "new"
  BY DEF Init, PipeInit
<1>2. sent \in [Workers -> Seq(Records)] /\ handled \in [Workers -> Seq(Seq(Bytes))]
  <2>1. <<>> \in Seq(Records) /\ <<>> \in Seq(Seq(Bytes))
    OBVIOUS
  <2>. QED
    BY <2>1 DEF Init, PipeInit
<1>3. ASSUME NEW w \in Workers PROVE Follows(w)
  <2>1. <<>> \o <<>> = <<>> /\ Len(<<>>) = 0
    OBVIOUS
  <2>2. Taken(w)
    BY <1>1, <2>1 DEF Taken
  <2>3. InPlace(w)
    BY <1>1, <2>1, RemainsEmpty DEF InPlace
  <2>4. WholeRecords(w)
    BY <1>1 DEF WholeRecords
  <2>. QED
    BY <2>2, <2>3, <2>4 DEF Follows
<1>4. ASSUME NEW w \in Workers PROVE RunsUnasked(w) /\ Passed(w)
  <2>1. Len(sent[w]) = 0
    BY <1>1
  <2>. QED
    BY <1>1, <2>1 DEF RunsUnasked, Passed, Joinable, Inside
<1>. QED
  BY <1>1, <1>2, <1>3, <1>4 DEF StreamInv

\* The main thread's steps that leave the workers alone.  SkipWorker finds a worker that
\* was not told to stop and does not run: its thread never came to its loop.
LEMMA MainMovesStream ==
    ASSUME LifecycleInv, StreamInv,
           \/ Listen \/ Dispatch \/ AcceptError \/ SkipWorker \/ LeaveDispatch \/ ClearWorkers
    PROVE  StreamInv'
<1>0. ThreadTypes /\ NumWorkers \in Nat
  BY Parts, WorkerNumbers
<1>1. UNCHANGED <<pipe, buf, running, sent, handled, cut, thread, base, letter>>
  BY DEF Listen, Dispatch, AcceptError, SkipWorker, LeaveDispatch, ClearWorkers, pipeVars
<1>2. ASSUME ~cut PROVE /\ main' # "terminated"
                        /\ \A w \in Workers : /\ Unasked(w)' => Unasked(w)
                                              /\ Passed(w)'
  <2>0. /\ main # "terminated" /\ \A w \in Workers : RunsUnasked(w) /\ Passed(w)
        /\ \A w \in Workers : w \in 0 .. NumWorkers - 1
    BY <1>2, WorkerNumbers DEF StreamInv
  <2>1. CASE Listen
    BY <2>1 DEF Listen, Unasked, Passed
  <2>2. CASE Dispatch
    BY <2>2 DEF Dispatch, Unasked, Passed
  <2>3. CASE AcceptError
    BY <1>0, <2>0, <2>3 DEF AcceptError, Unasked, Passed
  <2>4. CASE SkipWorker
    <3>1. /\ main = "stopping" /\ main' = "stopping" /\ idx' = idx + 1 /\ thread' = thread
          /\ idx \in Workers /\ ~ running[idx]
      BY <1>0, <1>1, <2>4, WorkerNumbers DEF SkipWorker, ThreadTypes
    <3>2. thread[idx] \notin Joinable
      BY <2>0, <3>1, WorkerNumbers DEF RunsUnasked, Unasked
    <3>3. ASSUME NEW w \in Workers PROVE (Unasked(w)' => Unasked(w)) /\ Passed(w)'
      <4>1. w \in Nat /\ idx \in Nat /\ (w < idx + 1 <=> w < idx \/ w = idx)
            /\ (w >= idx + 1 => w >= idx)
        BY <2>0, <3>1, <1>0
      <4>2. Unasked(w)' => Unasked(w)
        BY <3>1, <4>1 DEF Unasked
      <4>3. Passed(w)'
        BY <2>0, <3>1, <3>2, <4>1 DEF Passed
      <4>. QED
        BY <4>2, <4>3
    <3>. QED
      BY <3>1, <3>3
  <2>5. CASE LeaveDispatch
    BY <2>5 DEF LeaveDispatch, Unasked, Passed
  <2>6. CASE ClearWorkers
    <3>1. main = "stopping" /\ idx = NumWorkers
      BY <2>6 DEF ClearWorkers
    <3>2. \A w \in Workers : thread[w] \notin Joinable
      BY <1>0, <2>0, <3>1 DEF Passed
    <3>3. main' = "freed"
      BY <2>6, <3>2 DEF ClearWorkers
    <3>. QED
      BY <3>3 DEF Unasked, Passed
  <2>. QED
    BY <2>1, <2>2, <2>3, <2>4, <2>5, <2>6
<1>3. ASSUME NEW w \in Workers, ~cut PROVE Follows(w)' /\ RunsUnasked(w)'
  <2>1. Follows(w) /\ RunsUnasked(w)
    BY <1>3 DEF StreamInv
  <2>2. Reads(w)' => Reads(w)
    BY <1>1 DEF Reads, At
  <2>3. Follows(w)'
    BY <1>1, <2>1, <2>2, FollowsKept
  <2>4. RunsUnasked(w)'
    BY <1>1, <1>2, <1>3, <2>1 DEF RunsUnasked
  <2>. QED
    BY <2>3, <2>4
<1>. QED
  BY <1>1, <1>2, <1>3 DEF StreamInv

\* A worker is started: it was not there before, and runs when it has a thread.
LEMMA StartWorkerStream ==
    ASSUME LifecycleInv, StreamInv, StartWorker
    PROVE  StreamInv'
<1>0. StreamTypes /\ ThreadTypes /\ Threads /\ NumWorkers \in Nat
  BY Parts, WorkerNumbers
<1>1. /\ main = "starting" /\ main' = main /\ idx \in Workers
      /\ UNCHANGED <<pipe, buf, sent, handled, cut, base, letter>>
  BY <1>0, WorkerNumbers DEF StartWorker, ThreadTypes
<1>2. PICK done \in BOOLEAN :
        /\ running' = [running EXCEPT ![idx] = done]
        /\ thread' = [thread EXCEPT ![idx] = IF done THEN "started" ELSE "none"]
  <2>1. Outcomes("socketpair") \subseteq BOOLEAN
    BY DEF Outcomes
  <2>2. \E done \in Outcomes("socketpair") :
          /\ running' = [running EXCEPT ![idx] = done]
          /\ thread' = [thread EXCEPT ![idx] = IF done THEN "started" ELSE "none"]
    BY Zenon DEF StartWorker
  <2>. QED
    BY <2>1, <2>2, Zenon
<1>3. /\ running \in [Workers -> BOOLEAN] /\ thread \in [Workers -> ThreadStates]
      /\ thread[idx] = "none"
  <2>1. idx >= idx
    BY <1>1, WorkerNumbers
  <2>. QED
    BY <1>0, <1>1, <2>1 DEF StreamTypes, ThreadTypes, Threads, Unstarted
<1>4. /\ \/ thread'[idx] = "started" /\ running'[idx]
         \/ thread'[idx] = "none"
      /\ \A w \in Workers \ {idx} : thread'[w] = thread[w] /\ running'[w] = running[w]
  BY <1>1, <1>2, <1>3
<1>5. \A w \in Workers : buf'[w] # <<>> => thread'[w] = "notified"
  BY <1>1, <1>3, <1>4 DEF StreamInv
<1>6. ASSUME NEW w \in Workers, ~cut
      PROVE  Follows(w)' /\ RunsUnasked(w)' /\ Passed(w)'
  <2>1. Follows(w) /\ RunsUnasked(w)
    BY <1>6 DEF StreamInv
  <2>2. Reads(w)' => Reads(w)
    BY <1>1, <1>3, <1>4 DEF Reads, At
  <2>3. Follows(w)'
    BY <1>1, <2>1, <2>2, FollowsKept
  <2>4. RunsUnasked(w)'
    BY <1>1, <1>4, <2>1 DEF RunsUnasked, Unasked, Joinable, Inside
  <2>5. Passed(w)'
    BY <1>1 DEF Passed
  <2>. QED
    BY <2>3, <2>4, <2>5
<1>. QED
  BY <1>1, <1>5, <1>6 DEF StreamInv

\* A worker whose thread has ended is joined, and passed.
LEMMA JoinWorkerStream ==
    ASSUME LifecycleInv, StreamInv, JoinWorker
    PROVE  StreamInv'
<1>0. ThreadTypes /\ Threads /\ NumWorkers \in Nat
  BY Parts, WorkerNumbers
<1>1. /\ main = "joining" /\ main' = "stopping" /\ idx \in Workers /\ idx' = idx + 1
      /\ thread[idx] = "ended" /\ thread' = [thread EXCEPT ![idx] = "joined"]
      /\ base' = [base EXCEPT ![idx] = IF base[idx] = "live" THEN "freed" ELSE base[idx]]
      /\ UNCHANGED <<pipe, buf, running, sent, handled, cut, letter>>
  BY <1>0 DEF JoinWorker, Threads, JoinsOne, pipeVars
<1>2. /\ thread'[idx] = "joined"
      /\ \A w \in Workers \ {idx} : thread'[w] = thread[w] /\ base'[w] = base[w]
  BY <1>0, <1>1 DEF ThreadTypes
<1>3. \A w \in Workers : buf'[w] # <<>> => thread'[w] = "notified"
  BY <1>1, <1>2 DEF StreamInv
<1>4. ASSUME NEW w \in Workers, ~cut
      PROVE  Follows(w)' /\ RunsUnasked(w)' /\ Passed(w)'
  <2>1. Follows(w) /\ RunsUnasked(w) /\ Passed(w)
    BY <1>4 DEF StreamInv
  <2>2. Reads(w)' => Reads(w)
    BY <1>1, <1>2 DEF Reads, At
  <2>3. Follows(w)'
    BY <1>1, <2>1, <2>2, FollowsKept
  <2>4. /\ w \in Nat /\ idx \in Nat /\ (w < idx + 1 => w < idx \/ w = idx)
        /\ (w >= idx + 1 => w > idx /\ w # idx)
    BY <1>1, WorkerNumbers
  <2>5. RunsUnasked(w)'
    BY <1>1, <1>2, <2>1, <2>4 DEF RunsUnasked, Unasked
  <2>6. Passed(w)'
    BY <1>1, <1>2, <2>1, <2>4 DEF Passed, Joinable, Inside
  <2>. QED
    BY <2>3, <2>5, <2>6
<1>. QED
  BY <1>1, <1>3, <1>4 DEF StreamInv

\* A thread stays where it is, or it begins or ends to send.
Stays(w) ==
    /\ At(w)' = At(w)
    /\ \/ thread'[w] = thread[w]
       \/ buf[w] = <<>> /\ thread[w] \in Inside /\ thread'[w] \in Inside

\* A record other than 'q' is written to a worker, or nothing is.
LEMMA WriteStream ==
    ASSUME LifecycleInv, StreamInv, NEW v \in Workers, NEW r \in Records \ {QuitRecord},
           Write(v, r) \/ UNCHANGED <<pipe, sent, cut>>,
           UNCHANGED <<buf, running, handled, main, idx, base>>,
           \A w \in Workers : Stays(w)
    PROVE  StreamInv'
<1>0. StreamTypes
  BY Parts
<1>1. \A w \in Workers : Reads(w)' => Reads(w)
  BY DEF Reads, Stays
<1>2. sent' \in [Workers -> Seq(Records)]
  BY WriteSent DEF StreamInv
<1>3. ASSUME ~cut'
      PROVE  /\ ~cut
             /\ \A w \in Workers : /\ Follows(w)'
                                   /\ \/ sent'[w] = sent[w]
                                      \/ w = v /\ sent'[w] = Append(sent[w], r)
  <2>1. CASE Write(v, r)
    BY <1>0, <1>1, <1>3, <2>1, FollowsWrite
  <2>2. CASE UNCHANGED <<pipe, sent, cut>>
    <3>1. ~cut /\ \A w \in Workers : Follows(w)
      BY <1>3, <2>2 DEF StreamInv
    <3>. QED
      BY <1>1, <2>2, <3>1, FollowsKept
  <2>. QED
    BY <2>1, <2>2
<1>4. ASSUME NEW w \in Workers, ~cut' PROVE RunsUnasked(w)' /\ Passed(w)'
  <2>1. RunsUnasked(w) /\ Passed(w) /\ sent[w] \in Seq(Records)
    BY <1>3, <1>4 DEF StreamInv
  <2>2. (\A i \in 1 .. Len(sent[w]) : sent[w][i] # QuitRecord)
          => \A i \in 1 .. Len(sent'[w]) : sent'[w][i] # QuitRecord
    <3>. DEFINE s == sent[w]
                t == Append(s, r)
    <3>1. CASE sent'[w] = s
      BY <3>1
    <3>2. CASE sent'[w] = t
      <4>1. /\ Len(t) = Len(s) + 1 /\ Len(s) \in Nat /\ t[Len(s) + 1] = r
            /\ \A i \in 1 .. Len(s) : t[i] = s[i]
        BY <2>1
      <4>2. r # QuitRecord
        OBVIOUS
      <4>. HIDE DEF s, t
      <4>3. (\A i \in 1 .. Len(s) : s[i] # QuitRecord)
              => \A i \in 1 .. Len(t) : t[i] # QuitRecord
        <5>1. \A i \in 1 .. Len(t) : i \in 1 .. Len(s) \/ i = Len(s) + 1
          BY <4>1
        <5>. QED
          BY <4>1, <4>2, <5>1
      <4>. QED
        BY <3>2, <4>3 DEF s
    <3>. QED
      BY <1>3, <1>4, <3>1, <3>2
  <2>3. RunsUnasked(w)'
    BY <2>1, <2>2 DEF RunsUnasked, Unasked, Stays, Joinable, Inside
  <2>4. Passed(w)'
    BY <2>1 DEF Passed, Stays, Joinable
  <2>. QED
    BY <2>3, <2>4
<1>5. \A w \in Workers : buf'[w] # <<>> => thread'[w] = "notified"
  BY DEF StreamInv, Stays
<1>. QED
  BY <1>2, <1>3, <1>4, <1>5 DEF StreamInv

LEMMA AcceptStream ==
    ASSUME LifecycleInv, StreamInv, NEW fd \in Fds, Accept(fd)
    PROVE  StreamInv'
<1>1. AddRecord(fd) \in Records \ {QuitRecord}
  <2>1. AddRecord(fd)[1] = C /\ QuitRecord[1] = Q /\ C # Q
    BY DEF AddRecord, QuitRecord, C, Q
  <2>2. AddRecord(fd) # QuitRecord
    BY <2>1
  <2>. QED
    BY <2>2 DEF Records
<1>2. nextWorkerIndex \in Workers
  BY Parts DEF ThreadTypes
<1>3. Write(nextWorkerIndex, AddRecord(fd)) \/ UNCHANGED <<pipe, sent, cut>>
  BY Zenon DEF Accept
<1>4. UNCHANGED <<buf, running, handled, main, idx, base>> /\ \A w \in Workers : Stays(w)
  BY DEF Accept, Stays, At
<1>. QED
  BY <1>1, <1>2, <1>3, <1>4, WriteStream

\* A record of a message is not a quit record.
LEMMA SendRecordIs ==
    ASSUME NEW fd \in Fds, NEW body \in Bodies
    PROVE  SendRecord(fd, body) \in Records \ {QuitRecord}
<1>. DEFINE r == SendRecord(fd, body)
<1>1. r \in Records
  BY DEF Records
<1>2. r[1] = S
  <2>1. <<S, fd, Len(body)>> \in Seq(Bytes) /\ body \in Seq(Bytes)
    BY PipeAssumption DEF S, Bytes
  <2>. QED
    BY <2>1 DEF SendRecord
<1>3. QuitRecord[1] = Q /\ Q # S
  BY DEF QuitRecord, Q, S
<1>. QED
  BY <1>1, <1>2, <1>3

\* notifySendMessage up to its send touches no stream.
LEMMA ForwardStream ==
    ASSUME LifecycleInv, StreamInv, NEW w \in Workers, NEW fd \in Fds, Forward(w, fd)
    PROVE  StreamInv'
<1>1. /\ thread[w] \in {"polling", "notified"} /\ thread' = [thread EXCEPT ![w] = "sending"]
      /\ thread[w] = "notified" => buf[w] = <<>>
      /\ fdToWorker[fd] \in Workers
      /\ UNCHANGED <<buf, running, handled, main, idx, base>> /\ UNCHANGED <<pipe, sent, cut>>
  BY Parts DEF Forward, InPass, Moves, ThreadTypes, pipeVars
<1>2. PICK body \in Bodies :
        letter' = [letter EXCEPT ![w] = [to |-> fdToWorker[fd], record |-> SendRecord(fd, body),
                                         then |-> thread[w]]]
  BY Zenon DEF Forward
<1>3. /\ thread'[w] = "sending" /\ letter'[w].then = thread[w]
      /\ \A v \in Workers \ {w} : thread'[v] = thread[v] /\ letter'[v] = letter[v]
  BY <1>1, <1>2, Parts DEF ThreadTypes
<1>4. ASSUME NEW v \in Workers PROVE Stays(v)
  <2>1. buf[w] = <<>>
    BY <1>1 DEF StreamInv
  <2>. QED
    BY <1>1, <1>3, <2>1 DEF Stays, At, Inside
<1>5. SendRecord(fd, body) \in Records \ {QuitRecord}
  BY SendRecordIs
<1>. QED
  BY <1>1, <1>4, <1>5, WriteStream

\* Its send is that of a whole record.
LEMMA SendNoteStream ==
    ASSUME LifecycleInv, StreamInv, NEW w \in Workers, SendNote(w)
    PROVE  StreamInv'
<1>0. StreamTypes /\ ThreadTypes /\ Threads
  BY Parts
<1>1. /\ thread[w] = "sending" /\ thread' = [thread EXCEPT ![w] = letter[w].then]
      /\ letter' = [letter EXCEPT ![w] = NoLetter]
      /\ UNCHANGED <<buf, running, handled, main, idx, base>>
  BY DEF SendNote, Moves
<1>2. /\ letter[w].to \in Workers /\ letter[w].then \in {"polling", "notified"}
      /\ letter[w].record \in {SendRecord(fd, body) : fd \in Fds, body \in Bodies}
  BY <1>0, <1>1 DEF Threads, Addressed
<1>3. letter[w].record \in Records \ {QuitRecord}
  BY <1>2, SendRecordIs
<1>4. Write(letter[w].to, letter[w].record) \/ UNCHANGED <<pipe, sent, cut>>
  BY Zenon DEF SendNote
<1>5. /\ thread'[w] = letter[w].then
      /\ \A v \in Workers \ {w} : thread'[v] = thread[v] /\ letter'[v] = letter[v]
  BY <1>0, <1>1 DEF ThreadTypes
<1>6. ASSUME NEW v \in Workers PROVE Stays(v)
  <2>1. buf[w] = <<>>
    BY <1>1 DEF StreamInv
  <2>. QED
    BY <1>1, <1>2, <1>5, <2>1 DEF Stays, At, Inside
<1>. QED
  BY <1>1, <1>2, <1>3, <1>4, <1>6, WriteStream

\* WorkerThread::stop: from here on the worker may leave its loop.
LEMMA StopWorkerStream ==
    ASSUME LifecycleInv, StreamInv, StopWorker
    PROVE  StreamInv'
<1>0. StreamTypes /\ ThreadTypes /\ NumWorkers \in Nat
  BY Parts, WorkerNumbers
<1>1. /\ main = "stopping" /\ main' = "joining" /\ idx \in Workers /\ idx' = idx
      /\ running' = [running EXCEPT ![idx] = FALSE]
      /\ Write(idx, QuitRecord)
      /\ UNCHANGED <<buf, handled, thread, base, letter>>
  BY <1>0, WorkerNumbers DEF StopWorker, FlagOnStop, ThreadTypes
<1>2. QuitRecord \in Records
  BY DEF Records
<1>3. \A w \in Workers \ {idx} : running'[w] = running[w]
  BY <1>0, <1>1 DEF StreamTypes
<1>4. ~running'[idx]
  BY <1>0, <1>1 DEF StreamTypes
<1>5. \A w \in Workers : Reads(w)' => Reads(w)
  BY <1>1, <1>3, <1>4 DEF Reads, At
<1>6. sent' \in [Workers -> Seq(Records)]
  BY <1>1, <1>2, WriteSent
<1>7. ASSUME ~cut'
      PROVE  /\ ~cut
             /\ \A w \in Workers : /\ Follows(w)'
                                   /\ sent'[w] = sent[w] \/ w = idx
  BY <1>0, <1>1, <1>2, <1>5, <1>7, FollowsWrite
<1>8. ASSUME NEW w \in Workers, ~cut' PROVE RunsUnasked(w)' /\ Passed(w)'
  <2>1. RunsUnasked(w) /\ Passed(w)
    BY <1>7, <1>8 DEF StreamInv
  <2>2. w \in Nat /\ idx \in Nat /\ (w > idx => w >= idx /\ w # idx)
    BY <1>1, WorkerNumbers
  <2>3. RunsUnasked(w)'
    BY <1>1, <1>3, <1>7, <1>8, <2>1, <2>2 DEF RunsUnasked, Unasked
  <2>4. Passed(w)'
    BY <1>1, <2>1 DEF Passed
  <2>. QED
    BY <2>3, <2>4
<1>. QED
  BY <1>1, <1>6, <1>7, <1>8 DEF StreamInv

-----------------------------------------------------------------------------
(* The steps of a worker's thread, and the streams. *)

\* A thread moves inside threadMain's loop, or out of it, and no stream moves.
LEMMA ThreadMovesStream ==
    ASSUME LifecycleInv, StreamInv, NEW w \in Workers, NEW from, NEW to \in ThreadStates,
           thread[w] = from, thread' = [thread EXCEPT ![w] = to],
           buf[w] = <<>>,
           UNCHANGED <<pipe, buf, running, sent, handled, cut, main, idx, letter>>,
           \A v \in Workers \ {w} : base'[v] = base[v],
           \/ from = "started" /\ to = "testing"
           \/ from = "started" /\ to = "ended" /\ base'[w] = "null"
           \/ from = "testing" /\ to = "polling" /\ running[w]
           \/ from = "testing" /\ to = "ended" /\ ~running[w]
           \/ from \in {"notified", "polling"} /\ to = "testing"
           \/ from \in {"notified", "polling"} /\ to = "hung"
    PROVE  StreamInv'
<1>1. /\ thread'[w] = to
      /\ \A v \in Workers \ {w} : thread'[v] = thread[v]
  BY Parts DEF ThreadTypes
<1>2. from \in Joinable
  BY DEF Joinable, Inside
<1>3. \A v \in Workers : buf'[v] # <<>> => thread'[v] = "notified"
  BY <1>1 DEF StreamInv
<1>4. ASSUME NEW v \in Workers, ~cut
      PROVE  Follows(v)' /\ RunsUnasked(v)' /\ Passed(v)'
  <2>1. Follows(v) /\ RunsUnasked(v) /\ Passed(v)
    BY <1>4 DEF StreamInv
  <2>2. Reads(v)' => Reads(v)
    BY <1>1 DEF Reads, At
  <2>3. Follows(v)'
    BY <2>1, <2>2, FollowsKept
  <2>4. RunsUnasked(v)'
    BY <1>1, <1>2, <2>1 DEF RunsUnasked, Unasked, Joinable, Inside
  <2>5. Passed(v)'
    BY <1>1, <1>2, <2>1 DEF Passed
  <2>. QED
    BY <2>3, <2>4, <2>5
<1>. QED
  BY <1>3, <1>4 DEF StreamInv

LEMMA LoopMovesStream ==
    ASSUME LifecycleInv, StreamInv, NEW w \in Workers,
           MakeBase(w) \/ LoopTest(w) \/ PassDone(w) \/ Hang(w)
    PROVE  StreamInv'
<1>0. /\ buf[w] # <<>> => thread[w] = "notified"
      /\ base \in [Workers -> {"null", "live", "freed"}]
      /\ running[w] \in BOOLEAN
  BY Parts DEF StreamInv, StreamTypes, ThreadTypes
<1>1. UNCHANGED <<pipe, buf, running, sent, handled, cut, main, idx, letter>>
  BY DEF MakeBase, LoopTest, PassDone, Hang, pipeVars
<1>2. CASE MakeBase(w)
  <2>1. PICK done \in BOOLEAN :
          /\ thread[w] = "started"
          /\ thread' = [thread EXCEPT ![w] = IF done THEN "testing" ELSE "ended"]
          /\ base' = [base EXCEPT ![w] = IF done THEN "live" ELSE "null"]
    <3>1. Outcomes("event_base") \subseteq BOOLEAN
      BY DEF Outcomes
    <3>. QED
      BY <1>2, <3>1, Zenon DEF MakeBase, Moves
  <2>2. buf[w] = <<>> /\ \A v \in Workers \ {w} : base'[v] = base[v]
    BY <1>0, <2>1
  <2>3. CASE done
    BY <1>1, <2>1, <2>2, <2>3, ThreadMovesStream DEF ThreadStates
  <2>4. CASE ~done
    <3>1. base'[w] = "null"
      BY <1>0, <2>1, <2>4
    <3>. QED
      BY <1>1, <2>1, <2>2, <2>4, <3>1, ThreadMovesStream DEF ThreadStates
  <2>. QED
    BY <2>3, <2>4
<1>3. CASE LoopTest(w)
  <2>1. /\ thread[w] = "testing" /\ base' = base
        /\ thread' = [thread EXCEPT ![w] = IF running[w] THEN "polling" ELSE "ended"]
    BY <1>3 DEF LoopTest, Moves
  <2>2. buf[w] = <<>>
    BY <1>0, <2>1
  <2>3. CASE running[w]
    BY <1>1, <2>1, <2>2, <2>3, ThreadMovesStream DEF ThreadStates
  <2>4. CASE ~running[w]
    BY <1>1, <2>1, <2>2, <2>4, ThreadMovesStream DEF ThreadStates
  <2>. QED
    BY <2>3, <2>4
<1>4. CASE PassDone(w)
  <2>1. /\ thread[w] \in {"notified", "polling"} /\ base' = base /\ buf[w] = <<>>
        /\ thread' = [thread EXCEPT ![w] = "testing"]
    BY <1>4 DEF PassDone, Moves
  <2>. QED
    BY <1>1, <2>1, ThreadMovesStream DEF ThreadStates
<1>5. CASE Hang(w)
  <2>1. /\ thread[w] \in {"notified", "polling"} /\ base' = base
        /\ thread' = [thread EXCEPT ![w] = "hung"]
    BY <1>5 DEF Hang, InPass, Moves
  <2>2. buf[w] = <<>>
    BY <1>0, <1>5 DEF Hang, InPass
  <2>. QED
    BY <1>1, <2>1, <2>2, ThreadMovesStream DEF ThreadStates
<1>. QED
  BY <1>2, <1>3, <1>4, <1>5

\* The socketpair is readable: the worker receives.
LEMMA NotifiedStream ==
    ASSUME LifecycleInv, StreamInv, NEW w \in Workers, Notified(w)
    PROVE  StreamInv'
<1>0. StreamTypes /\ ThreadTypes
  BY Parts
<1>1. /\ thread[w] = "polling" /\ thread' = [thread EXCEPT ![w] = "notified"]
      /\ Recv(w)
      /\ UNCHANGED <<main, idx, base, letter>>
  BY DEF Notified, Moves
<1>2. /\ UNCHANGED <<running, sent, handled>>
      /\ \A v \in Workers \ {w} : pipe'[v] = pipe[v] /\ buf'[v] = buf[v]
  BY <1>0, <1>1 DEF Recv, StreamTypes
<1>3. /\ thread'[w] = "notified"
      /\ \A v \in Workers \ {w} : thread'[v] = thread[v]
  BY <1>0, <1>1 DEF ThreadTypes
<1>4. \A v \in Workers : buf'[v] # <<>> => thread'[v] = "notified"
  BY <1>2, <1>3 DEF StreamInv
<1>5. ASSUME ~cut' PROVE ~cut
  <2>1. cut' = (cut \/ ~ EndsRecord(w, Received(w)))
    BY <1>1 DEF Recv
  <2>. QED
    BY <1>5, <2>1, Zenon
<1>6. ASSUME NEW v \in Workers, ~cut'
      PROVE  Follows(v)' /\ RunsUnasked(v)' /\ Passed(v)'
  <2>1. Follows(v) /\ RunsUnasked(v) /\ Passed(v)
    BY <1>5, <1>6 DEF StreamInv
  <2>2. ASSUME v = w PROVE Follows(v)'
    <3>1. Follows(w) /\ Reads(w)
      BY <1>1, <2>1, <2>2 DEF Reads, At
    <3>2. Follows(w)'
      BY <1>0, <1>1, <1>6, <3>1, FollowsReceived
    <3>. QED
      BY <2>2, <3>2
  <2>3. ASSUME v # w PROVE Follows(v)'
    <3>1. Reads(v)' => Reads(v)
      BY <1>1, <1>2, <1>3, <2>3 DEF Reads, At
    <3>. QED
      BY <1>2, <2>1, <2>3, <3>1, FollowsKept
  <2>4. Follows(v)'
    BY <2>2, <2>3
  <2>5. RunsUnasked(v)'
    BY <1>1, <1>2, <1>3, <2>1 DEF RunsUnasked, Unasked, Joinable, Inside
  <2>6. Passed(v)'
    BY <1>1, <1>3, <2>1 DEF Passed, Joinable, Inside
  <2>. QED
    BY <2>4, <2>5, <2>6
<1>. QED
  BY <1>1, <1>2, <1>4, <1>5, <1>6 DEF StreamInv

\* A turn of handleNotify's loop: only a quit record that was written makes it stop.
LEMMA NotifyTurnStream ==
    ASSUME LifecycleInv, StreamInv, NEW w \in Workers, NotifyTurn(w)
    PROVE  StreamInv'
<1>0. StreamTypes /\ ThreadTypes
  BY Parts
<1>1. thread[w] = "notified" /\ HandleNotify(w)
      /\ UNCHANGED <<main, idx, thread, base, letter>>
  BY DEF NotifyTurn, threadVars
<1>2. /\ pipe' = pipe /\ sent' = sent /\ cut' = cut
      /\ \A v \in Workers \ {w} : /\ buf'[v] = buf[v] /\ running'[v] = running[v]
                                  /\ handled'[v] = handled[v]
      /\ handled' \in [Workers -> Seq(Seq(Bytes))]
  <2>1. CASE TakeQuit(w)
    <3>1. Append(handled[w], QuitRecord) \in Seq(Seq(Bytes))
      BY RecordTypes DEF StreamInv
    <3>. QED
      BY <1>0, <2>1, <3>1 DEF TakeQuit, StreamTypes, StreamInv
  <2>2. ASSUME NEW n \in Nat, n <= Len(buf[w]), Take(w, n), UNCHANGED running PROVE <1>2!:
    <3>1. SubSeq(buf[w], 1, n) \in Seq(Bytes)
      <4>1. buf[w] \in Seq(Bytes)
        BY <1>0 DEF StreamTypes
      <4>. QED
        BY <2>2, <4>1, PartTypes
    <3>2. Append(handled[w], SubSeq(buf[w], 1, n)) \in Seq(Seq(Bytes))
      BY <3>1 DEF StreamInv
    <3>. QED
      BY <1>0, <2>2, <3>2 DEF Take, StreamTypes, StreamInv
  <2>3. ASSUME NEW n, Lose(w, n) PROVE <1>2!:
    BY <1>0, <2>3 DEF Lose, StreamTypes, StreamInv
  <2>4. buf[w] \in Seq(Bytes)
    BY <1>0 DEF StreamTypes
  <2>5. CASE TakeAdd(w)
    BY <2>2, <2>4, <2>5 DEF TakeAdd, WholeAdd
  <2>6. CASE TakeSend(w)
    <3>1. SendLength(w) \in Nat
      <4>1. buf[w][3] \in Bytes
        BY <2>4, <2>6 DEF TakeSend, SendHeader
      <4>. QED
        BY <4>1 DEF SendLength, Bytes
    <3>. QED
      BY <2>2, <2>6, <3>1 DEF TakeSend
  <2>7. CASE GiveUp(w) \/ SkipByte(w)
    BY <2>3, <2>7 DEF GiveUp, SkipByte
  <2>. QED
    BY <1>1, <2>1, <2>5, <2>6, <2>7 DEF HandleNotify
<1>3. \A v \in Workers : buf'[v] # <<>> => thread'[v] = "notified"
  BY <1>1, <1>2 DEF StreamInv
<1>4. ASSUME NEW v \in Workers, ~cut
      PROVE  Follows(v)' /\ RunsUnasked(v)' /\ Passed(v)'
  <2>1. Follows(v) /\ RunsUnasked(v) /\ Passed(v)
    BY <1>4 DEF StreamInv
  <2>2. CASE v = w
    <3>1. Follows(w)'
      BY <1>0, <1>1, <2>1, <2>2, FollowsTurn
    <3>2. running' = running \/ \E i \in 1 .. Len(sent[w]) : sent[w][i] = QuitRecord
      <4>1. buf[w] # <<>>
        BY <1>1 DEF HandleNotify, TakeQuit, TakeAdd, WholeAdd, TakeSend, GiveUp, SendHeader,
                    SkipByte
      <4>2. Len(handled[w]) + 1 \in 1 .. Len(sent[w])
        BY <1>0, <2>1, <2>2, <4>1, NextIsWhole
      <4>3. running' = running \/ NextRecord(w) = QuitRecord
        BY <1>0, <1>1, <2>1, <2>2, TurnTakesRecord
      <4>. QED
        BY <4>2, <4>3 DEF NextRecord
    <3>3. RunsUnasked(w)'
      BY <1>1, <1>2, <2>1, <2>2, <3>2 DEF RunsUnasked, Unasked
    <3>. QED
      BY <1>1, <2>1, <2>2, <3>1, <3>3 DEF Passed
  <2>3. CASE v # w
    <3>1. Reads(v)' => Reads(v)
      BY <1>1, <1>2, <2>3 DEF Reads, At
    <3>2. Follows(v)'
      BY <1>2, <2>1, <2>3, <3>1, FollowsKept
    <3>3. RunsUnasked(v)'
      BY <1>1, <1>2, <2>1, <2>3 DEF RunsUnasked, Unasked
    <3>. QED
      BY <1>1, <2>1, <3>2, <3>3 DEF Passed
  <2>. QED
    BY <2>2, <2>3
<1>. QED
  BY <1>1, <1>2, <1>3, <1>4 DEF StreamInv
-----------------------------------------------------------------------------
LEMMA StreamStutter == StreamInv /\ UNCHANGED vars => StreamInv'
<1>. SUFFICES ASSUME StreamInv, UNCHANGED vars PROVE StreamInv'
  OBVIOUS
<1>1. UNCHANGED <<pipe, buf, running, sent, handled, cut, main, idx, thread, base, letter>>
  BY DEF vars, pipeVars, threadVars
<1>2. ASSUME NEW w \in Workers, Follows(w) PROVE Follows(w)'
  <2>1. Taken(w)'
    BY <1>1, <1>2 DEF Follows, Taken
  <2>2. InPlace(w)'
    BY Zenon, <1>1, <1>2 DEF Follows, InPlace, Reads, At
  <2>3. WholeRecords(w)'
    BY Zenon, <1>1, <1>2 DEF Follows, WholeRecords
  <2>. QED
    BY <2>1, <2>2, <2>3 DEF Follows
<1>3. ASSUME NEW w \in Workers, RunsUnasked(w) PROVE RunsUnasked(w)'
  BY Zenon, <1>1, <1>3 DEF RunsUnasked, Unasked
<1>4. ASSUME NEW w \in Workers, Passed(w) PROVE Passed(w)'
  BY Zenon, <1>1, <1>4 DEF Passed
<1>. QED
  BY <1>1, <1>2, <1>3, <1>4 DEF StreamInv

LEMMA StreamStep == LifecycleInv /\ StreamInv /\ [Next]_vars => StreamInv'
<1>. SUFFICES ASSUME LifecycleInv, StreamInv, [Next]_vars PROVE StreamInv'
  OBVIOUS
<1>1. CASE MainStep
  BY <1>1, StartWorkerStream, MainMovesStream, AcceptStream, StopWorkerStream,
     JoinWorkerStream DEF MainStep
<1>2. ASSUME NEW w \in Workers, LoopStep(w) \/ Hang(w) PROVE StreamInv'
  BY <1>2, LoopMovesStream, NotifiedStream, NotifyTurnStream, SendNoteStream DEF LoopStep
<1>3. ASSUME NEW w \in Workers, NEW fd \in Fds, Forward(w, fd) PROVE StreamInv'
  BY <1>3, ForwardStream
<1>4. CASE UNCHANGED vars
  BY <1>4, StreamStutter
<1>. QED
  BY <1>1, <1>2, <1>3, <1>4 DEF Next

LEMMA StreamHolds == Spec => [](LifecycleInv /\ StreamInv)
<1>1. Init => LifecycleInv /\ StreamInv
  BY InitInv, StreamInit
<1>2. LifecycleInv /\ StreamInv /\ [Next]_vars => (LifecycleInv /\ StreamInv)'
  BY StepInv, StreamStep
<1>. QED
  BY <1>1, <1>2, PTL DEF Spec

\* Unless a record was cut in two, each worker takes the records written to it, in their
\* order, whatever their bytes are (addClient, notifySendMessage, handleNotify).
THEOREM RecordsInOrder == Spec => []PipeInOrder
<1>1. LifecycleInv /\ StreamInv => PipeInOrder
  <2>. SUFFICES ASSUME LifecycleInv, StreamInv, ~cut, NEW w \in Workers
                PROVE  IsPrefix(handled[w], sent[w])
    BY DEF PipeInOrder
  <2>. DEFINE h == handled[w]
              s == sent[w]
              n == Len(h)
  <2>1. /\ h \in Seq(Seq(Bytes)) /\ s \in Seq(Seq(Bytes)) /\ n \in Nat /\ Len(s) \in Nat
        /\ n <= Len(s) /\ \A i \in 1 .. n : h[i] = s[i]
    BY Parts, StreamIs DEF StreamInv, Follows, Taken
  <2>. HIDE DEF h, s
  <2>2. n \in 0 .. Len(s) /\ n \in 0 .. Len(h)
    BY <2>1
  <2>. DEFINE front == SubSeq(s, 1, n)
              all == SubSeq(h, 1, n)
  <2>3. /\ front \in Seq(Seq(Bytes)) /\ Len(front) = n
        /\ \A i \in 1 .. n : front[i] = s[i]
    BY <2>1, <2>2, CutIs
  <2>4. /\ all \in Seq(Seq(Bytes)) /\ Len(all) = n
        /\ \A i \in 1 .. n : all[i] = h[i]
    BY <2>1, <2>2, CutIs
  <2>. HIDE DEF front, all
  <2>5. all = front
    BY <2>1, <2>3, <2>4, SameSeq
  <2>. QED
    BY <2>1, <2>5 DEF IsPrefix, front, all, h, s
<1>. QED
  BY <1>1, StreamHolds, PTL

\* Unless a record was cut in two, a worker leaves its loop only when Server::stop told it
\* to, and stop leaves no thread that could be joined: the destructor of std::thread does
\* not terminate the process (handleNotify, threadMain, WorkerThread::stop, Server::stop).
THEOREM WorkersStopOnlyAsked == Spec => []StopsOnlyAsked
<1>1. LifecycleInv /\ StreamInv => StopsOnlyAsked
  BY DEF StopsOnlyAsked, StreamInv, RunsUnasked, Unasked
<1>. QED
  BY <1>1, StreamHolds, PTL
=============================================================================
