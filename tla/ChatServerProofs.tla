-------------------------- MODULE ChatServerProofs --------------------------
(***************************************************************************)
(* The connection layer never gives one socket to two workers and never    *)
(* routes a message to the wrong worker.  The handlers of the chat server  *)
(* keep their types and the connections they serve, and the chat server is *)
(* an implementation of the connection layer alone.  All this is for any   *)
(* number of workers, clients, users and descriptors, any capacity of the  *)
(* socketpairs, any reuse of descriptors, any failing queries and any      *)
(* number of crashes.                                                      *)
(***************************************************************************)
EXTENDS ChatServer, TLAPS
-----------------------------------------------------------------------------
(* The connection layer. *)

USE ConnAssumption DEF Workers

\* The two kinds of records.
LEMMA NoteTypes ==
    /\ \A fd \in Fds : [type |-> "c", fd |-> fd] \in Note
    /\ \A fd \in Fds, msg \in Msgs : [type |-> "s", fd |-> fd, msg |-> msg] \in Note
    /\ \A note \in Note : note.fd \in Fds
BY DEF Note

\* A send to a socketpair (Enqueue) leaves records in it.
LEMMA EnqueueType ==
    ASSUME pipe \in [Workers -> Seq(Note)], NEW w \in Workers, NEW note \in Note
    PROVE  Enqueue(w, note) \in [Workers -> Seq(Note)]
BY DEF Enqueue

\* What a receive leaves.
LEMMA TailFacts ==
    ASSUME pipe \in [Workers -> Seq(Note)], NEW w \in Workers, pipe[w] # <<>>
    PROVE  /\ [pipe EXCEPT ![w] = Tail(@)] \in [Workers -> Seq(Note)]
           /\ Head(pipe[w]) \in Note
           /\ Head(pipe[w]) = pipe[w][1]
           /\ Len(Tail(pipe[w])) = Len(pipe[w]) - 1
           /\ Len(pipe[w]) \in Nat \ {0}
           /\ \A i \in 1 .. Len(Tail(pipe[w])) : Tail(pipe[w])[i] = pipe[w][i + 1]
<1> DEFINE s == pipe[w]
<1>1. s \in Seq(Note) /\ s # <<>>
  OBVIOUS
<1>2. Head(s) \in Note /\ Head(s) = s[1] /\ Tail(s) \in Seq(Note) /\ Len(s) \in Nat \ {0}
  BY <1>1
<1>3. Len(Tail(s)) = Len(s) - 1 /\ \A i \in 1 .. Len(Tail(s)) : Tail(s)[i] = s[i + 1]
  BY <1>1, <1>2
<1> QED
  BY <1>2, <1>3
-----------------------------------------------------------------------------
(* What the announcements are after a send and after a receive. *)

\* A send (addClient, notifySendMessage) adds at most one announcement, at the back.
LEMMA PendingAfterSend ==
    ASSUME ConnTypeOK, NEW w \in Workers, NEW note \in Note, pipe' = Enqueue(w, note),
           NEW fd \in Fds, NEW v \in Workers, NEW i \in Nat, Pending(fd, v, i)'
    PROVE  \/ Pending(fd, v, i)
           \/ note.type = "c" /\ note.fd = fd /\ v = w /\ i = Len(pipe[w]) + 1
<1>1. pipe \in [Workers -> Seq(Note)]
  BY DEF ConnTypeOK
<1>2. CASE v # w
  <2>1. pipe'[v] = pipe[v]
    BY <1>1, <1>2 DEF Enqueue
  <2> QED
    BY <2>1 DEF Pending
<1>3. CASE v = w
  <2>1. CASE pipe'[w] = pipe[w]
    BY <1>3, <2>1 DEF Pending
  <2>2. CASE pipe'[w] = Append(pipe[w], note)
    <3>1. /\ Len(pipe[w]) \in Nat
          /\ Len(pipe'[w]) = Len(pipe[w]) + 1
          /\ \A k \in 1 .. Len(pipe[w]) : pipe'[w][k] = pipe[w][k]
          /\ pipe'[w][Len(pipe[w]) + 1] = note
      BY <1>1, <2>2
    <3> QED
      BY <1>3, <3>1 DEF Pending
  <2> QED
    BY <1>1, <2>1, <2>2 DEF Enqueue
<1> QED
  BY <1>2, <1>3

\* A receive (handleNotify) moves worker w's announcements one place forward.
LEMMA PendingAfterReceive ==
    ASSUME ConnTypeOK, NEW w \in Workers, pipe[w] # <<>>,
           pipe' = [pipe EXCEPT ![w] = Tail(@)],
           NEW fd \in Fds, NEW v \in Workers, NEW i \in Nat, Pending(fd, v, i)'
    PROVE  IF v = w THEN Pending(fd, v, i + 1) ELSE Pending(fd, v, i)
<1>1. pipe \in [Workers -> Seq(Note)]
  BY DEF ConnTypeOK
<1>2. CASE v # w
  BY <1>1, <1>2 DEF Pending
<1>3. CASE v = w
  BY <1>1, <1>3, TailFacts DEF Pending
<1> QED
  BY <1>2, <1>3

\* The announcement a worker is about to act on.
LEMMA HeadPending ==
    ASSUME ConnTypeOK, NEW w \in Workers, pipe[w] # <<>>, Head(pipe[w]).type = "c"
    PROVE  Head(pipe[w]).fd \in Fds /\ Pending(Head(pipe[w]).fd, w, 1)
<1>1. pipe \in [Workers -> Seq(Note)]
  BY DEF ConnTypeOK
<1> QED
  BY <1>1, TailFacts, NoteTypes DEF Pending
-----------------------------------------------------------------------------
(* The type invariant. *)

\* A fresh server (Server::Server) has the types of connVars.
LEMMA ConnTypeInit == ConnInit => ConnTypeOK
BY DEF ConnInit, ConnTypeOK, IdleMain, NoWorker

\* Every step of the main thread, the workers and the kernel keeps the types.
LEMMA ConnTypeStep == ConnTypeOK /\ [ConnNext]_connVars => ConnTypeOK'
<1> SUFFICES ASSUME ConnTypeOK, [ConnNext]_connVars PROVE ConnTypeOK'
  OBVIOUS
<1> USE DEF ConnTypeOK, NoWorker, IdleMain
<1>1. ASSUME NEW c \in Conns, Accept(c) PROVE ConnTypeOK'
  <2>1. NextIndex \in Workers
    BY DEF NextIndex
  <2>2. PICK fd \in FdsFor[c] :
          /\ sock' = [sock EXCEPT ![fd] = c]
          /\ pipe' = Enqueue(nextWorkerIndex, [type |-> "c", fd |-> fd])
          /\ main' = [fd |-> fd, worker |-> nextWorkerIndex]
    BY <1>1 DEF Accept
  <2>3. fd \in Fds
    OBVIOUS
  <2>4. pipe' \in [Workers -> Seq(Note)]
    BY <2>2, <2>3, EnqueueType, NoteTypes
  <2> QED
    BY <1>1, <2>1, <2>2, <2>3, <2>4 DEF Accept
<1>2. CASE RegisterFd
  BY <1>2 DEF RegisterFd, Route
<1>3. ASSUME NEW w \in Workers, HandleAdd(w) PROVE ConnTypeOK'
  <2>1. pipe' \in [Workers -> Seq(Note)] /\ Head(pipe[w]).fd \in Fds
    BY <1>3, TailFacts, NoteTypes DEF HandleAdd, KeepClient
  <2>2. clients' \in [Workers -> SUBSET Fds]
    BY <1>3, <2>1 DEF HandleAdd, KeepClient
  <2> QED
    BY <1>3, <2>1, <2>2 DEF HandleAdd, KeepClient
<1>4. ASSUME NEW w \in Workers, HandleSend(w) PROVE ConnTypeOK'
  BY <1>4, TailFacts DEF HandleSend
<1>5. ASSUME NEW w \in Workers, NEW fd \in Fds, NEW msg \in Msgs,
             NotifySendMessage(w, fd, msg)
      PROVE  ConnTypeOK'
  BY <1>5, EnqueueType, NoteTypes DEF NotifySendMessage
<1>6. ASSUME NEW w \in Workers, NEW fd \in Fds, RemoveClient(w, fd) PROVE ConnTypeOK'
  BY <1>6 DEF RemoveClient, DropClient
<1>7. CASE Crash
  <2>1. pipe' \in [Workers -> Seq(Note)] /\ clients' \in [Workers -> SUBSET Fds]
    BY <1>7 DEF Crash
  <2>2. 0 \in Workers /\ crashes' \in Nat
    BY <1>7 DEF Crash
  <2> QED
    BY <1>7, <2>1, <2>2 DEF Crash
<1>8. CASE Start
  BY <1>8 DEF Start
<1>9. ASSUME NEW w \in Workers, RefuseAdd(w) PROVE ConnTypeOK'
  BY <1>9, TailFacts DEF RefuseAdd
<1>10. CASE UNCHANGED connVars
  BY <1>10 DEF connVars
<1> QED
  BY <1>1, <1>2, <1>3, <1>4, <1>5, <1>6, <1>7, <1>8, <1>9, <1>10 DEF ConnNext

\* connVars always have their types, for every value of the constants.
THEOREM ConnTypeCorrect == ConnSpec => []ConnTypeOK
BY ConnTypeInit, ConnTypeStep, PTL DEF ConnSpec
-----------------------------------------------------------------------------
(* Ownership and Routing.  ConnInv is inductive; its conjunct OpenAccepted  *)
(* is what keeps a new connection distinct from all the open ones.          *)

\* A fresh server owns, announces and routes nothing.
LEMMA InvInit == ConnInit => ConnInv
<1> SUFFICES ASSUME ConnInit PROVE ConnInv
  OBVIOUS
<1>1. ConnTypeOK
  BY ConnTypeInit
<1>2. \A fd \in Fds, w \in Workers : \A i \in Nat : ~ Pending(fd, w, i)
  BY DEF ConnInit, Pending
<1>3. OpenAccepted /\ Ownership /\ Routing
  BY <1>2 DEF ConnInit, OpenAccepted, Ownership, OneOwner, OwnedOpen, AnnouncedOnce,
              OneDescriptor, Routing, Claims
<1> QED
  BY <1>1, <1>3 DEF ConnInv

\* A claim is an entry of clients_ or an announcement at some position.
LEMMA ClaimCases ==
    ASSUME ConnTypeOK, NEW fd \in Fds, NEW w \in Workers
    PROVE  Claims(fd, w) <=> fd \in clients[w] \/ \E i \in Nat : Pending(fd, w, i)
<1>1. Len(pipe[w]) \in Nat
  BY DEF ConnTypeOK
<1> QED
  BY <1>1 DEF Claims, Pending

\* AnnouncedOnce without the bounds that Pending implies, and with one announcement
\* at a time.
Announced(fd, w, i) ==
    Pending(fd, w, i) =>
      /\ sock[fd] # NoConn
      /\ \A v \in Workers : fd \notin clients[v]
      /\ \A v \in Workers : \A j \in Nat : Pending(fd, v, j) => v = w /\ j = i

\* AnnouncedOnce speaks of each announcement waiting in a socketpair.
LEMMA AnnouncedNow ==
    ASSUME ConnTypeOK, AnnouncedOnce
    PROVE  \A fd \in Fds, w \in Workers : \A i \in Nat : Announced(fd, w, i)
<1>1. \A w \in Workers : Len(pipe[w]) \in Nat
  BY DEF ConnTypeOK
<1> QED
  BY <1>1 DEF AnnouncedOnce, Announced, Pending

\* The same in the next state, which is how a step of handleNotify or
\* dispatchClient is shown to keep AnnouncedOnce.
LEMMA AnnouncedNext ==
    ASSUME \A fd \in Fds, w \in Workers : \A i \in Nat : Announced(fd, w, i)'
    PROVE  AnnouncedOnce'
BY DEF AnnouncedOnce, Announced, Pending

\* A step that leaves alone who owns what.
LEMMA InvFrame ==
    ASSUME ConnInv,
           UNCHANGED <<accepted, sock, clients>>,
           \A fd \in Fds, w \in Workers : \A i \in Nat :
             Pending(fd, w, i)' => Pending(fd, w, i)
    PROVE  OpenAccepted' /\ Ownership'
<1>1. OpenAccepted' /\ OneOwner' /\ OwnedOpen' /\ OneDescriptor'
  BY DEF ConnInv, OpenAccepted, Ownership, OneOwner, OwnedOpen, OneDescriptor
<1>2. AnnouncedOnce'
  <2>1. \A fd \in Fds, w \in Workers : \A i \in Nat : Announced(fd, w, i)
    BY AnnouncedNow DEF ConnInv, Ownership
  <2> QED
    BY <2>1, AnnouncedNext DEF Announced
<1> QED
  BY <1>1, <1>2 DEF Ownership

\* A new connection on a descriptor that was closed: nobody claimed it.
LEMMA InvAccept ==
    ASSUME ConnInv, NEW c \in Conns, Accept(c)
    PROVE  OpenAccepted' /\ Ownership' /\ Routing'
<1> USE DEF ConnInv, Ownership
<1>0. ConnTypeOK /\ nextWorkerIndex \in Workers
  BY DEF ConnTypeOK
<1>1. PICK new \in FdsFor[c] :
        /\ sock[new] = NoConn
        /\ sock' = [sock EXCEPT ![new] = c]
        /\ pipe' = Enqueue(nextWorkerIndex, [type |-> "c", fd |-> new])
        /\ main' = [fd |-> new, worker |-> nextWorkerIndex]
  BY DEF Accept
<1>2. new \in Fds /\ c # NoConn /\ c \notin accepted /\ main.fd = NoFd
  BY DEF Accept
<1>3. sock \in [Fds -> Conns \cup {NoConn}]
  BY DEF ConnTypeOK
<1>4. /\ sock'[new] = c
      /\ \A fd \in Fds : fd # new => sock'[fd] = sock[fd]
  BY <1>1, <1>2, <1>3
<1>5. \A fd \in Fds : sock[fd] # c
  BY <1>2 DEF OpenAccepted
<1>6. OpenAccepted' /\ OneDescriptor'
  BY <1>2, <1>4, <1>5 DEF OpenAccepted, OneDescriptor, Accept
<1>7. \A v \in Workers : new \notin clients[v]
  BY <1>1 DEF OwnedOpen
<1>8. \A fd \in Fds, v \in Workers : \A i \in Nat : Announced(fd, v, i)
  BY <1>0, AnnouncedNow
<1>9. \A v \in Workers : \A i \in Nat : ~ Pending(new, v, i)
  BY <1>1, <1>2, <1>8 DEF Announced
<1>10. OneOwner' /\ OwnedOpen'
  <2>1. clients' = clients
    BY DEF Accept
  <2>2. \A v \in Workers : clients[v] \subseteq Fds
    BY DEF ConnTypeOK
  <2> QED
    BY <1>4, <1>7, <2>1, <2>2 DEF OneOwner, OwnedOpen
<1>11. \A fd \in Fds, v \in Workers : \A i \in Nat :
         Pending(fd, v, i)' => \/ Pending(fd, v, i)
                               \/ /\ fd = new /\ v = nextWorkerIndex
                                  /\ i = Len(pipe[nextWorkerIndex]) + 1
  BY <1>0, <1>1, <1>2, NoteTypes, PendingAfterSend
<1>12. AnnouncedOnce'
  <2> SUFFICES ASSUME NEW fd \in Fds, NEW v \in Workers, NEW i \in Nat, Pending(fd, v, i)'
               PROVE  /\ sock'[fd] # NoConn
                      /\ \A u \in Workers : fd \notin clients'[u]
                      /\ \A u \in Workers : \A j \in Nat :
                           Pending(fd, u, j)' => u = v /\ j = i
    BY AnnouncedNext DEF Announced
  <2>1. clients' = clients
    BY DEF Accept
  <2>2. CASE fd = new
    BY <1>2, <1>4, <1>7, <1>9, <1>11, <2>1, <2>2
  <2>3. CASE fd # new
    BY <1>4, <1>8, <1>11, <2>1, <2>3 DEF Announced
  <2> QED
    BY <2>2, <2>3
<1>13. Routing'
  <2> SUFFICES ASSUME NEW fd \in Fds, NEW v \in Workers, Claims(fd, v)'
               PROVE  (IF main.fd = fd THEN main.worker = v ELSE fdToWorker[fd] = v)'
    BY DEF Routing
  <2>1. fd \in clients[v] \/ \E i \in Nat : Pending(fd, v, i)'
    BY DEF Claims, Accept, Pending
  <2>2. CASE fd = new
    BY <1>1, <1>7, <1>9, <1>11, <2>1, <2>2
  <2>3. CASE fd # new
    <3>1. Claims(fd, v)
      BY <1>0, <1>11, <2>1, <2>3, ClaimCases
    <3>2. fdToWorker[fd] = v
      BY <1>2, <3>1 DEF Routing
    <3> QED
      BY <1>1, <2>3, <3>2 DEF Accept
  <2> QED
    BY <2>2, <2>3
<1> QED
  BY <1>6, <1>10, <1>12, <1>13
\* What is announced after a receive was so before, one place further back, so
\* it is still open, unowned and announced once.
LEMMA AnnouncedAfterReceive ==
    ASSUME ConnTypeOK, AnnouncedOnce, NEW w \in Workers, pipe[w] # <<>>,
           pipe' = [pipe EXCEPT ![w] = Tail(@)],
           NEW fd \in Fds, NEW v \in Workers, NEW i \in Nat, Pending(fd, v, i)'
    PROVE  /\ Claims(fd, v)
           /\ sock[fd] # NoConn
           /\ \A u \in Workers : fd \notin clients[u]
           /\ \A u \in Workers : \A j \in Nat : Pending(fd, u, j)' => u = v /\ j = i
<1>1. \A u \in Workers : \A j \in Nat :
        Pending(fd, u, j)' => IF u = w THEN Pending(fd, u, j + 1) ELSE Pending(fd, u, j)
  BY PendingAfterReceive
<1>2. \E k \in Nat : Pending(fd, v, k) /\ k = IF v = w THEN i + 1 ELSE i
  BY <1>1
<1>3. /\ sock[fd] # NoConn
      /\ \A u \in Workers : fd \notin clients[u]
      /\ \A u \in Workers : \A j \in Nat :
           Pending(fd, u, j) => u = v /\ j = IF v = w THEN i + 1 ELSE i
  BY <1>2, AnnouncedNow DEF Announced
<1>4. \A u \in Workers : \A j \in Nat : Pending(fd, u, j)' => u = v /\ j = i
  BY <1>1, <1>3
<1> QED
  BY <1>2, <1>3, <1>4, ClaimCases

\* An announced descriptor becomes an owned one.
LEMMA InvAdd ==
    ASSUME ConnInv, NEW w \in Workers, HandleAdd(w)
    PROVE  OpenAccepted' /\ Ownership' /\ Routing'
<1> USE DEF ConnInv, Ownership
<1>0. ConnTypeOK
  OBVIOUS
<1>1. PICK new \in Fds : new = Head(pipe[w]).fd /\ Pending(new, w, 1)
  BY <1>0, HeadPending DEF HandleAdd, KeepClient
<1>2. clients \in [Workers -> SUBSET Fds] /\ clients' = [clients EXCEPT ![w] = @ \cup {new}]
  BY <1>1 DEF HandleAdd, KeepClient, ConnTypeOK
<1>3. \A v \in Workers : clients'[v] = IF v = w THEN clients[w] \cup {new} ELSE clients[v]
  BY <1>2
<1>4. \A fd \in Fds, v \in Workers : \A i \in Nat : Announced(fd, v, i)
  BY <1>0, AnnouncedNow
<1>5. /\ sock[new] # NoConn
      /\ \A v \in Workers : new \notin clients[v]
      /\ \A v \in Workers : \A j \in Nat : Pending(new, v, j) => v = w /\ j = 1
  BY <1>1, <1>4 DEF Announced
<1>6. \A fd \in Fds, v \in Workers : \A i \in Nat :
        Pending(fd, v, i)' => IF v = w THEN Pending(fd, v, i + 1) ELSE Pending(fd, v, i)
  BY <1>0, PendingAfterReceive DEF HandleAdd, KeepClient
<1>7. \A v \in Workers : \A i \in Nat : ~ Pending(new, v, i)'
  <2> SUFFICES ASSUME NEW v \in Workers, NEW i \in Nat, Pending(new, v, i)' PROVE FALSE
    OBVIOUS
  <2>1. i \in Nat \ {0}
    BY DEF Pending
  <2>2. IF v = w THEN Pending(new, v, i + 1) ELSE Pending(new, v, i)
    BY <1>1, <1>6
  <2> QED
    BY <1>5, <2>1, <2>2
<1>8. OpenAccepted' /\ OneDescriptor'
  BY DEF HandleAdd, KeepClient, OpenAccepted, OneDescriptor
<1>9. OneOwner' /\ OwnedOpen'
  BY SMTT(20), <1>3, <1>5 DEF HandleAdd, KeepClient, OneOwner, OwnedOpen
<1>10. AnnouncedOnce'
  <2> SUFFICES ASSUME NEW fd \in Fds, NEW v \in Workers, NEW i \in Nat, Pending(fd, v, i)'
               PROVE  /\ sock'[fd] # NoConn
                      /\ \A u \in Workers : fd \notin clients'[u]
                      /\ \A u \in Workers : \A j \in Nat :
                           Pending(fd, u, j)' => u = v /\ j = i
    BY AnnouncedNext DEF Announced
  <2>1. fd # new
    BY <1>7
  <2>2. /\ sock[fd] # NoConn
        /\ \A u \in Workers : fd \notin clients[u]
        /\ \A u \in Workers : \A j \in Nat : Pending(fd, u, j)' => u = v /\ j = i
    BY <1>0, AnnouncedAfterReceive DEF HandleAdd, KeepClient
  <2>3. \A u \in Workers : fd \notin clients'[u]
    <3> SUFFICES ASSUME NEW u \in Workers PROVE fd \notin clients'[u]
      OBVIOUS
    <3>1. clients'[u] \subseteq clients[u] \cup {new}
      BY <1>3
    <3> QED
      BY <2>1, <2>2, <3>1
  <2>4. sock' = sock
    BY DEF HandleAdd, KeepClient
  <2> QED
    BY <2>2, <2>3, <2>4
<1>11. Routing'
  <2> SUFFICES ASSUME NEW fd \in Fds, NEW v \in Workers, Claims(fd, v)'
               PROVE  (IF main.fd = fd THEN main.worker = v ELSE fdToWorker[fd] = v)'
    BY DEF Routing
  <2>0. fd \in clients'[v] \/ \E i \in Nat : Pending(fd, v, i)'
    BY DEF Claims, Pending
  <2>1. \/ fd \in clients[v]
        \/ fd = new /\ v = w
        \/ \E i \in Nat : Pending(fd, v, i)'
    BY <1>3, <2>0
  <2>2. Claims(new, w)
    BY <1>0, <1>1, ClaimCases
  <2>3. Claims(fd, v)
    BY <1>0, <2>1, <2>2, AnnouncedAfterReceive DEF HandleAdd, KeepClient, Claims
  <2> QED
    BY <2>3 DEF Routing, HandleAdd
<1> QED
  BY <1>8, <1>9, <1>10, <1>11

\* Reading an 's' record changes no claim.
LEMMA InvSend ==
    ASSUME ConnInv, NEW w \in Workers, HandleSend(w)
    PROVE  OpenAccepted' /\ Ownership' /\ Routing'
<1> USE DEF ConnInv, Ownership
<1>0. ConnTypeOK
  OBVIOUS
<1>1. OpenAccepted' /\ OneDescriptor' /\ OneOwner' /\ OwnedOpen'
  BY DEF HandleSend, OpenAccepted, OneDescriptor, OneOwner, OwnedOpen
<1>2. AnnouncedOnce'
  <2> SUFFICES ASSUME NEW fd \in Fds, NEW v \in Workers, NEW i \in Nat, Pending(fd, v, i)'
               PROVE  /\ sock'[fd] # NoConn
                      /\ \A u \in Workers : fd \notin clients'[u]
                      /\ \A u \in Workers : \A j \in Nat :
                           Pending(fd, u, j)' => u = v /\ j = i
    BY AnnouncedNext DEF Announced
  <2> QED
    BY <1>0, AnnouncedAfterReceive DEF HandleSend
<1>3. Routing'
  <2> SUFFICES ASSUME NEW fd \in Fds, NEW v \in Workers, Claims(fd, v)'
               PROVE  (IF main.fd = fd THEN main.worker = v ELSE fdToWorker[fd] = v)'
    BY DEF Routing
  <2>1. fd \in clients[v] \/ \E i \in Nat : Pending(fd, v, i)'
    BY DEF Claims, Pending, HandleSend
  <2>2. Claims(fd, v)
    BY <1>0, <2>1, AnnouncedAfterReceive DEF HandleSend, Claims
  <2> QED
    BY <2>2 DEF Routing, HandleSend
<1> QED
  BY <1>1, <1>2, <1>3
\* A descriptor is forgotten and closed: it was owned, so it was not announced.
LEMMA InvRemove ==
    ASSUME ConnInv, NEW w \in Workers, NEW old \in Fds, RemoveClient(w, old)
    PROVE  OpenAccepted' /\ Ownership' /\ Routing'
<1> USE DEF ConnInv, Ownership
<1>0. ConnTypeOK
  OBVIOUS
<1>1. /\ old \in clients[w]
      /\ \A v \in Workers : clients'[v] = IF v = w THEN clients[w] \ {old} ELSE clients[v]
      /\ \A fd \in Fds : sock'[fd] = IF fd = old THEN NoConn ELSE sock[fd]
      /\ UNCHANGED <<accepted, main, pipe, fdToWorker>>
  BY DEF RemoveClient, DropClient, ConnTypeOK
<1>2. \A v \in Workers : clients'[v] \subseteq clients[v] /\ old \notin clients'[v]
  BY <1>1 DEF OneOwner
<1>3. \A fd \in Fds, v \in Workers : \A i \in Nat : Announced(fd, v, i)
  BY <1>0, AnnouncedNow
<1>4. \A fd \in Fds, v \in Workers : \A i \in Nat : Pending(fd, v, i)' = Pending(fd, v, i)
  BY <1>1 DEF Pending
<1>5. OpenAccepted' /\ OneDescriptor'
  BY <1>1 DEF OpenAccepted, OneDescriptor
<1>6. OneOwner' /\ OwnedOpen'
  <2>1. \A v \in Workers : clients[v] \subseteq Fds
    BY DEF ConnTypeOK
  <2> QED
    BY <1>1, <1>2, <2>1 DEF OneOwner, OwnedOpen
<1>7. AnnouncedOnce'
  <2> SUFFICES ASSUME NEW fd \in Fds, NEW v \in Workers, NEW i \in Nat
               PROVE  Announced(fd, v, i)'
    BY AnnouncedNext
  <2> QED
    BY <1>1, <1>2, <1>3, <1>4 DEF Announced
<1>8. Routing'
  <2> SUFFICES ASSUME NEW fd \in Fds, NEW v \in Workers, Claims(fd, v)'
               PROVE  (IF main.fd = fd THEN main.worker = v ELSE fdToWorker[fd] = v)'
    BY DEF Routing
  <2>1. Claims(fd, v)
    BY <1>1, <1>2 DEF Claims, Pending
  <2> QED
    BY <1>1, <2>1 DEF Routing
<1> QED
  BY <1>5, <1>6, <1>7, <1>8

\* An announced descriptor is closed instead: nobody owned it, and it was announced
\* only here.
LEMMA InvRefuse ==
    ASSUME ConnInv, NEW w \in Workers, RefuseAdd(w)
    PROVE  OpenAccepted' /\ Ownership' /\ Routing'
<1> USE DEF ConnInv, Ownership
<1>0. ConnTypeOK /\ pipe[w] # <<>> /\ pipe' = [pipe EXCEPT ![w] = Tail(@)]
  BY DEF RefuseAdd
<1>1. PICK old \in Fds : old = Head(pipe[w]).fd /\ Pending(old, w, 1)
  BY <1>0, HeadPending DEF RefuseAdd
<1>2. /\ \A fd \in Fds : sock'[fd] = IF fd = old THEN NoConn ELSE sock[fd]
      /\ UNCHANGED <<accepted, main, clients, fdToWorker>>
  BY <1>1 DEF RefuseAdd, ConnTypeOK
<1>3. /\ \A v \in Workers : old \notin clients[v]
      /\ \A v \in Workers : \A j \in Nat : Pending(old, v, j) => v = w /\ j = 1
  BY <1>0, <1>1, AnnouncedNow DEF Announced
<1>4. OpenAccepted' /\ OneDescriptor'
  BY <1>2 DEF OpenAccepted, OneDescriptor
<1>5. OneOwner' /\ OwnedOpen'
  <2>1. \A v \in Workers : clients[v] \subseteq Fds
    BY DEF ConnTypeOK
  <2> QED
    BY <1>2, <1>3, <2>1 DEF OneOwner, OwnedOpen
<1>6. ASSUME NEW fd \in Fds, NEW v \in Workers, NEW i \in Nat, Pending(fd, v, i)'
      PROVE  fd # old
  <2>1. i # 0
    BY <1>6 DEF Pending
  <2>2. IF v = w THEN Pending(fd, v, i + 1) ELSE Pending(fd, v, i)
    BY <1>0, <1>6, PendingAfterReceive
  <2> QED
    BY <1>3, <2>1, <2>2
<1>7. AnnouncedOnce'
  <2> SUFFICES ASSUME NEW fd \in Fds, NEW v \in Workers, NEW i \in Nat, Pending(fd, v, i)'
               PROVE  /\ sock'[fd] # NoConn
                      /\ \A u \in Workers : fd \notin clients'[u]
                      /\ \A u \in Workers : \A j \in Nat :
                           Pending(fd, u, j)' => u = v /\ j = i
    BY AnnouncedNext DEF Announced
  <2> QED
    BY <1>0, <1>2, <1>6, AnnouncedAfterReceive
<1>8. Routing'
  <2> SUFFICES ASSUME NEW fd \in Fds, NEW v \in Workers, Claims(fd, v)'
               PROVE  (IF main.fd = fd THEN main.worker = v ELSE fdToWorker[fd] = v)'
    BY DEF Routing
  <2>1. fd \in clients[v] \/ \E i \in Nat : Pending(fd, v, i)'
    BY <1>2 DEF Claims, Pending
  <2>2. Claims(fd, v)
    BY <1>0, <2>1, AnnouncedAfterReceive DEF Claims
  <2> QED
    BY <1>2, <2>2 DEF Routing
<1> QED
  BY <1>4, <1>5, <1>7, <1>8

\* Every step of the connection layer (dispatchClient, handleNotify, eventCallback,
\* a crash, a start) keeps the inductive invariant.
LEMMA InvStep == ConnInv /\ [ConnNext]_connVars => ConnInv'
<1> SUFFICES ASSUME ConnInv, [ConnNext]_connVars PROVE ConnInv'
  OBVIOUS
<1>1. ConnTypeOK'
  BY ConnTypeStep DEF ConnInv
<1>2. ASSUME UNCHANGED <<accepted, sock, clients, pipe>>
      PROVE  OpenAccepted' /\ Ownership' /\ \A fd, w : Claims(fd, w)' = Claims(fd, w)
  BY <1>2, InvFrame DEF Pending, Claims
<1>3. ASSUME NEW c \in Conns, Accept(c) PROVE ConnInv'
  BY <1>1, <1>3, InvAccept DEF ConnInv
<1>4. CASE RegisterFd
  <2>1. UNCHANGED <<accepted, sock, clients, pipe>> /\ main.fd \in Fds /\ main'.fd = NoFd
    BY <1>4 DEF RegisterFd, ConnInv, ConnTypeOK, IdleMain
  <2>2. \A fd \in Fds : fdToWorker'[fd] = IF fd = main.fd THEN main.worker ELSE fdToWorker[fd]
    BY <1>4 DEF RegisterFd, Route, ConnInv, ConnTypeOK
  <2>3. Routing'
    BY <1>2, <2>1, <2>2 DEF Routing, ConnInv
  <2> QED
    BY <1>1, <1>2, <2>1, <2>3 DEF ConnInv
<1>5. ASSUME NEW w \in Workers, HandleAdd(w) PROVE ConnInv'
  BY <1>1, <1>5, InvAdd DEF ConnInv
<1>6. ASSUME NEW w \in Workers, HandleSend(w) PROVE ConnInv'
  BY <1>1, <1>6, InvSend DEF ConnInv
<1>7. ASSUME NEW w \in Workers, NEW fd \in Fds, NEW msg \in Msgs,
             NotifySendMessage(w, fd, msg)
      PROVE  ConnInv'
  <2>1. \A e \in Fds, v \in Workers : \A i \in Nat : Pending(e, v, i)' => Pending(e, v, i)
    BY <1>7, NoteTypes, PendingAfterSend DEF NotifySendMessage, ConnInv
  <2>2. OpenAccepted' /\ Ownership'
    BY <1>7, <2>1, InvFrame DEF NotifySendMessage
  <2>3. \A e \in Fds, v \in Workers : Claims(e, v)' => Claims(e, v)
    BY <1>7, <2>1, ClaimCases DEF NotifySendMessage, ConnInv, Claims, Pending
  <2>4. Routing'
    BY <1>7, <2>3 DEF NotifySendMessage, Routing, ConnInv
  <2> QED
    BY <1>1, <2>2, <2>4 DEF ConnInv
<1>8. ASSUME NEW w \in Workers, NEW fd \in Fds, RemoveClient(w, fd) PROVE ConnInv'
  BY <1>1, <1>8, InvRemove DEF ConnInv
<1>9. CASE Crash
  <2>1. \A fd, v : v \in Workers => clients'[v] = {} /\ pipe'[v] = <<>>
    BY <1>9 DEF Crash
  <2>2. \A fd \in Fds, v \in Workers : ~ Claims(fd, v)' /\ \A i \in Nat : ~ Pending(fd, v, i)'
    BY <2>1 DEF Claims, Pending
  <2>3. OpenAccepted' /\ OneOwner' /\ OwnedOpen' /\ OneDescriptor' /\ Routing'
    BY <1>9, <2>1, <2>2 DEF Crash, OpenAccepted, OneOwner, OwnedOpen, OneDescriptor, Routing
  <2>4. AnnouncedOnce'
    BY <2>2, AnnouncedNext DEF Announced
  <2> QED
    BY <1>1, <2>3, <2>4 DEF ConnInv, Ownership
<1>10. CASE Start
  <2>1. UNCHANGED <<accepted, sock, clients, pipe, main, fdToWorker>>
    BY <1>10 DEF Start
  <2> QED
    BY <1>1, <1>2, <2>1 DEF Routing, ConnInv
<1>11. ASSUME NEW w \in Workers, RefuseAdd(w) PROVE ConnInv'
  BY <1>1, <1>11, InvRefuse DEF ConnInv
<1>12. CASE UNCHANGED connVars
  <2>1. UNCHANGED <<accepted, sock, clients, pipe, main, fdToWorker>>
    BY <1>12 DEF connVars
  <2> QED
    BY <1>1, <1>2, <2>1 DEF Routing, ConnInv
<1> QED
  BY <1>3, <1>4, <1>5, <1>6, <1>7, <1>8, <1>9, <1>10, <1>11, <1>12 DEF ConnNext

\* Types, Ownership and Routing hold together, for any number of workers,
\* descriptors and connections (acceptCallback to removeClient).
THEOREM ConnectionsHold == ConnSpec => []ConnInv
BY InvInit, InvStep, PTL DEF ConnSpec

\* One socket is never served by two workers, nor by none that was told of it: the
\* socketpairs and the clients_ maps never disagree, through any reuse of
\* descriptors (dispatchClient, handleNotify, removeClient).
THEOREM OwnershipHolds == ConnSpec => []Ownership
<1>1. ConnInv => Ownership
  BY DEF ConnInv
<1> QED
  BY <1>1, InvInit, InvStep, PTL DEF ConnSpec

\* fdToWorker_ leads to the worker that has the descriptor, from the end of
\* dispatchClient until the descriptor is closed (getWorkerForFd).
THEOREM RoutingHolds == ConnSpec => []Routing
<1>1. ConnInv => Routing
  BY DEF ConnInv
<1> QED
  BY <1>1, InvInit, InvStep, PTL DEF ConnSpec
-----------------------------------------------------------------------------
(* The chat server. *)

HIDE DEF Workers
USE ChatAssumption

\* The locals of a handler (msg, fromUser, toFd, w, off ...) keep their types.
LEMMA JobUpdate ==
    ASSUME NEW j \in Job
    PROVE  /\ \A b \in BOOLEAN : [j EXCEPT !.ok = b] \in Job
           /\ \A off \in Seq(Message) : [j EXCEPT !.off = off] \in Job
           /\ \A S \in SUBSET Users : [j EXCEPT !.all = S] \in Job
           /\ \A S \in SUBSET Users : [j EXCEPT !.users = S] \in Job
           /\ \A S \in SUBSET Users, b \in BOOLEAN : [j EXCEPT !.users = S, !.ok = b] \in Job
           /\ \A to \in Fds \cup {NoFd} : [j EXCEPT !.to = to] \in Job
           /\ \A S \in SUBSET Users, to \in Fds \cup {NoFd} :
                [j EXCEPT !.users = S, !.to = to] \in Job
           /\ \A via \in Workers \cup {NoWorker} : [j EXCEPT !.via = via] \in Job
<1>1. \A b \in BOOLEAN : [j EXCEPT !.ok = b] \in Job
  BY DEF Job
<1>2. \A off \in Seq(Message) : [j EXCEPT !.off = off] \in Job
  BY DEF Job
<1>3. \A S \in SUBSET Users : [j EXCEPT !.all = S] \in Job /\ [j EXCEPT !.users = S] \in Job
  BY DEF Job
<1>4. \A S \in SUBSET Users, b \in BOOLEAN : [j EXCEPT !.users = S, !.ok = b] \in Job
  BY DEF Job
<1>5. \A to \in Fds \cup {NoFd} : [j EXCEPT !.to = to] \in Job
  BY DEF Job
<1>6. \A S \in SUBSET Users, to \in Fds \cup {NoFd} : [j EXCEPT !.users = S, !.to = to] \in Job
  BY DEF Job
<1>7. \A via \in Workers \cup {NoWorker} : [j EXCEPT !.via = via] \in Job
  BY DEF Job
<1>. QED
  BY <1>1, <1>2, <1>3, <1>4, <1>5, <1>6, <1>7

\* A worker without a request.
LEMMA IdleJobType == IdleJob \in Job
<1>1. <<>> \in Seq(Message)
  OBVIOUS
<1> QED
  BY <1>1 DEF IdleJob, Job, NoRequest, NoWorker

\* What a worker may rely on while it handles a request.
LEMMA AtWork ==
    ASSUME ChatInv, NEW w \in Workers, pc[w] # "idle"
    PROVE  /\ job[w] \in Job
           /\ job[w].fd \in Fds
           /\ ConnOf(w) \in Conns
           /\ NumberOf(w) \in 1 .. MaxSent
           /\ NumberOf(w) = Len(asked[ConnOf(w)])
           /\ job[w].req \in Request
           /\ Serving(w)
<1>1. Serving(w) /\ job[w] \in Job
  BY DEF ChatInv, HandlerInv, TypeOK
<1>2. job[w].fd \in Fds /\ ConnOf(w) \in Conns
  BY <1>1 DEF Serving, ConnOf, ChatInv, TypeOK, ConnTypeOK
<1>3. asked[ConnOf(w)] \in Seq(Request)
  BY <1>2 DEF ChatInv, TypeOK
<1>4. job[w].req \in Request
  BY <1>1, <1>3 DEF Serving, NumberOf
<1> QED
  BY <1>1, <1>2, <1>4 DEF Serving, NumberOf

\* The message a handler forwards is a message.
LEMMA ForwardType ==
    ASSUME ChatInv, NEW w \in Workers, pc[w] # "idle", job[w].from # NoUser,
           NEW kind \in {"private", "group"}, NEW to \in Users \cup {NoUser}
    PROVE  Forward(w, kind, to) \in Message
<1>1. job[w].from \in Users
  BY AtWork DEF Job
<1> QED
  BY <1>1, AtWork DEF Forward, Message
-----------------------------------------------------------------------------
(* What other threads do not change. *)

\* The steps of the connection layer of which a chat server makes use: a worker
\* closes a connection only between two requests (eventCallback).
ConnStep ==
    \/ \E c \in Conns : Accept(c)
    \/ RegisterFd
    \/ \E w \in Workers : HandleAdd(w) \/ RefuseAdd(w) \/ HandleSend(w)
    \/ \E w \in Workers, fd \in Fds, msg \in Msgs : NotifySendMessage(w, fd, msg)
    \/ \E w \in Workers, fd \in Fds : pc[w] = "idle" /\ RemoveClient(w, fd)
    \/ Start
    \/ UNCHANGED connVars

\* They are steps of ConnSpec, so they keep its invariant.
LEMMA ConnStepInv == ConnInv /\ ConnStep => [ConnNext]_connVars /\ ConnInv'
<1>1. ConnStep => [ConnNext]_connVars
  BY DEF ConnStep, ConnNext
<1> QED
  BY <1>1, InvStep

\* While worker v works on a request none of them takes its connection away.
LEMMA KeepsConnection ==
    ASSUME ChatInv, NEW v \in Workers, pc[v] # "idle", ConnStep
    PROVE  job[v].fd \in clients'[v] /\ sock'[job[v].fd] = sock[job[v].fd]
<1> DEFINE Goal == job[v].fd \in clients'[v] /\ sock'[job[v].fd] = sock[job[v].fd]
<1>1. job[v].fd \in clients[v] /\ job[v].fd \in Fds /\ sock[job[v].fd] # NoConn
  BY AtWork DEF Serving
<1>2. ConnTypeOK /\ OneOwner /\ AnnouncedOnce
  BY DEF ChatInv, ConnInv, Ownership
<1> USE DEF ConnTypeOK
<1>3. ASSUME NEW c \in Conns, Accept(c) PROVE Goal
  BY <1>1, <1>2, <1>3 DEF Accept
<1>4. CASE RegisterFd
  BY <1>1, <1>4 DEF RegisterFd
<1>5. ASSUME NEW w \in Workers, HandleAdd(w) PROVE Goal
  BY <1>1, <1>2, <1>5 DEF HandleAdd, KeepClient
<1>6. ASSUME NEW w \in Workers, HandleSend(w) PROVE Goal
  BY <1>1, <1>6 DEF HandleSend
<1>7. ASSUME NEW w \in Workers, NEW fd \in Fds, NEW msg \in Msgs, NotifySendMessage(w, fd, msg)
      PROVE  Goal
  BY <1>1, <1>7 DEF NotifySendMessage
<1>8. ASSUME NEW w \in Workers, NEW fd \in Fds, pc[w] = "idle", RemoveClient(w, fd)
      PROVE  Goal
  <2>1. w # v
    BY <1>8
  <2>2. fd # job[v].fd
    BY <1>1, <1>2, <1>8, <2>1 DEF OneOwner, RemoveClient
  <2> QED
    BY <1>1, <1>2, <1>8, <2>1, <2>2 DEF RemoveClient, DropClient
<1>9. CASE Start
  BY <1>1, <1>9 DEF Start
<1>10. ASSUME NEW w \in Workers, RefuseAdd(w) PROVE Goal
  <2>1. Pending(Head(pipe[w]).fd, w, 1) /\ Head(pipe[w]).fd \in Fds
    BY <1>2, <1>10, HeadPending DEF RefuseAdd
  <2>2. Head(pipe[w]).fd # job[v].fd
    BY <1>1, <1>2, <2>1, AnnouncedNow DEF Announced
  <2> QED
    BY <1>1, <1>2, <1>10, <2>2 DEF RefuseAdd
<1>11. CASE UNCHANGED connVars
  BY <1>1, <1>11 DEF connVars
<1> QED
  BY <1>3, <1>4, <1>5, <1>6, <1>7, <1>8, <1>9, <1>10, <1>11 DEF ConnStep

\* A handler on which nothing happens goes on serving its connection.
LEMMA OthersServe ==
    ASSUME ChatInv, ConnStep, NEW v \in Workers, pc[v] # "idle",
           pc'[v] = pc[v], job'[v] = job[v], asked'[ConnOf(v)] = asked[ConnOf(v)]
    PROVE  Serving(v)'
<1>1. job[v].fd \in clients'[v] /\ sock'[job[v].fd] = sock[job[v].fd]
  BY KeepsConnection
<1>2. Serving(v)
  BY AtWork
<1> QED
  BY <1>1, <1>2 DEF Serving, LocalsOf, ConnOf, NumberOf

\* What every query or call of a handler does with the control state: it is the
\* worker's own, and it has the same request before it until it has answered.
Advances(w) ==
    /\ asked' = asked
    /\ \A v \in Workers : v # w => pc'[v] = pc[v] /\ job'[v] = job[v]
    /\ pc'[w] # "idle" => /\ job'[w].fd = job[w].fd
                          /\ job'[w].req = job[w].req
                          /\ LocalsOf(w)'

\* So all handlers go on serving their connections.
LEMMA AdvancesServes ==
    ASSUME ChatInv, ConnStep, NEW w \in Workers, pc[w] # "idle", Advances(w)
    PROVE  HandlerInv'
<1> SUFFICES ASSUME NEW v \in Workers, pc'[v] # "idle" PROVE Serving(v)'
  BY DEF HandlerInv
<1>1. CASE v # w
  BY <1>1, OthersServe DEF Advances
<1>2. CASE v = w
  <2>1. job[v].fd \in clients'[v] /\ sock'[job[v].fd] = sock[job[v].fd]
    BY <1>2, KeepsConnection
  <2>2. Serving(v)
    BY <1>2, AtWork
  <2> QED
    BY <1>2, <2>1, <2>2 DEF Serving, ConnOf, NumberOf, Advances
<1> QED
  BY <1>1, <1>2

\* The part of TypeOK that is not ConnTypeOK.
ChatTypes ==
    /\ users \in [Users -> Passwords \cup {NoPw}]
    /\ online \in [Users -> Fds \cup {NoFd}]
    /\ offline \in [Users -> Seq(Message)]
    /\ clientUsers \in [Workers -> [Fds -> Users \cup {NoUser}]]
    /\ pc \in [Workers -> Labels]
    /\ job \in [Workers -> Job]
    /\ asked \in [Conns -> Seq(Request)]
    /\ outbox \in [Conns -> Seq(Reply \cup Push)]

\* What is left to show of a handler's step: it advances its own worker only, is
\* one of the connection layer's steps, and keeps the types.
LEMMA AdvancesInv ==
    ASSUME ChatInv, ConnStep, NEW w \in Workers, pc[w] # "idle", Advances(w), ChatTypes'
    PROVE  ChatInv'
<1>1. ConnInv' /\ HandlerInv'
  BY ConnStepInv, AdvancesServes DEF ChatInv
<1>2. TypeOK'
  BY <1>1 DEF TypeOK, ChatTypes, ConnInv
<1> QED
  BY <1>1, <1>2 DEF ChatInv, Advances
-----------------------------------------------------------------------------
(* The handlers, query by query. *)

\* A step that only moves worker w on and changes its locals, but not its request.
LEMMA MovesOn ==
    ASSUME ChatInv, NEW w \in Workers, pc[w] # "idle", NEW label \in Labels, Goto(w, label),
           job' \in [Workers -> Job], \A v \in Workers : v # w => job'[v] = job[v],
           job'[w].fd = job[w].fd, job'[w].req = job[w].req, asked' = asked, LocalsOf(w)'
    PROVE  Advances(w) /\ pc' \in [Workers -> Labels]
BY DEF Advances, Goto, ChatInv, TypeOK

\* Finish leaves a handler with nothing to do but answer.
LEMMA FinishMoves ==
    ASSUME ChatInv, NEW w \in Workers, pc[w] # "idle", NEW ok \in BOOLEAN, Finish(w, ok),
           asked' = asked
    PROVE  Advances(w) /\ pc' \in [Workers -> Labels] /\ job' \in [Workers -> Job]
<1>1. job \in [Workers -> Job] /\ pc \in [Workers -> Labels]
  BY DEF ChatInv, TypeOK
<1>2. job' = [job EXCEPT ![w] = [job[w] EXCEPT !.ok = ok]] /\ job[w] \in Job
  BY <1>1 DEF Finish
<1>3. job' \in [Workers -> Job]
  BY <1>1, <1>2, JobUpdate
<1>4. \A v \in Workers : v # w => job'[v] = job[v]
  BY <1>1, <1>2
<1>5. job'[w].fd = job[w].fd /\ job'[w].req = job[w].req
  BY <1>1, <1>2 DEF Job
<1>6. pc' = [pc EXCEPT ![w] = "reply"] /\ "reply" \in Labels
  BY DEF Finish, Goto, Labels
<1>7. LocalsOf(w)'
  BY <1>1, <1>6 DEF LocalsOf, AccountSteps, PrivateSteps, SessionSteps
<1> QED
  BY <1>1, <1>3, <1>4, <1>5, <1>6, <1>7 DEF Advances

\* registerUser's and verifyLogin's queries and those of a login keep the invariant.
LEMMA AccountStepKeeps ==
    ASSUME ChatInv, NEW w \in Workers,
           \/ IsUserExists(w) \/ InsertUser(w) \/ VerifyLogin(w) \/ DeleteOnline(w)
           \/ InsertOnline(w) \/ GetOfflineMessages(w) \/ ClearOfflineMessages(w)
    PROVE  ChatInv'
<1>0. /\ pc[w] \in AccountSteps /\ pc[w] # "idle"
      /\ UNCHANGED connVars
  BY DEF IsUserExists, InsertUser, VerifyLogin, DeleteOnline, InsertOnline,
         GetOfflineMessages, ClearOfflineMessages, Runs, AccountSteps
<1>1. ConnStep
  BY <1>0 DEF ConnStep
<1>2. /\ job[w] \in Job /\ job[w].fd \in Fds
      /\ job[w].req.user \in Users /\ job[w].req.pw \in Passwords
  BY <1>0, AtWork DEF Serving, LocalsOf
<1>3. ChatTypes
  BY DEF ChatInv, TypeOK, ChatTypes
<1> SUFFICES Advances(w) /\ ChatTypes'
  BY <1>0, <1>1, AdvancesInv
<1> USE DEF Runs, Outcomes, ioVars, dbVars
<1>4. CASE IsUserExists(w)
  <2>1. CASE Finish(w, FALSE)
    BY <1>0, <1>3, <1>4, <2>1, FinishMoves DEF IsUserExists, ChatTypes
  <2>2. CASE Goto(w, "insertUser") /\ UNCHANGED job
    <3>1. LocalsOf(w)' /\ "insertUser" \in Labels
      BY <1>2, <1>3, <2>2 DEF LocalsOf, Goto, ChatTypes, AccountSteps, PrivateSteps,
                              SessionSteps, Labels, Queries
    <3> QED
      BY <1>0, <1>3, <1>4, <2>2, <3>1, MovesOn DEF IsUserExists, ChatTypes
  <2> QED
    BY <1>4, <2>1, <2>2 DEF IsUserExists
<1>5. CASE InsertUser(w)
  <2>1. PICK done \in BOOLEAN :
          /\ users' = IF done
                      THEN [users EXCEPT ![job[w].req.user] = UserRow(job[w].req.user, job[w].req.pw)]
                      ELSE users
          /\ Finish(w, done /\ users[job[w].req.user] = NoPw)
    BY <1>5 DEF InsertUser
  <2>2. users' \in [Users -> Passwords \cup {NoPw}]
    BY <1>2, <1>3, <2>1 DEF UserRow, ChatTypes
  <2> QED
    BY <1>0, <1>3, <1>5, <2>1, <2>2, FinishMoves DEF InsertUser, ChatTypes
<1>6. CASE VerifyLogin(w)
  <2>1. CASE Finish(w, FALSE)
    BY <1>0, <1>3, <1>6, <2>1, FinishMoves DEF VerifyLogin, ChatTypes
  <2>2. CASE Goto(w, "deleteOnline") /\ UNCHANGED job
    <3>1. LocalsOf(w)' /\ "deleteOnline" \in Labels
      BY <1>2, <1>3, <2>2 DEF LocalsOf, Goto, ChatTypes, AccountSteps, PrivateSteps,
                              SessionSteps, Labels, Queries
    <3> QED
      BY <1>0, <1>3, <1>6, <2>2, <3>1, MovesOn DEF VerifyLogin, ChatTypes
  <2> QED
    BY <1>6, <2>1, <2>2 DEF VerifyLogin
<1>7. ASSUME OpenSession(w), job' = job, asked' = asked
      PROVE  /\ Advances(w) /\ pc' \in [Workers -> Labels]
             /\ clientUsers' \in [Workers -> [Fds -> Users \cup {NoUser}]]
  <2>1. LocalsOf(w)' /\ "getOfflineMessages" \in Labels
    BY <1>2, <1>3, <1>7 DEF OpenSession, LocalsOf, Goto, ChatTypes, AccountSteps, PrivateSteps,
                            SessionSteps, Labels, Queries
  <2>2. clientUsers' \in [Workers -> [Fds -> Users \cup {NoUser}]]
    BY <1>2, <1>3, <1>7 DEF OpenSession, ChatTypes
  <2> QED
    BY <1>0, <1>3, <1>7, <2>1, <2>2, MovesOn DEF OpenSession, ChatTypes
<1>8. CASE DeleteOnline(w)
  <2>1. CASE OpenSession(w) /\ UNCHANGED online
    BY <1>3, <1>7, <1>8, <2>1 DEF DeleteOnline, ChatTypes
  <2>2. CASE /\ online' = [online EXCEPT ![job[w].req.user] = NoFd]
             /\ Goto(w, "insertOnline") /\ UNCHANGED clientUsers
    <3>1. job' = job
      BY <1>8 DEF DeleteOnline
    <3>2. LocalsOf(w)' /\ "insertOnline" \in Labels
      BY <1>2, <1>3, <2>2, <3>1 DEF LocalsOf, Goto, ChatTypes, AccountSteps, PrivateSteps,
                              SessionSteps, Labels, Queries
    <3>3. online' \in [Users -> Fds \cup {NoFd}]
      BY <1>3, <2>2 DEF ChatTypes
    <3> QED
      BY <1>0, <1>3, <1>8, <2>2, <3>1, <3>2, <3>3, MovesOn DEF DeleteOnline, ChatTypes
  <2> QED
    BY <1>8, <2>1, <2>2 DEF DeleteOnline
<1>9. CASE InsertOnline(w)
  <2>1. online' \in [Users -> Fds \cup {NoFd}]
    BY <1>2, <1>3, <1>9 DEF InsertOnline, ChatTypes
  <2> QED
    BY <1>3, <1>7, <1>9, <2>1 DEF InsertOnline, ChatTypes
<1>10. CASE GetOfflineMessages(w)
  <2>1. CASE Finish(w, TRUE)
    BY <1>0, <1>3, <1>10, <2>1, FinishMoves DEF GetOfflineMessages, ChatTypes
  <2>2. CASE /\ job' = [job EXCEPT ![w].off = offline[job[w].req.user]]
             /\ Goto(w, "clearOfflineMessages")
    <3>1. offline[job[w].req.user] \in Seq(Message)
      BY <1>2, <1>3 DEF ChatTypes
    <3>2. job' = [job EXCEPT ![w] = [job[w] EXCEPT !.off = offline[job[w].req.user]]]
      BY <2>2
    <3>3. /\ job' \in [Workers -> Job]
          /\ \A v \in Workers : v # w => job'[v] = job[v]
      BY <1>2, <1>3, <3>1, <3>2, JobUpdate DEF ChatTypes
    <3>4. job'[w].fd = job[w].fd /\ job'[w].req = job[w].req
      BY <1>2, <1>3, <3>2 DEF ChatTypes, Job
    <3>5. LocalsOf(w)' /\ "clearOfflineMessages" \in Labels
      BY <1>2, <1>3, <2>2, <3>4 DEF LocalsOf, Goto, ChatTypes, AccountSteps, PrivateSteps,
                              SessionSteps, Labels, Queries
    <3> QED
      BY <1>0, <1>3, <1>10, <2>2, <3>3, <3>4, <3>5, MovesOn DEF GetOfflineMessages, ChatTypes
  <2> QED
    BY <1>10, <2>1, <2>2 DEF GetOfflineMessages
<1>11. CASE ClearOfflineMessages(w)
  <2>1. offline' \in [Users -> Seq(Message)]
    <3>1. Cleared(job[w].req.user) \in [Users -> Seq(Message)]
      BY <1>2, <1>3 DEF Cleared, ChatTypes
    <3> QED
      BY <1>3, <1>11, <3>1 DEF ClearOfflineMessages, ChatTypes
  <2> QED
    BY <1>0, <1>3, <1>11, <2>1, FinishMoves DEF ClearOfflineMessages, ChatTypes
<1> QED
  BY <1>4, <1>5, <1>6, <1>8, <1>9, <1>10, <1>11

\* A step of w's handler that leaves the other workers' locals alone.
LEMMA OwnJob ==
    ASSUME job \in [Workers -> Job], NEW w \in Workers, NEW j \in Job,
           job' = [job EXCEPT ![w] = j]
    PROVE  /\ job' \in [Workers -> Job]
           /\ job'[w] = j
           /\ \A v \in Workers : v # w => job'[v] = job[v]
OBVIOUS

\* So do handleGetFriends' queries and handlePrivateChat's lookups and sends.
LEMMA PrivateStepKeeps ==
    ASSUME ChatInv, NEW w \in Workers,
           \/ GetAllUsers(w) \/ GetOnlineUsers(w)
           \/ GetUserSocketFd(w) \/ RoutePrivate(w) \/ SendPrivate(w) \/ StoreOfflineMessage(w)
    PROVE  ChatInv'
<1> USE DEF Runs, Outcomes, ioVars, dbVars
<1>0. pc[w] # "idle"
  BY DEF GetAllUsers, GetOnlineUsers, GetUserSocketFd, RoutePrivate, SendPrivate,
         StoreOfflineMessage
<1>2. job[w] \in Job /\ job[w].fd \in Fds /\ LocalsOf(w)
  BY <1>0, AtWork DEF Serving
<1>3. ChatTypes
  BY DEF ChatInv, TypeOK, ChatTypes
<1>4. CASE GetAllUsers(w)
  <2>1. PICK S \in SUBSET Users : job' = [job EXCEPT ![w] = [job[w] EXCEPT !.all = S]]
    BY <1>4 DEF GetAllUsers
  <2>2. [job[w] EXCEPT !.all = S] \in Job
    BY <1>2, JobUpdate
  <2>3. job' \in [Workers -> Job] /\ \A v \in Workers : v # w => job'[v] = job[v]
    BY <1>3, <2>1, <2>2, OwnJob DEF ChatTypes
  <2>4. job'[w].fd = job[w].fd /\ job'[w].req = job[w].req
    BY <1>2, <1>3, <2>1, <2>2, OwnJob DEF ChatTypes, Job
  <2>5. LocalsOf(w)' /\ "getOnlineUsers" \in Labels
    BY <1>3, <1>4 DEF GetAllUsers, LocalsOf, Goto, ChatTypes, AccountSteps, PrivateSteps,
                      SessionSteps, Labels, Queries
  <2>6. Advances(w) /\ ChatTypes'
    BY <1>0, <1>3, <1>4, <2>3, <2>4, <2>5, MovesOn DEF GetAllUsers, ChatTypes
  <2> QED
    BY <1>0, <1>4, <2>6, AdvancesInv DEF GetAllUsers, ConnStep
<1>5. CASE GetOnlineUsers(w)
  <2>1. PICK S \in SUBSET Users :
          job' = [job EXCEPT ![w] = [job[w] EXCEPT !.users = S, !.ok = TRUE]]
    BY <1>5 DEF GetOnlineUsers, OnlineUsers
  <2>2. [job[w] EXCEPT !.users = S, !.ok = TRUE] \in Job
    BY <1>2, JobUpdate
  <2>3. job' \in [Workers -> Job] /\ \A v \in Workers : v # w => job'[v] = job[v]
    BY <1>3, <2>1, <2>2, OwnJob DEF ChatTypes
  <2>4. job'[w].fd = job[w].fd /\ job'[w].req = job[w].req
    BY <1>2, <1>3, <2>1, <2>2, OwnJob DEF ChatTypes, Job
  <2>5. LocalsOf(w)' /\ "reply" \in Labels
    BY <1>3, <1>5 DEF GetOnlineUsers, LocalsOf, Goto, ChatTypes, AccountSteps, PrivateSteps,
                      SessionSteps, Labels
  <2>6. Advances(w) /\ ChatTypes'
    BY <1>0, <1>3, <1>5, <2>3, <2>4, <2>5, MovesOn DEF GetOnlineUsers, ChatTypes
  <2> QED
    BY <1>0, <1>5, <2>6, AdvancesInv DEF GetOnlineUsers, ConnStep
<1>6. CASE GetUserSocketFd(w)
  <2>0. job[w].req.user \in Users /\ job[w].from # NoUser
    BY <1>2, <1>6 DEF GetUserSocketFd, LocalsOf, PrivateSteps, SessionSteps
  <2>1. PICK to \in Fds \cup {NoFd} : job' = [job EXCEPT ![w] = [job[w] EXCEPT !.to = to]]
    BY <1>3, <1>6, <2>0 DEF GetUserSocketFd, ChatTypes
  <2>2. [job[w] EXCEPT !.to = to] \in Job
    BY <1>2, JobUpdate
  <2>3. job' \in [Workers -> Job] /\ \A v \in Workers : v # w => job'[v] = job[v]
    BY <1>3, <2>1, <2>2, OwnJob DEF ChatTypes
  <2>4. job'[w].fd = job[w].fd /\ job'[w].req = job[w].req /\ job'[w].from = job[w].from
    BY <1>2, <1>3, <2>1, <2>2, OwnJob DEF ChatTypes, Job
  <2>5. PICK label \in {"hung", "routePrivate"} : Goto(w, label)
    BY <1>6 DEF GetUserSocketFd
  <2>6. LocalsOf(w)' /\ label \in Labels
    BY <1>3, <2>0, <2>4, <2>5 DEF LocalsOf, Goto, ChatTypes, AccountSteps, PrivateSteps,
                      SessionSteps, Labels
  <2>7. Advances(w) /\ ChatTypes'
    BY <1>0, <1>3, <1>6, <2>3, <2>4, <2>5, <2>6, MovesOn DEF GetUserSocketFd, ChatTypes
  <2> QED
    BY <1>0, <1>6, <2>7, AdvancesInv DEF GetUserSocketFd, ConnStep
<1>7. CASE RoutePrivate(w)
  <2>0. job[w].req.user \in Users /\ job[w].from # NoUser
    BY <1>2, <1>7 DEF RoutePrivate, LocalsOf, PrivateSteps, SessionSteps
  <2> DEFINE via == GetWorkerForFd(job[w].to)
  <2>1. via \in Workers \cup {NoWorker} /\ (via # NoWorker => job[w].to # NoFd)
    BY <1>2 DEF GetWorkerForFd, ChatInv, TypeOK, ConnTypeOK, Job
  <2> HIDE DEF via
  <2>2. /\ job' = [job EXCEPT ![w] = [job[w] EXCEPT !.via = via]]
        /\ [job[w] EXCEPT !.via = via] \in Job
    BY <1>2, <1>7, <2>1, JobUpdate DEF RoutePrivate, via
  <2>3. job' \in [Workers -> Job] /\ \A v \in Workers : v # w => job'[v] = job[v]
    BY <1>3, <2>2, OwnJob DEF ChatTypes
  <2>4. /\ job'[w].fd = job[w].fd /\ job'[w].req = job[w].req /\ job'[w].from = job[w].from
        /\ job'[w].to = job[w].to /\ job'[w].via = via
    BY <1>2, <1>3, <2>2, OwnJob DEF ChatTypes, Job
  <2>5. Goto(w, IF via = NoWorker THEN "storeOfflineMessage" ELSE "sendPrivate")
    BY <1>7 DEF RoutePrivate, via
  <2>6. /\ LocalsOf(w)'
        /\ {"storeOfflineMessage", "sendPrivate"} \subseteq Labels
    BY <1>3, <2>0, <2>1, <2>4, <2>5 DEF LocalsOf, Goto, ChatTypes, AccountSteps, PrivateSteps,
                      SessionSteps, Labels, Queries
  <2>7. Advances(w) /\ ChatTypes'
    BY <1>0, <1>3, <1>7, <2>3, <2>4, <2>5, <2>6, MovesOn DEF RoutePrivate, ChatTypes
  <2> QED
    BY <1>0, <1>7, <2>7, AdvancesInv DEF RoutePrivate, ConnStep
<1>8. CASE SendPrivate(w)
  <2>1. /\ job[w].req.user \in Users /\ job[w].from # NoUser
        /\ job[w].via \in Workers /\ job[w].to \in Fds
    BY <1>2, <1>8 DEF SendPrivate, LocalsOf, PrivateSteps, SessionSteps, Job
  <2>2. Forward(w, "private", job[w].req.user) \in Msgs
    BY <1>0, <2>1, ForwardType
  <2>3. ConnStep
    BY <1>8, <2>1, <2>2 DEF SendPrivate, ConnStep
  <2>4. Advances(w) /\ ChatTypes'
    BY <1>0, <1>3, <1>8, FinishMoves DEF SendPrivate, ChatTypes
  <2> QED
    BY <1>0, <2>3, <2>4, AdvancesInv
<1>9. CASE StoreOfflineMessage(w)
  <2> DEFINE u == job[w].req.user
             msg == Forward(w, "private", u)
  <2>1. u \in Users /\ msg \in Message
    BY <1>0, <1>2, <1>9, ForwardType DEF StoreOfflineMessage, LocalsOf, PrivateSteps, SessionSteps
  <2>2. offline' = offline \/ offline' = Stored(u, msg)
    BY <1>9 DEF StoreOfflineMessage
  <2> HIDE DEF u, msg
  <2>3. offline' \in [Users -> Seq(Message)]
    <3>1. offline[u] \in Seq(Message)
      BY <1>3, <2>1 DEF ChatTypes
    <3>2. Append(offline[u], msg) \in Seq(Message)
      BY <2>1, <3>1
    <3> QED
      BY <1>3, <2>1, <2>2, <3>2 DEF ChatTypes, Stored
  <2>4. Advances(w) /\ ChatTypes'
    BY <1>0, <1>3, <1>9, <2>3, FinishMoves DEF StoreOfflineMessage, ChatTypes
  <2> QED
    BY <1>0, <1>9, <2>4, AdvancesInv DEF StoreOfflineMessage, ConnStep
<1> QED
  BY <1>4, <1>5, <1>6, <1>7, <1>8, <1>9

\* What sendToClient and handleNotify append to an output buffer.
LEMMA WriteType ==
    ASSUME outbox \in [Conns -> Seq(Reply \cup Push)],
           NEW c \in Conns, NEW packet \in Reply \cup Push
    PROVE  Write(c, packet) \in [Conns -> Seq(Reply \cup Push)]
<1>1. Append(outbox[c], packet) \in Seq(Reply \cup Push)
  OBVIOUS
<1> QED
  BY <1>1 DEF Write

\* A worker's descriptors are open connections.
LEMMA OwnedIsOpen ==
    ASSUME ChatInv, NEW w \in Workers, NEW fd \in clients[w]
    PROVE  fd \in Fds /\ sock[fd] \in Conns
BY DEF ChatInv, TypeOK, ConnTypeOK, ConnInv, Ownership, OwnedOpen

\* And so do handleGroupChat's loop, handleLogout's query and the answer.
LEMMA GroupStepKeeps ==
    ASSUME ChatInv, NEW w \in Workers,
           \/ ListGroup(w) \/ LookupMember(w) \/ RouteMember(w) \/ SendMember(w)
           \/ GroupDone(w) \/ SetUserOffline(w)
    PROVE  ChatInv'
<1> USE DEF Runs, Outcomes, ioVars, dbVars
<1>0. pc[w] # "idle"
  BY DEF ListGroup, LookupMember, RouteMember, SendMember, GroupDone, SetUserOffline
<1>2. job[w] \in Job /\ job[w].fd \in Fds /\ LocalsOf(w)
  BY <1>0, AtWork DEF Serving
<1>3. ChatTypes
  BY DEF ChatInv, TypeOK, ChatTypes
<1>4. job[w].from \in Users
  BY <1>2 DEF ListGroup, LookupMember, RouteMember, SendMember, GroupDone, SetUserOffline,
              LocalsOf, SessionSteps, Job
<1>5. CASE ListGroup(w)
  <2>1. PICK S \in SUBSET Users : job' = [job EXCEPT ![w] = [job[w] EXCEPT !.users = S]]
    BY <1>5 DEF ListGroup, OnlineUsers, Recipients
  <2>2. [job[w] EXCEPT !.users = S] \in Job
    BY <1>2, JobUpdate
  <2>3. job' \in [Workers -> Job] /\ \A v \in Workers : v # w => job'[v] = job[v]
    BY <1>3, <2>1, <2>2, OwnJob DEF ChatTypes
  <2>4. job'[w].fd = job[w].fd /\ job'[w].req = job[w].req /\ job'[w].from = job[w].from
    BY <1>2, <1>3, <2>1, <2>2, OwnJob DEF ChatTypes, Job
  <2>5. LocalsOf(w)' /\ "lookupMember" \in Labels
    BY <1>3, <1>4, <1>5, <2>4 DEF ListGroup, LocalsOf, Goto, ChatTypes, AccountSteps,
                                  PrivateSteps, SessionSteps, Labels, Queries
  <2>6. Advances(w) /\ ChatTypes'
    BY <1>0, <1>3, <1>5, <2>3, <2>4, <2>5, MovesOn DEF ListGroup, ChatTypes
  <2> QED
    BY <1>0, <1>5, <2>6, AdvancesInv DEF ListGroup, ConnStep
<1>6. CASE LookupMember(w)
  <2>1. PICK u \in job[w].users, to \in Fds \cup {NoFd} :
          /\ job' = [job EXCEPT ![w] = [job[w] EXCEPT !.users = Remaining(w, u), !.to = to]]
          /\ Goto(w, IF to = NoFd \/ to \in clients[w] THEN "lookupMember" ELSE "routeMember")
          /\ outbox' = IF to \in clients[w]
                       THEN Write(sock[to], PushOf(Forward(w, "group", NoUser)))
                       ELSE outbox
    BY <1>2, <1>3, <1>6 DEF LookupMember, ChatTypes, Job
  <2>2. [job[w] EXCEPT !.users = Remaining(w, u), !.to = to] \in Job
    <3>1. Remaining(w, u) \in SUBSET Users
      BY <1>2 DEF Remaining, Job
    <3> QED
      BY <1>2, <3>1, JobUpdate
  <2>3. job' \in [Workers -> Job] /\ \A v \in Workers : v # w => job'[v] = job[v]
    BY <1>3, <2>1, <2>2, OwnJob DEF ChatTypes
  <2>4. job'[w].fd = job[w].fd /\ job'[w].req = job[w].req /\ job'[w].from = job[w].from
    BY <1>2, <1>3, <2>1, <2>2, OwnJob DEF ChatTypes, Job
  <2>5. PICK label \in {"lookupMember", "routeMember"} : Goto(w, label)
    BY <2>1
  <2>6. LocalsOf(w)' /\ label \in Labels
    BY <1>3, <1>4, <2>4, <2>5 DEF LocalsOf, Goto, ChatTypes, AccountSteps,
                                  PrivateSteps, SessionSteps, Labels, Queries
  <2>7. outbox' \in [Conns -> Seq(Reply \cup Push)]
    <3>1. CASE to \in clients[w]
      <4>1. sock[to] \in Conns
        BY <3>1, OwnedIsOpen
      <4>2. PushOf(Forward(w, "group", NoUser)) \in Reply \cup Push
        BY <1>0, <1>4, ForwardType DEF PushOf, Push
      <4> QED
        BY <1>3, <2>1, <3>1, <4>1, <4>2, WriteType DEF ChatTypes
    <3> QED
      BY <1>3, <2>1, <3>1 DEF ChatTypes
  <2>8. Advances(w) /\ ChatTypes'
    BY <1>0, <1>3, <1>6, <2>3, <2>4, <2>5, <2>6, <2>7, MovesOn DEF LookupMember, ChatTypes
  <2> QED
    BY <1>0, <1>6, <2>8, AdvancesInv DEF LookupMember, ConnStep
<1>7. CASE RouteMember(w)
  <2> DEFINE via == GetWorkerForFd(job[w].to)
  <2>1. via \in Workers \cup {NoWorker} /\ (via # NoWorker => job[w].to # NoFd)
    BY <1>2 DEF GetWorkerForFd, ChatInv, TypeOK, ConnTypeOK, Job
  <2> HIDE DEF via
  <2>2. /\ job' = [job EXCEPT ![w] = [job[w] EXCEPT !.via = via]]
        /\ [job[w] EXCEPT !.via = via] \in Job
    BY <1>2, <1>7, <2>1, JobUpdate DEF RouteMember, via
  <2>3. job' \in [Workers -> Job] /\ \A v \in Workers : v # w => job'[v] = job[v]
    BY <1>3, <2>2, OwnJob DEF ChatTypes
  <2>4. /\ job'[w].fd = job[w].fd /\ job'[w].req = job[w].req /\ job'[w].from = job[w].from
        /\ job'[w].to = job[w].to /\ job'[w].via = via
    BY <1>2, <1>3, <2>2, OwnJob DEF ChatTypes, Job
  <2>5. Goto(w, IF via \in {NoWorker, w} THEN "lookupMember" ELSE "sendMember")
    BY <1>7 DEF RouteMember, via
  <2>6. /\ LocalsOf(w)'
        /\ {"lookupMember", "sendMember"} \subseteq Labels
    BY <1>3, <1>4, <2>1, <2>4, <2>5 DEF LocalsOf, Goto, ChatTypes, AccountSteps, PrivateSteps,
                      SessionSteps, Labels, Queries
  <2>7. Advances(w) /\ ChatTypes'
    BY <1>0, <1>3, <1>7, <2>3, <2>4, <2>5, <2>6, MovesOn DEF RouteMember, ChatTypes
  <2> QED
    BY <1>0, <1>7, <2>7, AdvancesInv DEF RouteMember, ConnStep
<1>8. CASE SendMember(w)
  <2>1. job[w].via \in Workers /\ job[w].to \in Fds
    BY <1>2, <1>8 DEF SendMember, LocalsOf, Job
  <2>2. Forward(w, "group", NoUser) \in Msgs
    BY <1>0, <1>4, ForwardType
  <2>3. ConnStep
    BY <1>8, <2>1, <2>2 DEF SendMember, ConnStep
  <2>4. job' = job /\ Goto(w, "lookupMember")
    BY <1>8 DEF SendMember
  <2>5. LocalsOf(w)' /\ "lookupMember" \in Labels
    BY <1>3, <1>4, <2>4 DEF LocalsOf, Goto, ChatTypes, AccountSteps,
                            PrivateSteps, SessionSteps, Labels, Queries
  <2>6. Advances(w) /\ ChatTypes'
    BY <1>0, <1>3, <1>8, <2>4, <2>5, MovesOn DEF SendMember, ChatTypes
  <2> QED
    BY <1>0, <2>3, <2>6, AdvancesInv
<1>9. CASE GroupDone(w)
  <2>1. Advances(w) /\ ChatTypes'
    BY <1>0, <1>3, <1>9, FinishMoves DEF GroupDone, ChatTypes
  <2> QED
    BY <1>0, <1>9, <2>1, AdvancesInv DEF GroupDone, ConnStep
<1>10. CASE SetUserOffline(w)
  <2>1. online' \in [Users -> Fds \cup {NoFd}]
    BY <1>3, <1>10 DEF SetUserOffline, RowDropped, ChatTypes
  <2>2. Advances(w) /\ ChatTypes'
    BY <1>0, <1>3, <1>10, <2>1, FinishMoves DEF SetUserOffline, RowDropped, ChatTypes
  <2> QED
    BY <1>0, <1>10, <2>2, AdvancesInv DEF SetUserOffline, ConnStep
<1> QED
  BY <1>5, <1>6, <1>7, <1>8, <1>9, <1>10

\* The answer (sendToClient(clientFd, resp)) ends the handler.
LEMMA SendReplyKeeps ==
    ASSUME ChatInv, NEW w \in Workers, SendReply(w)
    PROVE  ChatInv'
<1> USE DEF Runs, ioVars, dbVars
<1>0. pc[w] # "idle"
  BY DEF SendReply
<1>2. job[w] \in Job /\ ConnOf(w) \in Conns /\ NumberOf(w) \in 1 .. MaxSent
  BY <1>0, AtWork
<1>3. ChatTypes
  BY DEF ChatInv, TypeOK, ChatTypes
<1>4. ReplyOf(w) \in Reply
  BY <1>2 DEF ReplyOf, Reply, Job
<1>5. outbox' \in [Conns -> Seq(Reply \cup Push)]
  <2>1. Write(ConnOf(w), ReplyOf(w)) \in [Conns -> Seq(Reply \cup Push)]
    BY <1>2, <1>3, <1>4, WriteType DEF ChatTypes
  <2> QED
    BY <1>3, <2>1 DEF SendReply, ChatTypes
<1>6. /\ job' \in [Workers -> Job] /\ \A v \in Workers : v # w => job'[v] = job[v]
      /\ pc' \in [Workers -> Labels] /\ \A v \in Workers : v # w => pc'[v] = pc[v]
      /\ pc'[w] = "idle"
  BY <1>3, IdleJobType DEF SendReply, Goto, ChatTypes, Labels
<1>7. Advances(w) /\ ChatTypes'
  BY <1>3, <1>5, <1>6 DEF SendReply, Advances, ChatTypes
<1> QED
  BY <1>0, <1>7, AdvancesInv DEF SendReply, ConnStep
-----------------------------------------------------------------------------
(* The event loop between handlers. *)

\* An idle worker takes a request (readCallback, processMessage): its locals fit the
\* query it begins with, and no other handler serves that connection.
LEMMA BeginKeeps ==
    ASSUME ChatInv, NEW w \in Workers, NEW fd \in clients[w], NEW r \in Requests[sock[fd]],
           NEW label \in Labels, NEW ok \in BOOLEAN, Begin(w, fd, r, label, ok),
           UNCHANGED <<connVars, dbVars, outbox>>,
           clientUsers' \in [Workers -> [Fds -> Users \cup {NoUser}]],
           label \in AccountSteps => r.user \in Users /\ r.pw \in Passwords,
           label \in PrivateSteps => r.user \in Users,
           label \in SessionSteps => clientUsers[w][fd] # NoUser,
           label \notin {"sendPrivate", "sendMember"}
    PROVE  ChatInv'
<1> DEFINE c == sock[fd]
           j == [IdleJob EXCEPT !.fd = fd, !.req = r, !.ok = ok, !.from = clientUsers[w][fd]]
<1>0. ConnInv /\ ChatTypes /\ ConnStep /\ ConnTypeOK
  BY DEF ChatInv, TypeOK, ChatTypes, ConnStep
<1>1. fd \in Fds /\ c \in Conns /\ c # NoConn
  BY OwnedIsOpen
<1>2. r \in Request
  BY <1>1
<1>3. /\ j \in Job /\ j.fd = fd /\ j.req = r /\ j.from = clientUsers[w][fd]
  <2>1. clientUsers[w][fd] \in Users \cup {NoUser}
    BY <1>0, <1>1 DEF ChatTypes
  <2> QED
    BY <1>1, <1>2, <2>1, IdleJobType DEF IdleJob, Job
<1>4. /\ asked' = [asked EXCEPT ![c] = Append(@, r)]
      /\ Len(asked[c]) < MaxSent
      /\ pc[w] = "idle" /\ pc' = [pc EXCEPT ![w] = label]
      /\ job' = [job EXCEPT ![w] = j]
  BY DEF Begin, Goto
<1> HIDE DEF j
<1>5. /\ asked[c] \in Seq(Request) /\ Append(asked[c], r) \in Seq(Request)
      /\ Len(asked[c]) \in Nat
      /\ Len(Append(asked[c], r)) = Len(asked[c]) + 1
      /\ Append(asked[c], r)[Len(asked[c]) + 1] = r
  BY <1>0, <1>1, <1>2 DEF ChatTypes
<1>6. /\ asked' \in [Conns -> Seq(Request)]
      /\ asked'[c] = Append(asked[c], r)
      /\ \A d \in Conns : d # c => asked'[d] = asked[d]
  BY <1>0, <1>1, <1>4, <1>5 DEF ChatTypes
<1>7. \A d \in Conns : Len(asked'[d]) <= MaxSent
  BY <1>4, <1>5, <1>6 DEF ChatInv
<1>8. ChatTypes'
  BY <1>0, <1>3, <1>4, <1>6, OwnJob DEF ChatTypes, dbVars
<1>9. job'[w] = j /\ \A v \in Workers : v # w => job'[v] = job[v]
  BY <1>0, <1>3, <1>4, OwnJob DEF ChatTypes
<1>10. pc'[w] = label /\ \A v \in Workers : v # w => pc'[v] = pc[v]
  BY <1>0, <1>4 DEF ChatTypes
<1>11. Serving(w)'
  <2>1. LocalsOf(w)'
    BY <1>3, <1>9, <1>10 DEF LocalsOf
  <2>2. ConnOf(w)' = c /\ NumberOf(w)' = Len(asked[c]) + 1
    BY <1>3, <1>5, <1>6, <1>9 DEF ConnOf, NumberOf, connVars
  <2> QED
    BY <1>1, <1>3, <1>4, <1>5, <1>6, <1>9, <2>1, <2>2 DEF Serving, connVars
<1>12. ASSUME NEW v \in Workers, v # w, pc'[v] # "idle" PROVE Serving(v)'
  <2>1. pc[v] # "idle" /\ job[v].fd \in clients[v] /\ job[v].fd \in Fds /\ ConnOf(v) \in Conns
    BY <1>10, <1>12, AtWork DEF Serving
  <2>2. job[v].fd # fd
    BY <1>0, <1>12, <2>1 DEF ConnInv, Ownership, OneOwner
  <2>3. ConnOf(v) # c
    BY <1>0, <1>1, <2>1, <2>2 DEF ConnInv, Ownership, OneDescriptor, ConnOf
  <2> QED
    BY <1>0, <1>6, <1>9, <1>10, <1>12, <2>1, <2>3, OthersServe
<1>13. HandlerInv'
  BY <1>11, <1>12 DEF HandlerInv
<1>14. ConnInv' /\ TypeOK'
  BY <1>0, <1>8, ConnStepInv DEF TypeOK, ChatTypes, ConnInv
<1> QED
  BY <1>7, <1>13, <1>14 DEF ChatInv

\* The first step of each handler.
LEMMA TakeKeeps ==
    ASSUME ChatInv, NEW w \in Workers, Take(w)
    PROVE  ChatInv'
<1>1. /\ clientUsers \in [Workers -> [Fds -> Users \cup {NoUser}]]
      /\ \A fd \in clients[w] : fd \in Fds /\ sock[fd] \in Conns
  BY OwnedIsOpen DEF ChatInv, TypeOK
<1>2. {"isUserExists", "verifyLogin", "getAllUsers", "getUserSocketFd", "listGroup",
       "setUserOffline", "reply"} \subseteq Labels
  BY DEF Labels, Queries
<1> USE DEF AccountSteps, PrivateSteps, SessionSteps
<1>3. CASE HandleRegister(w)
  <2>1. PICK fd \in clients[w] : \E r \in Requests[sock[fd]] :
          r.op = "register" /\ Begin(w, fd, r, "isUserExists", FALSE)
    BY <1>3 DEF HandleRegister
  <2>2. PICK r \in Requests[sock[fd]] :
          r.op = "register" /\ Begin(w, fd, r, "isUserExists", FALSE)
    BY <2>1
  <2>3. r.user \in Users /\ r.pw \in Passwords
    BY <1>1, <2>2
  <2> QED
    BY <1>1, <1>2, <1>3, <2>2, <2>3, BeginKeeps DEF HandleRegister
<1>4. CASE HandleLogin(w)
  <2>1. PICK fd \in clients[w] : \E r \in Requests[sock[fd]] :
          r.op = "login" /\ Begin(w, fd, r, "verifyLogin", FALSE)
    BY <1>4 DEF HandleLogin
  <2>2. PICK r \in Requests[sock[fd]] :
          r.op = "login" /\ Begin(w, fd, r, "verifyLogin", FALSE)
    BY <2>1
  <2>3. r.user \in Users /\ r.pw \in Passwords
    BY <1>1, <2>2
  <2> QED
    BY <1>1, <1>2, <1>4, <2>2, <2>3, BeginKeeps DEF HandleLogin
<1>5. CASE HandleGetFriends(w)
  <2>1. PICK fd \in clients[w] : \E r \in Requests[sock[fd]] :
          r.op = "friends" /\ Begin(w, fd, r, "getAllUsers", FALSE)
    BY <1>5 DEF HandleGetFriends
  <2> QED
    BY <1>1, <1>2, <1>5, <2>1, BeginKeeps DEF HandleGetFriends
<1>6. CASE HandlePrivateChat(w)
  <2>1. PICK fd \in clients[w] : \E r \in Requests[sock[fd]] :
          /\ r.op = "private"
          /\ Begin(w, fd, r, ChatStart(clientUsers[w][fd], "getUserSocketFd"), FALSE)
    BY <1>6 DEF HandlePrivateChat
  <2>2. PICK r \in Requests[sock[fd]] :
          /\ r.op = "private"
          /\ Begin(w, fd, r, ChatStart(clientUsers[w][fd], "getUserSocketFd"), FALSE)
    BY <2>1
  <2>3. r.user \in Users
    BY <1>1, <2>2
  <2>4. PICK label \in {"getUserSocketFd", "reply"} :
          /\ label = ChatStart(clientUsers[w][fd], "getUserSocketFd")
          /\ label = "getUserSocketFd" => clientUsers[w][fd] # NoUser
    BY DEF ChatStart
  <2> QED
    BY <1>1, <1>2, <1>6, <2>2, <2>3, <2>4, BeginKeeps DEF HandlePrivateChat
<1>7. CASE HandleGroupChat(w)
  <2>1. PICK fd \in clients[w] : \E r \in Requests[sock[fd]] :
          Begin(w, fd, r, ChatStart(clientUsers[w][fd], "listGroup"), FALSE)
    BY <1>7 DEF HandleGroupChat
  <2>2. PICK label \in {"listGroup", "reply"} :
          /\ label = ChatStart(clientUsers[w][fd], "listGroup")
          /\ label = "listGroup" => clientUsers[w][fd] # NoUser
    BY DEF ChatStart
  <2> QED
    BY <1>1, <1>2, <1>7, <2>1, <2>2, BeginKeeps DEF HandleGroupChat
<1>8. CASE HandleLogout(w)
  <2>1. PICK fd \in clients[w] : \E r \in Requests[sock[fd]] :
          /\ Begin(w, fd, r, IF clientUsers[w][fd] = NoUser THEN "reply"
                                                            ELSE "setUserOffline", TRUE)
          /\ clientUsers' = ClosedSession(w, fd)
    BY <1>8 DEF HandleLogout
  <2>2. PICK label \in {"setUserOffline", "reply"} :
          /\ label = IF clientUsers[w][fd] = NoUser THEN "reply" ELSE "setUserOffline"
          /\ label = "setUserOffline" => clientUsers[w][fd] # NoUser
    OBVIOUS
  <2>3. clientUsers' \in [Workers -> [Fds -> Users \cup {NoUser}]]
    BY <1>1, <2>1 DEF ClosedSession
  <2> QED
    BY <1>1, <1>2, <1>8, <2>1, <2>2, <2>3, BeginKeeps DEF HandleLogout
<1> QED
  BY <1>3, <1>4, <1>5, <1>6, <1>7, <1>8 DEF Take

\* A step of the connection layer in which no handler takes part.
LEMMA LoopKeeps ==
    ASSUME ChatInv, ConnStep, UNCHANGED <<dbVars, clientUsers, ctlVars, asked>>,
           outbox' \in [Conns -> Seq(Reply \cup Push)]
    PROVE  ChatInv'
<1>1. ConnInv'
  BY ConnStepInv DEF ChatInv
<1>2. TypeOK'
  BY <1>1 DEF ChatInv, TypeOK, ConnInv, dbVars, ctlVars
<1>3. HandlerInv'
  <2> SUFFICES ASSUME NEW v \in Workers, pc'[v] # "idle" PROVE Serving(v)'
    BY DEF HandlerInv
  <2> QED
    BY OthersServe DEF ctlVars
<1> QED
  BY <1>1, <1>2, <1>3 DEF ChatInv

\* handleNotify and eventCallback.
LEMMA EventKeeps ==
    ASSUME ChatInv, NEW w \in Workers,
           \/ AddClient(w) \/ RefuseClient(w) \/ DeliverNote(w)
           \/ \E fd \in Fds : Disconnect(w, fd)
    PROVE  ChatInv'
<1>0. outbox \in [Conns -> Seq(Reply \cup Push)] /\ pipe \in [Workers -> Seq(Note)]
  BY DEF ChatInv, TypeOK, ConnTypeOK
<1>1. CASE AddClient(w)
  BY <1>0, <1>1, LoopKeeps DEF AddClient, ConnStep, ioVars
<1>2. CASE DeliverNote(w)
  <2>1. pipe[w] # <<>> /\ Head(pipe[w]).type = "s"
    BY <1>2 DEF DeliverNote, HandleSend
  <2>2. Head(pipe[w]) \in Note
    BY <1>0, <2>1, TailFacts
  <2>3. Head(pipe[w]).msg \in Message
    BY <2>1, <2>2 DEF Note
  <2>4. Delivered(w, Head(pipe[w])) \in [Conns -> Seq(Reply \cup Push)]
    <3>1. PushOf(Head(pipe[w]).msg) \in Reply \cup Push
      BY <2>3 DEF PushOf, Push
    <3>2. CASE Head(pipe[w]).fd \in clients[w]
      BY <1>0, <3>1, <3>2, OwnedIsOpen, WriteType DEF Delivered
    <3>3. CASE Head(pipe[w]).fd \notin clients[w]
      BY <1>0, <3>3 DEF Delivered
    <3> QED
      BY <3>2, <3>3
  <2> QED
    BY <1>2, <2>4, LoopKeeps DEF DeliverNote, ConnStep
<1>3. CASE \E fd \in Fds : Disconnect(w, fd)
  BY <1>0, <1>3, LoopKeeps DEF Disconnect, ConnStep, ioVars
<1>4. CASE RefuseClient(w)
  BY <1>0, <1>4, LoopKeeps DEF RefuseClient, ConnStep, ioVars
<1> QED
  BY <1>1, <1>2, <1>3, <1>4

\* A crash leaves the tables and no handler.
LEMMA DieKeeps ==
    ASSUME ChatInv, Die
    PROVE  ChatInv'
<1>1. ConnInv'
  BY InvStep DEF Die, ConnNext, ChatInv
<1>2. TypeOK'
  <2>1. /\ clientUsers' \in [Workers -> [Fds -> Users \cup {NoUser}]]
        /\ pc' \in [Workers -> Labels] /\ job' \in [Workers -> Job]
    BY IdleJobType DEF Die, NoSessions, Labels
  <2> QED
    BY <1>1, <2>1 DEF ChatInv, TypeOK, ConnInv, Die, dbVars, ioVars
<1>3. HandlerInv'
  BY DEF Die, HandlerInv
<1> QED
  BY <1>1, <1>2, <1>3 DEF ChatInv, Die, ioVars
-----------------------------------------------------------------------------
(* The theorems. *)

\* A fresh server and the tables of the first start.
LEMMA ChatInit == Init => ChatInv
<1> SUFFICES ASSUME Init PROVE ChatInv
  OBVIOUS
<1>1. ConnInv
  BY InvInit DEF Init
<1>2. ChatTypes
  BY IdleJobType DEF Init, ChatTypes, NoSessions, Labels
<1>3. HandlerInv
  BY DEF Init, HandlerInv
<1>4. \A c \in Conns : Len(asked[c]) <= MaxSent
  BY DEF Init
<1> QED
  BY <1>1, <1>2, <1>3, <1>4 DEF ChatInv, TypeOK, ChatTypes, ConnInv

\* Every step of the main thread and of the workers keeps the inductive invariant.
LEMMA ChatStep == ChatInv /\ [Next]_vars => ChatInv'
<1> SUFFICES ASSUME ChatInv, [Next]_vars PROVE ChatInv'
  OBVIOUS
<1>0. outbox \in [Conns -> Seq(Reply \cup Push)]
  BY DEF ChatInv, TypeOK
<1>1. CASE MainStep
  BY <1>0, <1>1, LoopKeeps DEF MainStep, ConnStep, ioVars
<1>2. ASSUME NEW w \in Workers, Take(w) PROVE ChatInv'
  BY <1>2, TakeKeeps
<1>3. ASSUME NEW w \in Workers, HandlerStep(w) PROVE ChatInv'
  BY <1>3, AccountStepKeeps, PrivateStepKeeps, GroupStepKeeps, SendReplyKeeps DEF HandlerStep
<1>4. ASSUME NEW w \in Workers,
             \/ AddClient(w) \/ RefuseClient(w) \/ DeliverNote(w)
             \/ \E fd \in Fds : Disconnect(w, fd)
      PROVE  ChatInv'
  BY <1>4, EventKeeps
<1>5. CASE Die
  BY <1>5, DieKeeps
<1>6. CASE UNCHANGED vars
  BY <1>0, <1>6, LoopKeeps DEF vars, ConnStep, ioVars
<1> QED
  BY <1>1, <1>2, <1>3, <1>4, <1>5, <1>6 DEF Next

\* The invariant of the whole server: the connection layer's, the types of tables,
\* sessions and handlers' locals, and what a handler at work may rely on.
THEOREM ChatHolds == Spec => []ChatInv
BY ChatInit, ChatStep, PTL DEF Spec

\* The tables, sessions, handlers' locals and output buffers keep their types.
THEOREM ChatTypeCorrect == Spec => []TypeOK
<1>1. ChatInv => TypeOK
  BY DEF ChatInv
<1> QED
  BY <1>1, ChatInit, ChatStep, PTL DEF Spec

\* From its first query to its answer a handler serves one open connection of its
\* own worker and that connection's last request, and acts for a logged-in user
\* only (readCallback to sendToClient), whatever the other threads do meanwhile.
THEOREM HandlerHolds == Spec => []HandlerInv
<1>1. ChatInv => HandlerInv
  BY DEF ChatInv
<1> QED
  BY <1>1, ChatInit, ChatStep, PTL DEF Spec
-----------------------------------------------------------------------------
(* The chat server implements the connection layer. *)

\* A handler's step is a send to another worker's socketpair, to a descriptor and
\* of a message that ConnSpec knows, or it is none of the connection layer's.
LEMMA HandlerRefines ==
    ASSUME ChatInv, NEW w \in Workers, HandlerStep(w)
    PROVE  ConnStep
<1>1. ASSUME pc[w] \in {"sendPrivate", "sendMember"}
      PROVE  /\ job[w].via \in Workers /\ job[w].to \in Fds /\ job[w].from # NoUser
             /\ pc[w] = "sendPrivate" => job[w].req.user \in Users
  BY <1>1, AtWork DEF Serving, LocalsOf, Job, SessionSteps, PrivateSteps
<1>2. CASE SendPrivate(w)
  <2>1. pc[w] = "sendPrivate"
    BY <1>2 DEF SendPrivate, Runs
  <2>2. Forward(w, "private", job[w].req.user) \in Msgs
    BY <1>1, <2>1, ForwardType
  <2> QED
    BY <1>1, <1>2, <2>1, <2>2 DEF SendPrivate, ConnStep
<1>3. CASE SendMember(w)
  <2>1. pc[w] = "sendMember"
    BY <1>3 DEF SendMember, Runs
  <2>2. Forward(w, "group", NoUser) \in Msgs
    BY <1>1, <2>1, ForwardType
  <2> QED
    BY <1>1, <1>3, <2>1, <2>2 DEF SendMember, ConnStep
<1>4. CASE ~ (SendPrivate(w) \/ SendMember(w))
  BY <1>4 DEF ConnStep, HandlerStep, IsUserExists, InsertUser, VerifyLogin, DeleteOnline,
       InsertOnline, GetOfflineMessages, ClearOfflineMessages, GetAllUsers, GetOnlineUsers,
       GetUserSocketFd,
       RoutePrivate, StoreOfflineMessage, ListGroup, LookupMember, RouteMember, GroupDone,
       SetUserOffline, SendReply
<1> QED
  BY <1>2, <1>3, <1>4

\* Every step of the chat server but a crash is one of the connection layer's in
\* which no worker closes the connection it is serving, or changes nothing of it.
LEMMA ChatConnStep == ChatInv /\ [Next]_vars => ConnStep \/ Die
<1> SUFFICES ASSUME ChatInv, [Next]_vars, ~Die PROVE ConnStep
  OBVIOUS
<1>1. CASE MainStep
  BY <1>1 DEF MainStep, ConnStep
<1>2. ASSUME NEW w \in Workers, Take(w) PROVE UNCHANGED connVars
  BY <1>2 DEF Take, HandleRegister, HandleLogin, HandleGetFriends, HandlePrivateChat,
              HandleGroupChat, HandleLogout
<1>3. ASSUME NEW w \in Workers, HandlerStep(w) PROVE ConnStep
  BY <1>3, HandlerRefines
<1>4. ASSUME NEW w \in Workers,
             \/ AddClient(w) \/ RefuseClient(w) \/ DeliverNote(w)
             \/ \E fd \in Fds : Disconnect(w, fd)
      PROVE  ConnStep
  BY <1>4 DEF AddClient, RefuseClient, DeliverNote, Disconnect, ConnStep
<1>5. CASE UNCHANGED vars
  BY <1>5 DEF vars, ConnStep
<1> QED
  BY <1>1, <1>2, <1>3, <1>4, <1>5 DEF Next, ConnStep

\* So every step refines one of ConnSpec.
LEMMA ChatRefinesStep == ChatInv /\ [Next]_vars => [ConnNext]_connVars
<1>1. Die => ConnNext
  BY DEF Die, ConnNext
<1> QED
  BY <1>1, ChatConnStep, ConnStepInv DEF ChatInv

\* The chat server is an implementation of the connection layer: whatever handlers
\* forward, and whenever, is a notification ConnSpec allows (notifySendMessage).
THEOREM ChatImplementsConnections == Spec => ConnSpec
<1>1. Init => ConnInit
  BY DEF Init
<1> QED
  BY <1>1, ChatInit, ChatStep, ChatRefinesStep, PTL DEF Spec, ConnSpec

\* So no socket of the chat server is ever served by two workers.
THEOREM ChatOwnership == Spec => []Ownership
BY ChatImplementsConnections, OwnershipHolds, PTL
=============================================================================
