---------------------------- MODULE AnswerProofs ----------------------------
(***************************************************************************)
(* What clients are told: every request is answered once and in order, a   *)
(* name is registered once, and only its password logs in.  For any number *)
(* of workers, clients and users, any reuse of descriptors, any failing    *)
(* queries and any number of crashes.  The last three parts are about what *)
(* several threads pass on: sessions and rows of online_users belong to    *)
(* the connection that has their descriptor or to one that is gone, no     *)
(* private message is given to two, and what one client sends another gets *)
(* in the order in which it was sent.                                      *)
(***************************************************************************)
EXTENDS AuthenticityProofs

USE ConnAssumption, ChatAssumption

\* The queries of handleRegister and of handleLogin.
RegisterSteps == {"isUserExists", "insertUser"}
LoginSteps    == LoggedIn \cup {"verifyLogin"}
Accounts      == {"register", "login"}

\* A worker is in the handler of its request's kind (processMessage's switch).
RightHandler ==
    \A w \in Workers :
      /\ pc[w] \in RegisterSteps => job[w].req.op = "register"
      /\ pc[w] \in LoginSteps => job[w].req.op = "login"
      /\ pc[w] \notin RegisterSteps \cup LoginSteps \cup {"idle", "reply"} =>
           job[w].req.op \notin Accounts

\* Worker w is about to tell its client of success.
Telling(w) == pc[w] = "reply" /\ job[w].ok

\* The n-th request of c has succeeded, and c was told so or is about to be.
Settled(c, n) == \/ Told(c, n)
                 \/ \E w \in Workers : Telling(w) /\ ConnOf(w) = c /\ NumberOf(w) = n

\* The n-th request of c is one of kind op that has succeeded.
Done(c, n, op) == Settled(c, n) /\ n \in DOMAIN asked[c] /\ asked[c][n].op = op

PasswordShown == \A w \in Workers : pc[w] \in LoggedIn =>
                   users[job[w].req.user] = job[w].req.pw
RowCounts     == \A c \in Conns, n \in Nat : \A op \in Accounts : Done(c, n, op) =>
                   users[asked[c][n].user] = asked[c][n].pw
OneWinner     == \A c, d \in Conns, i, j \in Nat :
                   /\ Done(c, i, "register") /\ Done(d, j, "register")
                   /\ asked[c][i].user = asked[d][j].user
                   => c = d /\ i = j
WinnersNew    == \A c \in Conns, n \in Nat : Done(c, n, "register") =>
                   Registered[asked[c][n].user] = NoPw
RowsRemain    == \A u \in Users : Registered[u] # NoPw => users[u] # NoPw

\* The inductive strengthening of RegisteredOnce and LoginsAuthentic.
AccountInv ==
    /\ AskedByClient /\ OwnDescriptor
    /\ RightHandler /\ PasswordShown
    /\ RowCounts /\ OneWinner /\ WinnersNew /\ RowsRemain
-----------------------------------------------------------------------------
(* Who serves a connection. *)

\* The request with which worker w begins, and where (readCallback, processMessage).
Begins(w, fd, r) ==
    /\ pc[w] = "idle"
    /\ asked' = [asked EXCEPT ![sock[fd]] = Append(@, r)]
    /\ job'[w].fd = fd /\ job'[w].req = r
    /\ pc'[w] # "idle" /\ pc'[w] \notin LoggedIn
    /\ pc'[w] \in RegisterSteps => r.op = "register"
    /\ pc'[w] \in LoginSteps => r.op = "login"
    /\ pc'[w] \notin RegisterSteps \cup LoginSteps => r.op \notin Accounts

\* What Begin does to the control point and the request of its worker.
LEMMA BeginEffect ==
    ASSUME ChatInv, NEW w \in Workers, NEW fd, NEW r, NEW label, NEW ok,
           Begin(w, fd, r, label, ok)
    PROVE  /\ pc[w] = "idle" /\ pc'[w] = label
           /\ job'[w].fd = fd /\ job'[w].req = r
           /\ asked' = [asked EXCEPT ![sock[fd]] = Append(@, r)]
BY DEF Begin, Goto, IdleJob, ChatInv, TypeOK

\* A handler begins with a request of its own kind.
LEMMA TakeBegins ==
    ASSUME ChatInv, NEW w \in Workers, Take(w)
    PROVE  \E fd \in clients[w] : \E r \in Requests[sock[fd]] : Begins(w, fd, r)
<1>1. ASSUME NEW fd \in clients[w], NEW r \in Requests[sock[fd]], NEW label, NEW ok,
             Begin(w, fd, r, label, ok), label # "idle", label \notin LoggedIn,
             label \in RegisterSteps => r.op = "register",
             label \in LoginSteps => r.op = "login",
             label \notin RegisterSteps \cup LoginSteps => r.op \notin Accounts
      PROVE  Begins(w, fd, r)
  BY <1>1, BeginEffect DEF Begins
<1> USE DEF LoggedIn, RegisterSteps, LoginSteps, Accounts
<1>2. CASE HandleRegister(w)
  BY <1>1, <1>2 DEF HandleRegister
<1>3. CASE HandleLogin(w)
  BY <1>1, <1>3 DEF HandleLogin
<1>4. CASE HandleGetFriends(w)
  BY <1>1, <1>4 DEF HandleGetFriends
<1>5. CASE HandlePrivateChat(w)
  BY <1>1, <1>5 DEF HandlePrivateChat, ChatStart
<1>6. CASE HandleGroupChat(w)
  BY <1>1, <1>6 DEF HandleGroupChat, ChatStart
<1>7. CASE HandleLogout(w)
  BY <1>1, <1>7 DEF HandleLogout
<1> QED
  BY <1>2, <1>3, <1>4, <1>5, <1>6, <1>7 DEF Take

\* Nobody but worker w handles requests of the connection it owns at descriptor fd.
LEMMA OwnerHandles ==
    ASSUME ChatInv, NEW w \in Workers, NEW fd \in clients[w],
           NEW v \in Workers, pc[v] # "idle", ConnOf(v) = sock[fd]
    PROVE  v = w
<1>1. job[v].fd \in clients[v] /\ job[v].fd \in Fds /\ sock[job[v].fd] \in Conns
  BY AtWork DEF Serving, ConnOf
<1>2. fd \in Fds /\ sock[fd] # NoConn
  BY OwnedIsOpen
<1>3. job[v].fd = fd
  BY <1>1, <1>2 DEF ConnOf, ChatInv, ConnInv, Ownership, OneDescriptor
<1> QED
  BY <1>1, <1>3 DEF ChatInv, ConnInv, Ownership, OneOwner

\* So a connection has one handler at work at most.
LEMMA OneHandler ==
    ASSUME ChatInv, NEW v \in Workers, NEW w \in Workers, NEW c, Handling(v, c), Handling(w, c)
    PROVE  v = w
<1>1. job[w].fd \in clients[w] /\ pc[v] # "idle" /\ ConnOf(v) = sock[job[w].fd]
  BY AtWork DEF Handling, Serving, ConnOf
<1> QED
  BY <1>1, OwnerHandles

\* Queries and calls read no request.
LEMMA StepAsksNone ==
    ASSUME NEW w \in Workers, HandlerStep(w)
    PROVE  asked' = asked
BY DEF HandlerStep, IsUserExists, InsertUser, VerifyLogin, DeleteOnline, InsertOnline,
       GetOfflineMessages, ClearOfflineMessages, GetAllUsers, GetOnlineUsers, GetUserSocketFd,
       RoutePrivate, SendPrivate, StoreOfflineMessage, ListGroup, LookupMember, RouteMember,
       SendMember, GroupDone, SetUserOffline, SendReply, ioVars

\* A request is read by the worker that owns its connection, between two requests.
LEMMA WhoAsks ==
    ASSUME ChatInv, [Next]_vars, NEW c \in Conns, asked'[c] # asked[c]
    PROVE  \E w \in Workers : \E fd \in clients[w] : \E r \in Requests[c] :
             /\ sock[fd] = c /\ Begins(w, fd, r) /\ Take(w)
             /\ asked'[c] = Append(asked[c], r)
<1>0. asked \in [Conns -> Seq(Request)]
  BY DEF ChatInv, TypeOK
<1>1. ASSUME NEW w \in Workers, Take(w)
      PROVE  \E fd \in clients[w] : \E r \in Requests[c] :
               sock[fd] = c /\ Begins(w, fd, r) /\ asked'[c] = Append(asked[c], r)
  <2>1. PICK fd \in clients[w] : \E r \in Requests[sock[fd]] : Begins(w, fd, r)
    BY <1>1, TakeBegins
  <2>2. PICK r \in Requests[sock[fd]] : Begins(w, fd, r)
    BY <2>1
  <2> QED
    BY <1>0, <2>2, OwnedIsOpen DEF Begins
<1>2. CASE MainStep \/ Die \/ UNCHANGED vars
  BY <1>2 DEF MainStep, Die, vars, ioVars
<1>3. ASSUME NEW w \in Workers,
             \/ AddClient(w) \/ RefuseClient(w) \/ DeliverNote(w)
             \/ \E fd \in Fds : Disconnect(w, fd)
      PROVE  asked' = asked
  BY <1>3 DEF AddClient, RefuseClient, DeliverNote, Disconnect, ioVars
<1> QED
  BY <1>1, <1>2, <1>3, StepAsksNone DEF Next

\* While a handler is at work its connection's next request waits.
LEMMA SameNumber ==
    ASSUME ChatInv, [Next]_vars, ~Die, NEW w \in Workers, pc[w] # "idle", job'[w].fd = job[w].fd
    PROVE  ConnOf(w)' = ConnOf(w) /\ asked'[ConnOf(w)] = asked[ConnOf(w)]
           /\ NumberOf(w)' = NumberOf(w)
<1>1. PICK c \in Conns : c = ConnOf(w)
  BY AtWork
<1>2. ASSUME asked'[c] # asked[c] PROVE FALSE
  <2>1. PICK v \in Workers : \E fd \in clients[v] : \E r \in Requests[c] :
             sock[fd] = c /\ Begins(v, fd, r)
    BY <1>2, WhoAsks
  <2>2. pc[v] = "idle" /\ \E fd \in clients[v] : sock[fd] = c
    BY <2>1 DEF Begins
  <2> QED
    BY <1>1, <2>2, OwnerHandles
<1>3. ConnOf(w)' = c
  BY <1>1, SameConn
<1> QED
  BY <1>1, <1>2, <1>3 DEF NumberOf
-----------------------------------------------------------------------------
(* Every request is answered once and in order. *)

\* A handler's last step gives its client the answer (sendToClient(clientFd, resp)).
LEMMA ReplyWritten ==
    ASSUME ChatInv, NEW w \in Workers, HandlerStep(w), pc'[w] = "idle"
    PROVE  /\ pc[w] = "reply"
           /\ outbox' = Write(ConnOf(w), ReplyOf(w))
<1>0. pc \in [Workers -> Labels]
  BY DEF ChatInv, TypeOK
<1>1. SendReply(w)
  BY <1>0 DEF HandlerStep, IsUserExists, InsertUser, VerifyLogin, DeleteOnline,
     InsertOnline, GetOfflineMessages, ClearOfflineMessages, GetAllUsers, GetOnlineUsers,
     GetUserSocketFd, RoutePrivate, SendPrivate, StoreOfflineMessage, ListGroup, LookupMember,
     RouteMember, SendMember, GroupDone, SetUserOffline, Goto, Finish, OpenSession
<1> QED
  BY <1>1, AtWork DEF SendReply, Runs, Serving

\* What is appended to a connection's output is a push or its handler's answer.
LEMMA OutputEffect ==
    ASSUME ChatInv, [Next]_vars, NEW c \in Conns
    PROVE  \/ outbox'[c] = outbox[c]
           \/ \E p : p.type = "push" /\ outbox'[c] = Append(outbox[c], p)
           \/ \E w \in Workers : /\ HandlerStep(w) /\ pc[w] = "reply" /\ pc'[w] = "idle"
                                 /\ Handling(w, c)
                                 /\ outbox'[c] = Append(outbox[c], ReplyOf(w))
<1> DEFINE Pushed == \E p : p.type = "push" /\ outbox'[c] = Append(outbox[c], p)
<1>0. outbox \in [Conns -> Seq(Reply \cup Push)] /\ pc \in [Workers -> Labels]
  BY DEF ChatInv, TypeOK
<1>1. ASSUME NEW d, NEW packet, outbox' = Write(d, packet)
      PROVE  outbox'[c] = outbox[c] \/ (c = d /\ outbox'[c] = Append(outbox[c], packet))
  BY <1>0, <1>1 DEF Write
<1>2. ASSUME NEW w \in Workers, SendReply(w), outbox'[c] # outbox[c]
      PROVE  /\ HandlerStep(w) /\ pc[w] = "reply" /\ pc'[w] = "idle" /\ Handling(w, c)
             /\ outbox'[c] = Append(outbox[c], ReplyOf(w))
  <2>1. pc[w] = "reply" /\ pc'[w] = "idle" /\ HandlerStep(w)
    BY <1>0, <1>2 DEF SendReply, Runs, Goto, HandlerStep
  <2>2. outbox' = Write(ConnOf(w), ReplyOf(w))
    BY <2>1, ReplyWritten
  <2> QED
    BY <1>1, <1>2, <2>1, <2>2 DEF Handling
<1>3. ASSUME NEW msg PROVE PushOf(msg).type = "push"
  BY DEF PushOf
<1>4. ASSUME NEW w \in Workers, LookupMember(w) PROVE outbox'[c] = outbox[c] \/ Pushed
  BY <1>1, <1>3, <1>4 DEF LookupMember
<1>5. ASSUME NEW w \in Workers, DeliverNote(w) PROVE outbox'[c] = outbox[c] \/ Pushed
  BY <1>1, <1>3, <1>5 DEF DeliverNote, Delivered
<1>6. ASSUME NEW w \in Workers, HandlerStep(w), ~SendReply(w), ~LookupMember(w)
      PROVE  outbox' = outbox
  BY <1>6 DEF HandlerStep, IsUserExists, InsertUser, VerifyLogin, DeleteOnline, InsertOnline,
       GetOfflineMessages, ClearOfflineMessages, GetAllUsers, GetOnlineUsers, GetUserSocketFd,
       RoutePrivate, SendPrivate, StoreOfflineMessage, ListGroup, RouteMember, SendMember,
       GroupDone, SetUserOffline, ioVars
<1>7. ASSUME NEW w \in Workers, Take(w) PROVE outbox' = outbox
  BY <1>7 DEF Take, HandleRegister, HandleLogin, HandleGetFriends, HandlePrivateChat,
              HandleGroupChat, HandleLogout
<1>8. ASSUME NEW w \in Workers,
             AddClient(w) \/ RefuseClient(w) \/ \E fd \in Fds : Disconnect(w, fd)
      PROVE  outbox' = outbox
  BY <1>8 DEF AddClient, RefuseClient, Disconnect, ioVars
<1>9. CASE MainStep \/ Die \/ UNCHANGED vars
  BY <1>9 DEF MainStep, Die, vars, ioVars
<1> QED
  BY <1>2, <1>4, <1>5, <1>6, <1>7, <1>8, <1>9 DEF Next

\* A connection that is gone stays so: accept makes new ones (acceptCallback).
LEMMA GoneStays ==
    ASSUME ChatInv, [Next]_vars, NEW c \in Conns, Gone(c)
    PROVE  Gone(c)'
BY HolderStays DEF Gone

\* Whom a connection's handler was before this step, unless it begins in it.
LEMMA WasHandling ==
    ASSUME ChatInv, [Next]_vars, NEW c \in Conns, NEW w \in Workers, Handling(w, c)',
           asked'[c] = asked[c]
    PROVE  Handling(w, c) /\ NumberOf(w)' = NumberOf(w) /\ ~(pc'[w] = "idle")
<1>0. ~Die /\ pc'[w] # "idle" /\ ConnOf(w)' = c
  BY DEF Die, Handling
<1>1. asked[c] \in Seq(Request)
  BY DEF ChatInv, TypeOK
<1>2. ASSUME Take(w) PROVE FALSE
  <2>1. PICK fd \in clients[w] : \E r \in Requests[sock[fd]] : Begins(w, fd, r)
    BY <1>2, TakeBegins
  <2>2. PICK r \in Requests[sock[fd]] : Begins(w, fd, r)
    BY <2>1
  <2>3. sock' = sock
    BY <1>2 DEF Take, HandleRegister, HandleLogin, HandleGetFriends, HandlePrivateChat,
                HandleGroupChat, HandleLogout, connVars
  <2>4. sock[fd] = c /\ asked'[c] = Append(asked[c], r)
    BY <1>0, <2>2, <2>3 DEF Begins, ConnOf, ChatInv, TypeOK
  <2> QED
    BY <1>1, <2>4
<1>3. pc[w] # "idle" /\ job'[w].fd = job[w].fd
  BY <1>0, <1>2, WhoMoves, StepEffect
<1> QED
  BY <1>0, <1>3, SameNumber DEF Handling

\* A handler goes on with its request or has answered it, unless the process dies.
LEMMA StillHandling ==
    ASSUME ChatInv, [Next]_vars, ~Die, NEW c \in Conns, NEW w \in Workers, Handling(w, c)
    PROVE  \/ Handling(w, c)'
           \/ outbox'[c] = Append(outbox[c], ReplyOf(w))
<1>0. outbox \in [Conns -> Seq(Reply \cup Push)]
  BY DEF ChatInv, TypeOK
<1>1. CASE pc'[w] = "idle"
  <2>1. HandlerStep(w)
    BY <1>1, WhoMoves, TakeBegins DEF Handling, Begins
  <2> QED
    BY <1>0, <1>1, <2>1, ReplyWritten DEF Handling, Write
<1>2. CASE pc'[w] # "idle"
  <2>1. ~Take(w)
    BY TakeBegins DEF Handling, Begins
  <2>2. job'[w].fd = job[w].fd
    BY <1>2, <2>1, WhoMoves, StepEffect
  <2> QED
    BY <1>2, <2>2, SameConn DEF Handling
<1> QED
  BY <1>1, <1>2

\* The same properties for connection c alone.
InOrder(c) ==
    /\ \A i, j \in Answers(c) : i < j => outbox[c][i].n < outbox[c][j].n
    /\ \A i \in Answers(c) : /\ outbox[c][i].n <= Len(asked[c])
                             /\ \A w \in Workers : Handling(w, c) => outbox[c][i].n < NumberOf(w)
    /\ \A n \in 1 .. Len(asked[c]) :
         \/ \E i \in Answers(c) : outbox[c][i].n = n
         \/ n = Len(asked[c]) /\ ((\E w \in Workers : Handling(w, c)) \/ Gone(c))

\* A step that neither asks nor answers on c changes none of it.
LEMMA OrderUntouched ==
    ASSUME ChatInv, [Next]_vars, NEW c \in Conns, InOrder(c), asked'[c] = asked[c],
           \/ outbox'[c] = outbox[c]
           \/ \E p : p.type = "push" /\ outbox'[c] = Append(outbox[c], p)
    PROVE  InOrder(c)'
<1>0. outbox[c] \in Seq(Reply \cup Push) /\ asked[c] \in Seq(Request)
  BY DEF ChatInv, TypeOK
<1>1. Answers(c)' = Answers(c) /\ \A i \in Answers(c) : outbox'[c][i] = outbox[c][i]
  <2>1. CASE outbox'[c] = outbox[c]
    BY <2>1 DEF Answers
  <2>2. ASSUME NEW p, p.type = "push", outbox'[c] = Append(outbox[c], p)
        PROVE  Answers(c)' = Answers(c) /\ \A i \in Answers(c) : outbox'[c][i] = outbox[c][i]
    <3>1. PICK l \in Nat : l = Len(outbox[c]) + 1
      BY <1>0
    <3>2. /\ DOMAIN outbox[c] = 1 .. l - 1 /\ DOMAIN outbox'[c] = 1 .. l
          /\ outbox'[c][l] = p /\ \A i \in 1 .. l - 1 : outbox'[c][i] = outbox[c][i]
      BY <1>0, <2>2, <3>1
    <3>3. ~ (outbox'[c][l].type = "reply")
      BY <2>2, <3>2
    <3> QED
      BY <3>1, <3>2, <3>3 DEF Answers
  <2> QED
    BY <2>1, <2>2
<1>2. \A w \in Workers : Handling(w, c)' => Handling(w, c) /\ NumberOf(w)' = NumberOf(w)
  BY WasHandling
<1>3. ASSUME NEW w \in Workers, Handling(w, c) PROVE Handling(w, c)' \/ Gone(c)'
  <2>1. CASE Die
    <3>1. job[w].fd \in Fds /\ sock[job[w].fd] = c /\ sock[job[w].fd] \in Conns
      BY <1>3, AtWork DEF Handling, ConnOf
    <3>2. c \in accepted
      BY <3>1 DEF ChatInv, ConnInv, OpenAccepted
    <3> QED
      BY <2>1, <3>2, SockEffect DEF Die, Crash, Gone
  <2>2. CASE ~Die
    <3>1. ASSUME outbox'[c] = Append(outbox[c], ReplyOf(w)) PROVE FALSE
      <4>1. ReplyOf(w).type = "reply"
        BY DEF ReplyOf
      <4> QED
        BY <1>0, <3>1, <4>1
    <3> QED
      BY <1>3, <2>2, <3>1, StillHandling
  <2> QED
    BY <2>1, <2>2
<1>4. \A i, j \in Answers(c)' : i < j => outbox'[c][i].n < outbox'[c][j].n
  BY <1>1 DEF InOrder
<1>5. ASSUME NEW i \in Answers(c)'
      PROVE  /\ outbox'[c][i].n <= Len(asked'[c])
             /\ \A w \in Workers : Handling(w, c)' => outbox'[c][i].n < NumberOf(w)'
  BY <1>1, <1>2, <1>5 DEF InOrder
<1>6. ASSUME NEW n \in 1 .. Len(asked'[c])
      PROVE  \/ \E i \in Answers(c)' : outbox'[c][i].n = n
             \/ n = Len(asked'[c]) /\ ((\E w \in Workers : Handling(w, c)') \/ Gone(c)')
  BY <1>1, <1>3, <1>6, GoneStays DEF InOrder
<1> QED
  BY <1>4, <1>5, <1>6 DEF InOrder

\* The answer is for the request being handled, which had none.
LEMMA OrderAnswered ==
    ASSUME ChatInv, [Next]_vars, NEW c \in Conns, InOrder(c),
           NEW w \in Workers, HandlerStep(w), pc'[w] = "idle", Handling(w, c),
           outbox'[c] = Append(outbox[c], ReplyOf(w))
    PROVE  InOrder(c)'
<1>0. outbox[c] \in Seq(Reply \cup Push) /\ asked[c] \in Seq(Request)
  BY DEF ChatInv, TypeOK
<1>1. NumberOf(w) = Len(asked[c]) /\ asked' = asked /\ Len(asked[c]) \in Nat
  BY <1>0, StepAsksNone DEF Handling, NumberOf
<1>2. PICK p : p = ReplyOf(w)
  OBVIOUS
<1>3. p.type = "reply" /\ p.n = Len(asked[c])
  BY <1>1, <1>2 DEF ReplyOf
<1>4. PICK l \in Nat : l = Len(outbox[c]) + 1
  BY <1>0
<1>5. /\ Answers(c)' = Answers(c) \cup {l} /\ outbox'[c][l] = p
      /\ \A i \in Answers(c) : i \in 1 .. l - 1 /\ outbox'[c][i] = outbox[c][i]
  BY <1>0, <1>2, <1>3, <1>4 DEF Answers
<1>6. ASSUME NEW i \in Answers(c)
      PROVE  outbox[c][i].n < Len(asked[c]) /\ i < l
  BY <1>1, <1>4, <1>5, <1>6 DEF InOrder
<1>7. ASSUME NEW v \in Workers, Handling(v, c)' PROVE FALSE
  <2>1. Handling(v, c) /\ pc'[v] # "idle"
    BY <1>1, <1>7, WasHandling
  <2> QED
    BY <2>1, OneHandler
<1>8. ASSUME NEW i \in Answers(c)', NEW j \in Answers(c)', i < j
      PROVE  outbox'[c][i].n < outbox'[c][j].n
  <2>1. i \in Answers(c)
    BY <1>5, <1>6, <1>8, <1>4
  <2> QED
    BY <1>3, <1>5, <1>6, <1>8, <2>1 DEF InOrder
<1>9. ASSUME NEW i \in Answers(c)' PROVE outbox'[c][i].n <= Len(asked'[c])
  <2>1. CASE i \in Answers(c)
    <3>1. outbox[c][i].n <= Len(asked[c])
      BY <2>1 DEF InOrder
    <3> QED
      BY <1>1, <1>5, <2>1, <3>1
  <2>2. CASE i = l
    <3>1. outbox'[c][i].n = Len(asked[c])
      BY <1>3, <1>5, <2>2
    <3> QED
      BY <1>1, <3>1
  <2> QED
    BY <1>5, <1>9, <2>1, <2>2
<1>10. ASSUME NEW n \in 1 .. Len(asked'[c]) PROVE \E i \in Answers(c)' : outbox'[c][i].n = n
  BY <1>1, <1>3, <1>5, <1>10 DEF InOrder
<1> QED
  BY <1>7, <1>8, <1>9, <1>10 DEF InOrder

\* A request is read when all those before it have their answers.
LEMMA OrderAsked ==
    ASSUME ChatInv, [Next]_vars, NEW c \in Conns, InOrder(c), asked'[c] # asked[c]
    PROVE  InOrder(c)'
<1>0. outbox[c] \in Seq(Reply \cup Push) /\ asked[c] \in Seq(Request)
  BY DEF ChatInv, TypeOK
<1>1. PICK w \in Workers : \E fd \in clients[w] : \E r \in Requests[c] :
             /\ sock[fd] = c /\ Begins(w, fd, r) /\ Take(w)
             /\ asked'[c] = Append(asked[c], r)
  BY WhoAsks
<1>2. PICK fd \in clients[w] : \E r \in Requests[c] :
             /\ sock[fd] = c /\ Begins(w, fd, r) /\ Take(w)
             /\ asked'[c] = Append(asked[c], r)
  BY <1>1
<1>3. /\ sock[fd] = c /\ pc[w] = "idle" /\ Take(w) /\ fd \in Fds
      /\ job'[w].fd = fd /\ pc'[w] # "idle"
      /\ Len(asked[c]) \in Nat /\ Len(asked'[c]) = Len(asked[c]) + 1
  BY <1>0, <1>2, OwnedIsOpen DEF Begins
<1>4. outbox' = outbox /\ sock' = sock
  BY <1>3 DEF Take, HandleRegister, HandleLogin, HandleGetFriends, HandlePrivateChat,
              HandleGroupChat, HandleLogout, connVars
<1>5. Handling(w, c)'
  BY <1>3, <1>4 DEF Handling, ConnOf
<1>6. ~Gone(c) /\ \A v \in Workers : ~Handling(v, c)
  BY <1>2, <1>3, OwnerHandles DEF Gone, Handling
<1>7. Answers(c)' = Answers(c)
  BY <1>4 DEF Answers
<1>8. \A i, j \in Answers(c)' : i < j => outbox'[c][i].n < outbox'[c][j].n
  BY <1>4, <1>7 DEF InOrder
<1>9. ASSUME NEW i \in Answers(c)'
      PROVE  /\ outbox'[c][i].n <= Len(asked'[c])
             /\ \A v \in Workers : Handling(v, c)' => outbox'[c][i].n < NumberOf(v)'
  <2>1. outbox[c][i].n \in Nat /\ outbox[c][i].n <= Len(asked[c])
    <3>1. outbox[c][i] \in Reply
      BY <1>0, <1>7, <1>9 DEF Answers, Reply, Push
    <3> QED
      BY <1>7, <1>9, <3>1 DEF InOrder, Reply
  <2> QED
    BY <1>3, <1>4, <2>1 DEF Handling, NumberOf
<1>10. ASSUME NEW n \in 1 .. Len(asked'[c])
       PROVE  \/ \E i \in Answers(c)' : outbox'[c][i].n = n
              \/ n = Len(asked'[c]) /\ \E v \in Workers : Handling(v, c)'
  <2>1. n = Len(asked'[c]) \/ n \in 1 .. Len(asked[c])
    BY <1>3, <1>10
  <2> QED
    BY <1>4, <1>5, <1>6, <1>7, <2>1 DEF InOrder
<1> QED
  BY <1>8, <1>9, <1>10 DEF InOrder

\* No step takes the answers out of order, or leaves a request without one.
LEMMA OrderStep == ChatInv /\ AnsweredInOrder /\ [Next]_vars => AnsweredInOrder'
<1> SUFFICES ASSUME ChatInv, AnsweredInOrder, [Next]_vars, NEW c \in Conns PROVE InOrder(c)'
  BY DEF AnsweredInOrder, InOrder
<1>1. InOrder(c)
  BY DEF AnsweredInOrder, InOrder
<1>2. CASE asked'[c] # asked[c]
  BY <1>1, <1>2, OrderAsked
<1>3. CASE asked'[c] = asked[c]
  BY <1>1, <1>3, OutputEffect, OrderUntouched, OrderAnswered
<1> QED
  BY <1>2, <1>3

\* The k-th answer on a connection is for its k-th request, through any interleaving of
\* the workers, any failing queries and crashes (processMessage, sendToClient).
THEOREM AnsweredInOrderHolds == Spec => []AnsweredInOrder
<1>1. Init => AnsweredInOrder
  BY DEF Init, AnsweredInOrder, Answers
<1> QED
  BY <1>1, ChatInit, ChatStep, OrderStep, PTL DEF Spec
-----------------------------------------------------------------------------
(* Accounts. *)

\* The queries of registering and of logging in stay among themselves.
LEMMA StepLabels ==
    ASSUME ChatInv, NEW w \in Workers, HandlerStep(w)
    PROVE  /\ pc[w] \notin {"idle"}
           /\ pc[w] = "reply" => pc'[w] = "idle"
           /\ pc[w] \in RegisterSteps => pc'[w] \in {"insertUser", "reply"}
           /\ pc[w] \in LoginSteps => pc'[w] \in LoggedIn \cup {"reply"}
           /\ pc[w] \notin RegisterSteps \cup LoginSteps =>
                pc'[w] \notin RegisterSteps \cup LoginSteps
<1>0. pc \in [Workers -> Labels]
  BY DEF ChatInv, TypeOK
<1> USE DEF RegisterSteps, LoginSteps, LoggedIn, Runs, Goto, Finish, OpenSession
<1>1. CASE \/ IsUserExists(w) \/ InsertUser(w) \/ VerifyLogin(w) \/ DeleteOnline(w)
           \/ InsertOnline(w) \/ GetOfflineMessages(w) \/ ClearOfflineMessages(w)
  BY <1>0, <1>1 DEF IsUserExists, InsertUser, VerifyLogin, DeleteOnline, InsertOnline,
                    GetOfflineMessages, ClearOfflineMessages
<1>2. CASE \/ GetAllUsers(w) \/ GetOnlineUsers(w) \/ GetUserSocketFd(w) \/ RoutePrivate(w)
           \/ SendPrivate(w) \/ StoreOfflineMessage(w)
  BY <1>0, <1>2 DEF GetAllUsers, GetOnlineUsers, GetUserSocketFd, RoutePrivate, SendPrivate,
                    StoreOfflineMessage
<1>3. CASE \/ ListGroup(w) \/ LookupMember(w) \/ RouteMember(w) \/ SendMember(w) \/ GroupDone(w)
           \/ SetUserOffline(w) \/ SendReply(w)
  BY <1>0, <1>3 DEF ListGroup, LookupMember, RouteMember, SendMember, GroupDone, SetUserOffline,
                    SendReply
<1> QED
  BY <1>1, <1>2, <1>3 DEF HandlerStep

\* To register succeeds when the INSERT makes a new row (registerUser).
LEMMA RegisterSucceeds ==
    ASSUME ChatInv, NEW w \in Workers, HandlerStep(w), pc[w] \in RegisterSteps, Telling(w)'
    PROVE  /\ pc[w] = "insertUser" /\ job[w].req.user \in Users
           /\ users[job[w].req.user] = NoPw
           /\ users'[job[w].req.user] = job[w].req.pw
<1>0. /\ pc \in [Workers -> Labels] /\ job \in [Workers -> Job] /\ job[w] \in Job
      /\ users \in [Users -> Passwords \cup {NoPw}]
      /\ job[w].req.user \in Users
  BY AtWork DEF ChatInv, TypeOK, Serving, LocalsOf, AccountSteps, RegisterSteps
<1>1. ASSUME NEW ok \in BOOLEAN, Finish(w, ok) PROVE ok
  BY <1>0, <1>1 DEF Finish, Telling, Job
<1>2. CASE InsertUser(w)
  <2>1. PICK done \in BOOLEAN :
          /\ users' = IF done THEN [users EXCEPT ![job[w].req.user] =
                                      UserRow(job[w].req.user, job[w].req.pw)]
                              ELSE users
          /\ Finish(w, done /\ users[job[w].req.user] = NoPw)
    BY <1>2 DEF InsertUser, Outcomes
  <2>2. done /\ users[job[w].req.user] = NoPw
    BY <1>1, <2>1
  <2> QED
    BY <1>0, <1>2, <2>1, <2>2 DEF InsertUser, Runs, UserRow
<1>3. CASE IsUserExists(w)
  BY <1>0, <1>1, <1>3 DEF IsUserExists, Goto, Telling
<1>4. IsUserExists(w) \/ InsertUser(w)
  BY DEF RegisterSteps, Runs, HandlerStep, IsUserExists, InsertUser, VerifyLogin, DeleteOnline,
       InsertOnline, GetOfflineMessages, ClearOfflineMessages, GetAllUsers, GetOnlineUsers,
       GetUserSocketFd, RoutePrivate, SendPrivate, StoreOfflineMessage, ListGroup, LookupMember,
       RouteMember, SendMember, GroupDone, SetUserOffline, SendReply
<1> QED
  BY <1>2, <1>3, <1>4

\* To log in succeeds after the password has been verified (handleLogin).
LEMMA LoginSucceeds ==
    ASSUME ChatInv, NEW w \in Workers, HandlerStep(w), pc[w] \in LoginSteps, Telling(w)'
    PROVE  pc[w] \in LoggedIn
<1>0. /\ pc \in [Workers -> Labels] /\ job \in [Workers -> Job] /\ job[w] \in Job
  BY DEF ChatInv, TypeOK
<1>1. ASSUME VerifyLogin(w) PROVE FALSE
  <2>1. ~ Finish(w, FALSE)
    BY <1>0 DEF Finish, Telling, Job
  <2>2. ~ Goto(w, "deleteOnline")
    BY <1>0 DEF Goto, Telling
  <2> QED
    BY <1>1, <2>1, <2>2 DEF VerifyLogin
<1>2. pc[w] = "verifyLogin" => VerifyLogin(w)
  BY DEF Runs, HandlerStep, IsUserExists, InsertUser, VerifyLogin, DeleteOnline,
       InsertOnline, GetOfflineMessages, ClearOfflineMessages, GetAllUsers, GetOnlineUsers,
       GetUserSocketFd, RoutePrivate, SendPrivate, StoreOfflineMessage, ListGroup, LookupMember,
       RouteMember, SendMember, GroupDone, SetUserOffline, SendReply
<1> QED
  BY <1>1, <1>2 DEF LoginSteps
-----------------------------------------------------------------------------
(* AccountInv is kept. *)

\* Workers stay in the handler of their request's kind.
LEMMA HandlersKept ==
    ASSUME ChatInv, [Next]_vars, RightHandler
    PROVE  RightHandler'
<1> SUFFICES ASSUME NEW w \in Workers, pc'[w] # "idle"
             PROVE  /\ pc'[w] \in RegisterSteps => job'[w].req.op = "register"
                    /\ pc'[w] \in LoginSteps => job'[w].req.op = "login"
                    /\ pc'[w] \notin RegisterSteps \cup LoginSteps \cup {"reply"} =>
                         job'[w].req.op \notin Accounts
  BY DEF RightHandler, RegisterSteps, LoginSteps, LoggedIn
<1>0. ~Die
  BY DEF Die
<1>1. CASE pc'[w] = pc[w] /\ job'[w] = job[w]
  BY <1>1 DEF RightHandler
<1>2. CASE Take(w)
  BY <1>2, TakeBegins DEF Begins
<1>3. CASE HandlerStep(w)
  <2>1. job'[w].req = job[w].req
    BY <1>3, StepEffect
  <2>2. RegisterSteps \cap LoginSteps = {} /\ "reply" \notin RegisterSteps \cup LoginSteps
        /\ {"insertUser"} \subseteq RegisterSteps /\ LoggedIn \subseteq LoginSteps
    BY DEF RegisterSteps, LoginSteps, LoggedIn
  <2>3. /\ pc'[w] \in RegisterSteps => pc[w] \in RegisterSteps
        /\ pc'[w] \in LoginSteps => pc[w] \in LoginSteps
        /\ pc'[w] \notin RegisterSteps \cup LoginSteps \cup {"reply"} =>
             pc[w] \notin RegisterSteps \cup LoginSteps \cup {"idle", "reply"}
    <3>1. /\ pc[w] \in RegisterSteps => pc'[w] \in {"insertUser", "reply"}
          /\ pc[w] \in LoginSteps => pc'[w] \in LoggedIn \cup {"reply"}
          /\ pc[w] \notin RegisterSteps \cup LoginSteps =>
               pc'[w] \notin RegisterSteps \cup LoginSteps
          /\ pc[w] # "idle" /\ pc[w] # "reply"
      BY <1>3, StepLabels
    <3> QED
      BY <2>2, <3>1
  <2> QED
    BY <2>1, <2>3 DEF RightHandler
<1> QED
  BY <1>0, <1>1, <1>2, <1>3, WhoMoves

\* A login that has verified its password keeps it: rows are not replaced.
LEMMA PasswordKept ==
    ASSUME ChatInv, [Next]_vars, PasswordShown
    PROVE  PasswordShown'
<1> SUFFICES ASSUME NEW w \in Workers, pc'[w] \in LoggedIn
             PROVE  users'[job'[w].req.user] = job'[w].req.pw
  BY DEF PasswordShown
<1>0. ~Die /\ pc'[w] # "idle"
  BY DEF Die, LoggedIn
<1>1. /\ pc[w] \in LoggedIn \cup {"verifyLogin"} /\ job'[w].req = job[w].req
      /\ users[job[w].req.user] = job[w].req.pw
  <2>1. CASE pc'[w] = pc[w] /\ job'[w] = job[w]
    BY <2>1 DEF PasswordShown
  <2>2. CASE HandlerStep(w)
    BY <1>0, <2>2, StepEffect DEF PasswordShown, Verified
  <2>3. ~Take(w)
    BY TakeBegins DEF Begins
  <2> QED
    BY <1>0, <2>1, <2>2, <2>3, WhoMoves
<1>2. pc[w] # "idle" /\ pc[w] \in AccountSteps
  BY <1>1 DEF LoggedIn, AccountSteps
<1>3. job[w].req.user \in Users /\ job[w].req.pw # NoPw
  BY <1>2, AtWork DEF Serving, LocalsOf
<1> QED
  BY <1>1, <1>3, UsersEffect

\* What was told to have succeeded stays so, and what has succeeded just now was the
\* request of a handler that has run its last query.
LEMMA SettledEffect ==
    ASSUME ChatInv, AnsweredInOrder, [Next]_vars, RightHandler,
           NEW c \in Conns, NEW n \in Nat, NEW op \in Accounts, Done(c, n, op)'
    PROVE  \/ Done(c, n, op) /\ asked'[c][n] = asked[c][n]
           \/ \E w \in Workers : /\ HandlerStep(w) /\ Telling(w)' /\ pc[w] # "reply"
                                 /\ ConnOf(w) = c /\ NumberOf(w) = n
                                 /\ job[w].req.op = op /\ asked'[c][n] = job[w].req
<1>0. asked[c] \in Seq(Request) /\ outbox[c] \in Seq(Reply \cup Push)
  BY DEF ChatInv, TypeOK
<1>1. ASSUME Settled(c, n), n \in DOMAIN asked[c]
      PROVE  Done(c, n, op) /\ asked'[c][n] = asked[c][n]
  <2>1. asked'[c][n] = asked[c][n]
    <3>1. ASSUME NEW r, asked'[c] = Append(asked[c], r) PROVE asked'[c][n] = asked[c][n]
      BY <1>0, <1>1, <3>1
    <3> QED
      BY <3>1, AskedEffect
  <2> QED
    BY <1>1, <2>1 DEF Done
<1>2. ASSUME Told(c, n)' PROVE Settled(c, n) /\ n \in DOMAIN asked[c]
  <2>1. PICK i \in Answers(c)' : outbox'[c][i].ok /\ outbox'[c][i].n = n
    BY <1>2 DEF Told
  <2>2. i \in DOMAIN outbox'[c] /\ outbox'[c][i].type = "reply"
    BY <2>1 DEF Answers
  <2>3. CASE i \in DOMAIN outbox[c] /\ outbox'[c][i] = outbox[c][i]
    <3>1. i \in Answers(c) /\ outbox[c][i].ok /\ outbox[c][i].n = n
      BY <2>1, <2>2, <2>3 DEF Answers
    <3>2. outbox[c][i] \in Reply
      BY <1>0, <2>2, <2>3 DEF Reply, Push
    <3>3. n \in 1 .. MaxSent /\ n <= Len(asked[c])
      BY <3>1, <3>2 DEF AnsweredInOrder, Reply
    <3> QED
      BY <1>0, <3>1, <3>3 DEF Settled, Told
  <2>4. ASSUME NEW p, p.type = "push", outbox'[c] = Append(outbox[c], p)
        PROVE  i \in DOMAIN outbox[c] /\ outbox'[c][i] = outbox[c][i]
    <3>1. p.type # "reply"
      BY <2>4
    <3> QED
      BY <1>0, <2>2, <2>4, <3>1
  <2>5. ASSUME NEW w \in Workers, pc[w] = "reply", Handling(w, c),
               outbox'[c] = Append(outbox[c], ReplyOf(w)),
               ~(i \in DOMAIN outbox[c] /\ outbox'[c][i] = outbox[c][i])
        PROVE  Settled(c, n) /\ n \in DOMAIN asked[c]
    <3>1. PICK p : p = ReplyOf(w)
      OBVIOUS
    <3>2. p.ok = job[w].ok /\ p.n = NumberOf(w)
      BY <3>1 DEF ReplyOf
    <3>3. outbox'[c][i] = p
      BY <1>0, <2>2, <2>5, <3>1
    <3>4. Telling(w) /\ ConnOf(w) = c /\ NumberOf(w) = n
      BY <2>1, <2>5, <3>2, <3>3 DEF Telling, Handling
    <3>5. n \in DOMAIN asked[c]
      BY <1>0, <2>5, <3>4, AtWork
    <3> QED
      BY <3>4, <3>5 DEF Settled
  <2> QED
    BY <2>2, <2>3, <2>4, <2>5, OutputEffect
<1>3. ASSUME NEW w \in Workers, Telling(w)', ConnOf(w)' = c, NumberOf(w)' = n
      PROVE  \/ Settled(c, n) /\ n \in DOMAIN asked[c]
             \/ /\ HandlerStep(w) /\ Telling(w)' /\ pc[w] # "reply"
                /\ ConnOf(w) = c /\ NumberOf(w) = n
                /\ job[w].req.op = op /\ asked'[c][n] = job[w].req
  <2>0. pc'[w] = "reply" /\ job'[w].ok /\ ~Die
    BY <1>3 DEF Telling, Die
  <2>1. asked'[c][n] = job'[w].req
    <3>1. Serving(w)'
      BY <2>0, ChatStep DEF ChatInv, HandlerInv
    <3> QED
      BY <1>3, <3>1 DEF Serving
  <2>2. job'[w].req.op = op
    BY <2>1 DEF Done
  <2>3. CASE pc'[w] = pc[w] /\ job'[w] = job[w]
    <3>1. ConnOf(w) = c /\ NumberOf(w) = n
      BY <1>3, <2>0, <2>3, SameNumber
    <3>2. n \in DOMAIN asked[c]
      BY <1>0, <2>0, <2>3, <3>1, AtWork
    <3> QED
      BY <2>0, <2>3, <3>1, <3>2 DEF Settled, Telling
  <2>4. CASE HandlerStep(w)
    <3>1. pc[w] # "idle" /\ job'[w].fd = job[w].fd /\ job'[w].req = job[w].req
      BY <2>0, <2>4, StepEffect
    <3>2. ConnOf(w) = c /\ NumberOf(w) = n
      BY <1>3, <2>0, <3>1, SameNumber
    <3>3. pc[w] # "reply"
      BY <2>0, <2>4, StepLabels
    <3> QED
      BY <1>3, <2>1, <2>2, <2>4, <3>1, <3>2, <3>3
  <2>5. CASE Take(w)
    BY <2>0, <2>2, <2>5, TakeBegins DEF Begins, RegisterSteps, LoginSteps, LoggedIn
  <2> QED
    BY <2>0, <2>3, <2>4, <2>5, WhoMoves
<1>4. Settled(c, n)'
  BY DEF Done
<1> QED
  BY <1>1, <1>2, <1>3, <1>4 DEF Settled

\* A handler that has just succeeded has made or found its user's row.
LEMMA JustSucceeded ==
    ASSUME ChatInv, [Next]_vars, AccountInv, NEW w \in Workers, HandlerStep(w), Telling(w)',
           pc[w] # "reply", job[w].req.op \in Accounts
    PROVE  /\ users'[job[w].req.user] = job[w].req.pw
           /\ job[w].req.op = "register" => /\ pc[w] = "insertUser" /\ job[w].req.user \in Users
                                            /\ users[job[w].req.user] = NoPw
<1>1. pc[w] # "idle"
  BY StepLabels
<1>2. CASE pc[w] \in RegisterSteps
  BY <1>2, RegisterSucceeds
<1>3. CASE pc[w] \in LoginSteps
  <2>1. pc[w] \in LoggedIn /\ job[w].req.op = "login"
    BY <1>3, LoginSucceeds DEF AccountInv, RightHandler
  <2>2. users[job[w].req.user] = job[w].req.pw
    BY <2>1 DEF AccountInv, PasswordShown
  <2>3. job[w].req.user \in Users /\ job[w].req.pw # NoPw
    BY <2>1, <1>1, AtWork DEF Serving, LocalsOf, LoggedIn, AccountSteps
  <2> QED
    BY <2>1, <2>2, <2>3, UsersEffect
<1> QED
  BY <1>1, <1>2, <1>3 DEF AccountInv, RightHandler

\* The user and password of a request that has succeeded.
LEMMA DoneTypes ==
    ASSUME ChatInv, AccountInv, NEW c \in Conns, NEW n \in Nat, NEW op \in Accounts, Done(c, n, op)
    PROVE  asked[c][n].user \in Users /\ asked[c][n].pw \in Passwords
BY DEF Done, AccountInv, AskedByClient, Accounts

\* Its row has the password it gave.
LEMMA RowsKept ==
    ASSUME ChatInv, AnsweredInOrder, [Next]_vars, AccountInv
    PROVE  RowCounts'
<1> SUFFICES ASSUME NEW c \in Conns, NEW n \in Nat, NEW op \in Accounts, Done(c, n, op)'
             PROVE  users'[asked'[c][n].user] = asked'[c][n].pw
  BY DEF RowCounts
<1>1. CASE Done(c, n, op) /\ asked'[c][n] = asked[c][n]
  <2>1. users[asked[c][n].user] = asked[c][n].pw
    BY <1>1 DEF AccountInv, RowCounts
  <2> QED
    BY <1>1, <2>1, DoneTypes, UsersEffect
<1>2. ASSUME NEW w \in Workers, HandlerStep(w), Telling(w)', pc[w] # "reply",
             job[w].req.op = op, asked'[c][n] = job[w].req
      PROVE  users'[asked'[c][n].user] = asked'[c][n].pw
  BY <1>2, JustSucceeded
<1> QED
  BY <1>1, <1>2, SettledEffect DEF AccountInv

\* No two requests have registered one name: the second finds the row of the first.
LEMMA WinnerKept ==
    ASSUME ChatInv, AnsweredInOrder, [Next]_vars, AccountInv
    PROVE  OneWinner' /\ WinnersNew'
<1> DEFINE New(c, n) == \E w \in Workers :
                          /\ pc[w] = "insertUser" /\ pc'[w] = "reply" /\ HandlerStep(w)
                          /\ ConnOf(w) = c /\ NumberOf(w) = n /\ asked'[c][n] = job[w].req
                          /\ job[w].req.user \in Users /\ users[job[w].req.user] = NoPw
<1>0. "register" \in Accounts
  BY DEF Accounts
<1>1. ASSUME NEW c \in Conns, NEW n \in Nat, Done(c, n, "register")'
      PROVE  (Done(c, n, "register") /\ asked'[c][n] = asked[c][n]) \/ New(c, n)
  <2>1. ASSUME NEW w \in Workers, HandlerStep(w), Telling(w)', pc[w] # "reply",
               ConnOf(w) = c, NumberOf(w) = n, job[w].req.op = "register",
               asked'[c][n] = job[w].req
        PROVE  New(c, n)
    BY <1>0, <2>1, JustSucceeded DEF Telling
  <2> QED
    BY <1>0, <1>1, <2>1, SettledEffect DEF AccountInv
<1>2. ASSUME NEW c \in Conns, NEW n \in Nat, Done(c, n, "register")
      PROVE  users[asked[c][n].user] # NoPw
  BY <1>0, <1>2, DoneTypes DEF AccountInv, RowCounts
<1>3. ASSUME NEW c \in Conns, NEW n \in Nat, New(c, n)
      PROVE  asked'[c][n].user \in Users /\ users[asked'[c][n].user] = NoPw
  BY <1>3
<1>4. ASSUME NEW c \in Conns, NEW d \in Conns, NEW i \in Nat, NEW j \in Nat, New(c, i), New(d, j)
      PROVE  c = d /\ i = j
  <2>1. PICK v \in Workers : /\ pc[v] = "insertUser" /\ pc'[v] = "reply" /\ HandlerStep(v)
                             /\ ConnOf(v) = c /\ NumberOf(v) = i
    BY <1>4
  <2>2. PICK w \in Workers : /\ pc[w] = "insertUser" /\ pc'[w] = "reply" /\ HandlerStep(w)
                             /\ ConnOf(w) = d /\ NumberOf(w) = j
    BY <1>4
  <2>3. v = w
    BY <2>1, <2>2, StepIsOwn
  <2> QED
    BY <2>1, <2>2, <2>3
<1> HIDE DEF New
<1>5. ASSUME NEW c \in Conns, NEW d \in Conns, NEW i \in Nat, NEW j \in Nat,
             Done(c, i, "register")', Done(d, j, "register")',
             asked'[c][i].user = asked'[d][j].user
      PROVE  c = d /\ i = j
  <2>1. CASE Done(c, i, "register") /\ asked'[c][i] = asked[c][i] /\ New(d, j)
    BY <1>2, <1>3, <1>5, <2>1
  <2>2. CASE Done(d, j, "register") /\ asked'[d][j] = asked[d][j] /\ New(c, i)
    BY <1>2, <1>3, <1>5, <2>2
  <2>3. CASE /\ Done(c, i, "register") /\ asked'[c][i] = asked[c][i]
             /\ Done(d, j, "register") /\ asked'[d][j] = asked[d][j]
    BY <1>5, <2>3 DEF AccountInv, OneWinner
  <2>4. CASE New(c, i) /\ New(d, j)
    BY <1>4, <2>4
  <2> QED
    BY <1>1, <1>5, <2>1, <2>2, <2>3, <2>4
<1>6. ASSUME NEW c \in Conns, NEW n \in Nat, Done(c, n, "register")'
      PROVE  Registered[asked'[c][n].user] = NoPw
  <2>1. CASE Done(c, n, "register") /\ asked'[c][n] = asked[c][n]
    BY <2>1 DEF AccountInv, WinnersNew
  <2>2. CASE New(c, n)
    BY <1>3, <2>2 DEF AccountInv, RowsRemain
  <2> QED
    BY <1>1, <1>6, <2>1, <2>2
<1> QED
  BY <1>5, <1>6 DEF OneWinner, WinnersNew

\* Nobody has succeeded on a fresh server.
LEMMA AccountInit == Init => AccountInv
<1> SUFFICES ASSUME Init PROVE AccountInv
  OBVIOUS
<1>1. \A c \in Conns, n \in Nat : \A op : ~Done(c, n, op)
  BY DEF Init, Done
<1>2. AskedByClient /\ OwnDescriptor /\ RightHandler /\ PasswordShown /\ RowsRemain
  BY DEF Init, ConnInit, AskedByClient, OwnDescriptor, RightHandler, PasswordShown, RowsRemain,
         RegisterSteps, LoginSteps, LoggedIn
<1> QED
  BY <1>1, <1>2 DEF AccountInv, RowCounts, OneWinner, WinnersNew

\* Every step keeps the accounts.
LEMMA AccountStep == ChatInv /\ AnsweredInOrder /\ AccountInv /\ [Next]_vars => AccountInv'
<1> SUFFICES ASSUME ChatInv, AnsweredInOrder, AccountInv, [Next]_vars PROVE AccountInv'
  OBVIOUS
<1>1. AskedByClient' /\ OwnDescriptor'
  BY SourcesKept DEF AccountInv
<1>2. RightHandler' /\ PasswordShown'
  BY HandlersKept, PasswordKept DEF AccountInv
<1>3. ASSUME NEW u \in Users, Registered[u] # NoPw PROVE users'[u] # NoPw
  BY <1>3, UsersEffect DEF AccountInv, RowsRemain
<1> QED
  BY <1>1, <1>2, <1>3, RowsKept, WinnerKept DEF AccountInv, RowsRemain

\* The accounts are right in every behaviour.
LEMMA AccountHolds == Spec => [](ChatInv /\ AccountInv)
<1>1. Init => AnsweredInOrder
  BY DEF Init, AnsweredInOrder, Answers
<1> QED
  BY <1>1, ChatInit, ChatStep, OrderStep, AccountInit, AccountStep, PTL DEF Spec

\* A request that was answered with success has succeeded.
LEMMA SucceededIsDone ==
    ASSUME ChatInv, AnsweredInOrder, NEW c \in Conns, NEW op, NEW n \in Succeeded(c, op)
    PROVE  Done(c, n, op) /\ n \in Nat
<1>0. asked[c] \in Seq(Request) /\ outbox[c] \in Seq(Reply \cup Push)
  BY DEF ChatInv, TypeOK
<1>1. n \in 1 .. MaxSent /\ Told(c, n) /\ asked[c][n].op = op
  BY DEF Succeeded
<1>2. n <= Len(asked[c])
  BY <1>1 DEF Told, AnsweredInOrder
<1> QED
  BY <1>0, <1>1, <1>2 DEF Done, Settled

\* Of all who were told that they registered a name one was, the name was new, and its
\* password is the one given (registerUser, whose check and INSERT are two queries).
THEOREM RegisteredOnceHolds == Spec => []RegisteredOnce
<1>1. ChatInv /\ AnsweredInOrder /\ AccountInv => RegisteredOnce
  <2> SUFFICES ASSUME ChatInv, AnsweredInOrder, AccountInv, NEW c \in Conns, NEW d \in Conns,
                      NEW i \in Succeeded(c, "register"), NEW j \in Succeeded(d, "register")
               PROVE  /\ asked[c][i].user = asked[d][j].user => c = d /\ i = j
                      /\ Registered[asked[c][i].user] = NoPw
                      /\ users[asked[c][i].user] = asked[c][i].pw
    BY DEF RegisteredOnce
  <2>1. /\ Done(c, i, "register") /\ i \in Nat /\ Done(d, j, "register") /\ j \in Nat
        /\ "register" \in Accounts
    BY SucceededIsDone DEF Accounts
  <2> QED
    BY <2>1 DEF AccountInv, OneWinner, WinnersNew, RowCounts
<1> QED
  BY <1>1, AccountHolds, AnsweredInOrderHolds, PTL

\* Who was told that it logged in gave the password that is in users, now as then
\* (verifyLogin).
THEOREM LoginsAuthenticHolds == Spec => []LoginsAuthentic
<1>1. ChatInv /\ AnsweredInOrder /\ AccountInv => LoginsAuthentic
  <2> SUFFICES ASSUME ChatInv, AnsweredInOrder, AccountInv, NEW c \in Conns,
                      NEW n \in Succeeded(c, "login")
               PROVE  users[asked[c][n].user] = asked[c][n].pw
    BY DEF LoginsAuthentic
  <2>1. Done(c, n, "login") /\ n \in Nat /\ "login" \in Accounts
    BY SucceededIsDone DEF Accounts
  <2> QED
    BY <2>1 DEF AccountInv, RowCounts
<1> QED
  BY <1>1, AccountHolds, AnsweredInOrderHolds, PTL

-----------------------------------------------------------------------------
(* Sessions and rows of online_users. *)

\* A connection that no worker has taken yet has asked nothing.
AskedServed == \A c \in Conns : asked[c] # <<>> =>
                 /\ c \in accepted
                 /\ Gone(c) \/ \E w \in Workers : \E fd \in clients[w] : sock[fd] = c

\* What the queries of online_users do, and that the others leave it and the sessions
\* alone (setUserOnline, setUserOffline).
LEMMA RowsStep ==
    ASSUME ChatInv, NEW w \in Workers, HandlerStep(w)
    PROVE  \/ /\ pc[w] = "deleteOnline" /\ pc'[w] = "insertOnline"
              /\ online' = [online EXCEPT ![job[w].req.user] = NoFd]
              /\ clientUsers' = clientUsers
           \/ /\ pc[w] \in {"deleteOnline", "insertOnline"} /\ pc'[w] = "getOfflineMessages"
              /\ job'[w] = job[w]
              /\ \/ online' = online
                 \/ online' = [online EXCEPT ![job[w].req.user] = job[w].fd]
              /\ clientUsers' = [clientUsers EXCEPT ![w][job[w].fd] = job[w].req.user]
           \/ /\ pc[w] = "setUserOffline" /\ pc'[w] = "reply"
              /\ \/ online' = [online EXCEPT ![job[w].from] = NoFd]
                 \/ online' = online /\ "setUserOffline" \in Faults
              /\ clientUsers' = clientUsers
           \/ /\ pc[w] \notin {"deleteOnline", "insertOnline", "setUserOffline"}
              /\ pc'[w] \notin {"insertOnline", "setUserOffline"}
              /\ UNCHANGED <<online, clientUsers>>
<1>0. pc \in [Workers -> Labels] /\ job \in [Workers -> Job]
  BY DEF ChatInv, TypeOK
<1> USE DEF Runs, Goto
<1>2. CASE DeleteOnline(w)
  BY <1>0, <1>2 DEF DeleteOnline, OpenSession
<1>3. CASE InsertOnline(w)
  BY <1>0, <1>3 DEF InsertOnline, OpenSession
<1>4. CASE SetUserOffline(w)
  BY <1>0, <1>4 DEF SetUserOffline, Finish, Outcomes, RowDropped
<1>5. CASE \/ IsUserExists(w) \/ InsertUser(w) \/ VerifyLogin(w)
           \/ GetOfflineMessages(w) \/ ClearOfflineMessages(w)
           \/ GetAllUsers(w) \/ GetOnlineUsers(w)
  BY <1>0, <1>5 DEF IsUserExists, InsertUser, VerifyLogin, GetOfflineMessages,
                    ClearOfflineMessages, GetAllUsers, GetOnlineUsers, Finish, dbVars
<1>6. CASE \/ GetUserSocketFd(w) \/ RoutePrivate(w) \/ SendPrivate(w) \/ StoreOfflineMessage(w)
           \/ ListGroup(w) \/ LookupMember(w) \/ RouteMember(w) \/ SendMember(w) \/ GroupDone(w)
           \/ SendReply(w)
  BY <1>0, <1>6 DEF GetUserSocketFd, RoutePrivate, SendPrivate, StoreOfflineMessage, ListGroup,
                    LookupMember, RouteMember, SendMember, GroupDone, SendReply, Finish, dbVars
<1> QED
  BY <1>2, <1>3, <1>4, <1>5, <1>6 DEF HandlerStep

\* Reading a request closes a session at most (handleLogout).
LEMMA RowsTake ==
    ASSUME ChatInv, NEW w \in Workers, Take(w)
    PROVE  /\ pc[w] = "idle" /\ online' = online /\ clients' = clients /\ sock' = sock
           /\ outbox' = outbox /\ pc'[w] \notin {"idle", "insertOnline"}
           /\ \/ /\ clientUsers' = clientUsers /\ pc'[w] # "setUserOffline"
                 /\ job'[w].req.op # "logout"
              \/ \E fd \in clients[w] :
                   /\ clientUsers' = [clientUsers EXCEPT ![w][fd] = NoUser]
                   /\ job'[w].req.op = "logout" /\ job'[w].fd = fd /\ job'[w].from = clientUsers[w][fd]
                   /\ IF clientUsers[w][fd] = NoUser THEN pc'[w] = "reply"
                                                     ELSE pc'[w] = "setUserOffline"
<1>0. pc \in [Workers -> Labels] /\ job \in [Workers -> Job]
  BY DEF ChatInv, TypeOK
<1>1. ASSUME NEW fd, NEW r, NEW label, NEW ok, Begin(w, fd, r, label, ok)
      PROVE  /\ pc[w] = "idle" /\ pc'[w] = label /\ job'[w].fd = fd /\ job'[w].req = r
             /\ job'[w].from = clientUsers[w][fd]
  BY <1>0, <1>1 DEF Begin, Goto, IdleJob
<1>2. CASE HandleRegister(w)
  <2>1. PICK fd \in clients[w] : \E r \in Requests[sock[fd]] : r.op = "register" /\ Begin(w, fd, r, "isUserExists", FALSE)
    BY <1>2 DEF HandleRegister
  <2>2. pc[w] = "idle" /\ job'[w].req.op = "register" /\ pc'[w] = "isUserExists"
    BY <1>1, <2>1
  <2> QED
    BY <1>2, <2>2 DEF HandleRegister, connVars, dbVars
<1>3. CASE HandleLogin(w)
  <2>1. PICK fd \in clients[w] : \E r \in Requests[sock[fd]] : r.op = "login" /\ Begin(w, fd, r, "verifyLogin", FALSE)
    BY <1>3 DEF HandleLogin
  <2>2. pc[w] = "idle" /\ job'[w].req.op = "login" /\ pc'[w] = "verifyLogin"
    BY <1>1, <2>1
  <2> QED
    BY <1>3, <2>2 DEF HandleLogin, connVars, dbVars
<1>4. CASE HandleGetFriends(w)
  <2>1. PICK fd \in clients[w] : \E r \in Requests[sock[fd]] : r.op = "friends" /\ Begin(w, fd, r, "getAllUsers", FALSE)
    BY <1>4 DEF HandleGetFriends
  <2>2. pc[w] = "idle" /\ job'[w].req.op = "friends" /\ pc'[w] = "getAllUsers"
    BY <1>1, <2>1
  <2> QED
    BY <1>4, <2>2 DEF HandleGetFriends, connVars, dbVars
<1>5. CASE HandlePrivateChat(w)
  <2>1. PICK fd \in clients[w] : \E r \in Requests[sock[fd]] :
          r.op = "private" /\ Begin(w, fd, r, ChatStart(clientUsers[w][fd], "getUserSocketFd"), FALSE)
    BY <1>5 DEF HandlePrivateChat
  <2>2. pc[w] = "idle" /\ job'[w].req.op = "private" /\ pc'[w] = ChatStart(clientUsers[w][fd], "getUserSocketFd")
    BY <1>1, <2>1
  <2>3. pc'[w] \in {"reply", "getUserSocketFd"}
    BY <2>2 DEF ChatStart
  <2> QED
    BY <1>5, <2>2, <2>3 DEF HandlePrivateChat, connVars, dbVars
<1>6. CASE HandleGroupChat(w)
  <2>1. PICK fd \in clients[w] : \E r \in Requests[sock[fd]] :
          r.op = "group" /\ Begin(w, fd, r, ChatStart(clientUsers[w][fd], "listGroup"), FALSE)
    BY <1>6 DEF HandleGroupChat
  <2>2. pc[w] = "idle" /\ job'[w].req.op = "group" /\ pc'[w] = ChatStart(clientUsers[w][fd], "listGroup")
    BY <1>1, <2>1
  <2>3. pc'[w] \in {"reply", "listGroup"}
    BY <2>2 DEF ChatStart
  <2> QED
    BY <1>6, <2>2, <2>3 DEF HandleGroupChat, connVars, dbVars
<1>7. CASE HandleLogout(w)
  <2>1. PICK fd \in clients[w] : \E r \in Requests[sock[fd]] :
          /\ r.op = "logout"
          /\ Begin(w, fd, r, IF clientUsers[w][fd] = NoUser THEN "reply" ELSE "setUserOffline", TRUE)
          /\ clientUsers' = ClosedSession(w, fd)
    BY <1>7 DEF HandleLogout
  <2>2. PICK r \in Requests[sock[fd]] :
          /\ r.op = "logout"
          /\ Begin(w, fd, r, IF clientUsers[w][fd] = NoUser THEN "reply" ELSE "setUserOffline", TRUE)
          /\ clientUsers' = ClosedSession(w, fd)
    BY <2>1
  <2>3. /\ pc[w] = "idle" /\ job'[w].req.op = "logout" /\ job'[w].fd = fd
        /\ job'[w].from = clientUsers[w][fd]
        /\ pc'[w] = IF clientUsers[w][fd] = NoUser THEN "reply" ELSE "setUserOffline"
    <3>1. PICK label : label = IF clientUsers[w][fd] = NoUser THEN "reply" ELSE "setUserOffline"
      OBVIOUS
    <3>2. r.op = "logout" /\ Begin(w, fd, r, label, TRUE)
      BY <2>2, <3>1
    <3>3. /\ pc[w] = "idle" /\ pc'[w] = label /\ job'[w].fd = fd /\ job'[w].req = r
          /\ job'[w].from = clientUsers[w][fd]
      BY <1>1, <3>2
    <3> QED
      BY <3>1, <3>2, <3>3
  <2>4. clientUsers' = [clientUsers EXCEPT ![w][fd] = NoUser]
    BY <2>2 DEF ClosedSession
  <2>5. online' = online /\ clients' = clients /\ sock' = sock /\ outbox' = outbox
    BY <1>7 DEF HandleLogout, connVars, dbVars
  <2>6. pc'[w] \in {"reply", "setUserOffline"}
    BY <2>3
  <2> QED
    BY <2>3, <2>4, <2>5, <2>6
<1> QED
  BY <1>2, <1>3, <1>4, <1>5, <1>6, <1>7 DEF Take

\* What is neither a request nor a handler's step leaves rows and sessions alone.
LEMMA RowsLoop ==
    ASSUME [Next]_vars, ~Die, \A v \in Workers : ~Take(v) /\ ~HandlerStep(v)
    PROVE  UNCHANGED <<online, clientUsers, pc, job>>
<1>1. CASE MainStep \/ UNCHANGED vars
  BY <1>1 DEF MainStep, vars, dbVars, ctlVars
<1>2. ASSUME NEW v \in Workers,
             \/ AddClient(v) \/ RefuseClient(v) \/ DeliverNote(v)
             \/ \E fd \in Fds : Disconnect(v, fd)
      PROVE  UNCHANGED <<online, clientUsers, pc, job>>
  BY <1>2 DEF AddClient, RefuseClient, DeliverNote, Disconnect, dbVars, ctlVars
<1> QED
  BY <1>1, <1>2 DEF Next

\* A worker's connections stay its own until it closes them, and nobody else does.
LEMMA ServedStays ==
    ASSUME ChatInv, [Next]_vars, ~Die, NEW w \in Workers, NEW fd \in clients[w]
    PROVE  IF fd \in clients'[w] THEN sock'[fd] = sock[fd]
                                 ELSE \A e \in Fds : sock'[e] # sock[fd]
<1> DEFINE Goal == IF fd \in clients'[w] THEN sock'[fd] = sock[fd]
                                          ELSE \A e \in Fds : sock'[e] # sock[fd]
<1>0. /\ fd \in Fds /\ sock[fd] \in Conns /\ sock[fd] # NoConn
      /\ sock \in [Fds -> Conns \cup {NoConn}] /\ clients \in [Workers -> SUBSET Fds]
  BY OwnedIsOpen DEF ChatInv, TypeOK, ConnTypeOK
<1>1. ConnStep
  BY ChatConnStep
<1>2. ASSUME NEW c \in Conns, Accept(c) PROVE Goal
  BY <1>0, <1>2 DEF Accept
<1>3. ASSUME NEW v \in Workers, NEW e \in Fds, RemoveClient(v, e) PROVE Goal
  <2>1. CASE e = fd
    <3>1. v = w
      BY <1>3, <2>1 DEF RemoveClient, ChatInv, ConnInv, Ownership, OneOwner
    <3>2. fd \notin clients'[w]
      BY <1>0, <1>3, <2>1, <3>1 DEF RemoveClient, DropClient
    <3>3. \A d \in Fds : sock'[d] # sock[fd]
      BY <1>0, <1>3, <2>1 DEF RemoveClient, ChatInv, ConnInv, Ownership, OneDescriptor
    <3> QED
      BY <3>2, <3>3
  <2>2. CASE e # fd
    BY <1>0, <1>3, <2>2 DEF RemoveClient, DropClient
  <2> QED
    BY <2>1, <2>2
<1>4. ASSUME NEW v \in Workers, HandleAdd(v) PROVE Goal
  <2>1. sock' = sock /\ clients' = [clients EXCEPT ![v] = clients[v] \cup {Head(pipe[v]).fd}]
    BY <1>4 DEF HandleAdd, KeepClient
  <2>2. clients'[w] = clients[w] \/ clients'[w] = clients[w] \cup {Head(pipe[v]).fd}
    BY <1>0, <2>1
  <2>3. fd \in clients'[w]
    BY <2>2
  <2> QED
    BY <2>1, <2>3
<1>9. ASSUME NEW v \in Workers, RefuseAdd(v) PROVE Goal
  <2>1. Head(pipe[v]).fd \in Fds /\ Pending(Head(pipe[v]).fd, v, 1) /\ 1 \in 1 .. Len(pipe[v])
    BY <1>9, HeadPending DEF RefuseAdd, ChatInv, TypeOK, Pending
  <2>2. fd # Head(pipe[v]).fd
    BY <2>1 DEF ChatInv, ConnInv, Ownership, AnnouncedOnce
  <2>3. clients' = clients /\ sock'[fd] = sock[fd]
    BY <1>0, <1>9, <2>2 DEF RefuseAdd
  <2> QED
    BY <2>3
<1>5. CASE clients' = clients /\ sock' = sock
  BY <1>5
<1>6. ASSUME NEW v \in Workers, HandleSend(v) PROVE Goal
  BY <1>5, <1>6 DEF HandleSend
<1>7. ASSUME NEW v \in Workers, NEW e, NEW msg, NotifySendMessage(v, e, msg) PROVE Goal
  BY <1>5, <1>7 DEF NotifySendMessage
<1>8. CASE RegisterFd \/ Start \/ UNCHANGED connVars
  BY <1>5, <1>8 DEF RegisterFd, Start, connVars
<1> QED
  BY <1>1, <1>2, <1>3, <1>4, <1>6, <1>7, <1>8, <1>9 DEF ConnStep

\* A connection that has asked something is served or gone.
LEMMA ServedKept ==
    ASSUME ChatInv, ChatInv', [Next]_vars, AskedServed
    PROVE  AskedServed'
<1> SUFFICES ASSUME NEW c \in Conns, asked'[c] # <<>>, ~ Gone(c)'
             PROVE  c \in accepted' /\ \E w \in Workers : \E fd \in clients'[w] : sock'[fd] = c
  BY SockEffect, ChatInv DEF AskedServed, Gone
<1>1. ~Gone(c) /\ accepted \subseteq accepted'
  BY GoneStays, SockEffect
<1>2. CASE asked'[c] # asked[c]
  <2>1. PICK w \in Workers : \E fd \in clients[w] : sock[fd] = c /\ Take(w)
    BY <1>2, WhoAsks
  <2>2. clients' = clients /\ sock' = sock
    BY <2>1, RowsTake
  <2>3. PICK fd \in clients[w] : sock[fd] = c
    BY <2>1
  <2>4. c \in accepted
    BY <2>3, OwnedIsOpen DEF ChatInv, ConnInv, OpenAccepted
  <2> QED
    BY <1>1, <2>2, <2>3, <2>4
<1>3. CASE asked'[c] = asked[c]
  <2>1. c \in accepted
    BY <1>3 DEF AskedServed
  <2>2. PICK w \in Workers : \E fd \in clients[w] : sock[fd] = c
    BY <1>1, <1>3 DEF AskedServed
  <2>3. PICK fd \in clients[w] : sock[fd] = c
    BY <2>2
  <2>4. ~Die
    BY <1>1, <2>1 DEF Die, Crash, Gone
  <2>5. fd \in clients'[w] /\ sock'[fd] = c
    <3>1. PICK e \in Fds : sock'[e] = c
      BY <1>1, <2>1 DEF Gone
    <3> QED
      BY <2>3, <2>4, <3>1, ServedStays
  <2> QED
    BY <1>1, <2>1, <2>5
<1> QED
  BY <1>2, <1>3

\* The sessions of a worker are changed by its own requests and handlers only.
LEMMA SessionsElsewhere ==
    ASSUME ChatInv, [Next]_vars, ~Die, NEW w \in Workers, ~Take(w), ~HandlerStep(w)
    PROVE  clientUsers'[w] = clientUsers[w]
<1>0. clientUsers \in [Workers -> [Fds -> Users \cup {NoUser}]]
  BY DEF ChatInv, TypeOK
<1>1. ASSUME NEW v \in Workers, Take(v) PROVE clientUsers'[w] = clientUsers[w]
  <2>1. v # w
    BY <1>1
  <2>2. clientUsers' = clientUsers \/ \E fd : clientUsers' = [clientUsers EXCEPT ![v][fd] = NoUser]
    BY <1>1, RowsTake
  <2> QED
    BY <1>0, <2>1, <2>2
<1>2. ASSUME NEW v \in Workers, HandlerStep(v) PROVE clientUsers'[w] = clientUsers[w]
  <2>1. v # w
    BY <1>2
  <2>2. \/ clientUsers' = clientUsers
        \/ clientUsers' = [clientUsers EXCEPT ![v][job[v].fd] = job[v].req.user]
    BY <1>2, RowsStep
  <2> QED
    BY <1>0, <2>1, <2>2
<1> QED
  BY <1>1, <1>2, RowsLoop

\* Handlers leave connections and routes alone.
LEMMA HandlerKeepsConns ==
    ASSUME NEW v \in Workers, HandlerStep(v)
    PROVE  /\ clients' = clients /\ sock' = sock /\ fdToWorker' = fdToWorker
           /\ accepted' = accepted /\ main' = main
<1>1. ASSUME NEW x, NEW e, NEW msg, NotifySendMessage(x, e, msg)
      PROVE  /\ clients' = clients /\ sock' = sock /\ fdToWorker' = fdToWorker
             /\ accepted' = accepted /\ main' = main
  BY <1>1 DEF NotifySendMessage
<1> QED
  BY <1>1 DEF HandlerStep, IsUserExists, InsertUser, VerifyLogin, DeleteOnline, InsertOnline,
     GetOfflineMessages, ClearOfflineMessages, GetAllUsers, GetOnlineUsers, GetUserSocketFd,
     RoutePrivate, SendPrivate, StoreOfflineMessage, ListGroup, LookupMember, RouteMember,
     SendMember, GroupDone, SetUserOffline, SendReply, connVars

\* A connection that its worker takes over has asked nothing.
LEMMA FreshSilent ==
    ASSUME ChatInv, AskedServed, [Next]_vars, ~Die,
           NEW w \in Workers, NEW fd \in clients'[w], fd \notin clients[w]
    PROVE  /\ sock' = sock /\ sock[fd] \in Conns /\ asked[sock[fd]] = <<>>
           /\ ~Take(w) /\ ~HandlerStep(w) /\ online' = online /\ clientUsers' = clientUsers
           /\ \A v \in Workers : ~HandlerStep(v)
<1>0. clients \in [Workers -> SUBSET Fds] /\ sock \in [Fds -> Conns \cup {NoConn}]
  BY DEF ChatInv, TypeOK, ConnTypeOK
<1>1. ASSUME NEW v \in Workers, Take(v) \/ HandlerStep(v) PROVE clients' = clients
  BY <1>1, RowsTake, HandlerKeepsConns
<1>2. PICK v \in Workers : AddClient(v)
  <2>1. CASE MainStep \/ UNCHANGED vars
    BY <2>1 DEF MainStep, Accept, RegisterFd, Start, vars, connVars
  <2>2. ASSUME NEW v \in Workers, DeliverNote(v) PROVE clients' = clients
    BY <2>2 DEF DeliverNote, HandleSend
  <2>4. ASSUME NEW v \in Workers, RefuseClient(v) PROVE clients' = clients
    BY <2>4 DEF RefuseClient, RefuseAdd
  <2>3. ASSUME NEW v \in Workers, NEW e \in Fds, Disconnect(v, e) PROVE FALSE
    BY <1>0, <2>3 DEF Disconnect, RemoveClient, DropClient
  <2> QED
    BY <1>1, <2>1, <2>2, <2>3, <2>4 DEF Next
<1>3. /\ pipe[v] # <<>> /\ Head(pipe[v]).type = "c"
      /\ clients' = [clients EXCEPT ![v] = clients[v] \cup {Head(pipe[v]).fd}]
      /\ online' = online /\ clientUsers' = clientUsers /\ sock' = sock
  BY <1>2 DEF AddClient, HandleAdd, KeepClient, dbVars
<1>4. v = w /\ fd = Head(pipe[w]).fd
  BY <1>0, <1>3
<1>5. fd \in Fds /\ Pending(fd, w, 1) /\ 1 \in 1 .. Len(pipe[w])
  BY <1>3, <1>4, HeadPending DEF ChatInv, TypeOK, Pending
<1>6. sock[fd] # NoConn /\ \A x \in Workers : fd \notin clients[x]
  BY <1>5 DEF ChatInv, ConnInv, Ownership, AnnouncedOnce
<1>7. sock[fd] \in Conns /\ ~Gone(sock[fd])
  BY <1>0, <1>5, <1>6 DEF Gone
<1>8. asked[sock[fd]] = <<>>
  <2> SUFFICES ASSUME asked[sock[fd]] # <<>> PROVE FALSE
    OBVIOUS
  <2>1. PICK x \in Workers : \E e \in clients[x] : sock[e] = sock[fd]
    BY <1>7 DEF AskedServed
  <2>2. PICK e \in clients[x] : sock[e] = sock[fd]
    BY <2>1
  <2>3. e = fd
    BY <1>0, <1>5, <1>6, <2>2 DEF ChatInv, ConnInv, Ownership, OneDescriptor
  <2> QED
    BY <1>6, <2>2, <2>3
<1>9. clients' # clients
  BY <1>4, <1>6
<1> QED
  BY <1>1, <1>3, <1>7, <1>8, <1>9

\* Worker w has opened the session of the login it is handling.
Opened(w) == \/ pc[w] \in {"getOfflineMessages", "clearOfflineMessages"}
             \/ pc[w] = "reply" /\ job[w].req.op = "login" /\ job[w].ok

\* That session stays until the login is answered; only a logout drops a row.
LoginOpen ==
    \A w \in Workers :
      /\ Opened(w) => clientUsers[w][job[w].fd] = job[w].req.user
      /\ pc[w] = "setUserOffline" => job[w].req.op = "logout"

\* The inductive strengthening of SessionOfHolder and RowsLeadToSessions.
SessionInv == AskedServed /\ LoginOpen /\ SessionOfHolder /\ RowsLeadToSessions

\* The password is looked at before anything is written (handleLogin).
LEMMA VerifiedFirst ==
    ASSUME ChatInv, NEW w \in Workers, HandlerStep(w), pc[w] = "verifyLogin"
    PROVE  pc'[w] \in {"deleteOnline", "reply"}
<1>0. pc \in [Workers -> Labels]
  BY DEF ChatInv, TypeOK
<1>1. VerifyLogin(w)
  BY DEF Runs, HandlerStep, IsUserExists, InsertUser, VerifyLogin, DeleteOnline,
       InsertOnline, GetOfflineMessages, ClearOfflineMessages, GetAllUsers, GetOnlineUsers,
       GetUserSocketFd, RoutePrivate, SendPrivate, StoreOfflineMessage, ListGroup, LookupMember,
       RouteMember, SendMember, GroupDone, SetUserOffline, SendReply
<1> QED
  BY <1>0, <1>1 DEF VerifyLogin, Goto, Finish

\* A worker's locals and sessions, while it works on a request.
LEMMA LoginOpenKept ==
    ASSUME ChatInv, [Next]_vars, RightHandler, LoginOpen
    PROVE  LoginOpen'
<1> SUFFICES ASSUME NEW w \in Workers, pc'[w] # "idle"
             PROVE  /\ Opened(w)' => clientUsers'[w][job'[w].fd] = job'[w].req.user
                    /\ pc'[w] = "setUserOffline" => job'[w].req.op = "logout"
  BY DEF LoginOpen, Opened
<1>0. ~Die
  BY DEF Die
<1>1. CASE Take(w)
  <2>1. PICK fd \in clients[w] : \E r \in Requests[sock[fd]] : Begins(w, fd, r)
    BY <1>1, TakeBegins
  <2>2. /\ pc'[w] \notin LoggedIn
        /\ pc'[w] = "reply" => job'[w].req.op # "login"
    BY <2>1 DEF Begins, RegisterSteps, LoginSteps, LoggedIn, Accounts
  <2>3. pc'[w] = "setUserOffline" => job'[w].req.op = "logout"
    BY <1>1, RowsTake
  <2> QED
    BY <2>2, <2>3 DEF LoggedIn, Opened
<1>2. CASE HandlerStep(w)
  <2>0. /\ clientUsers \in [Workers -> [Fds -> Users \cup {NoUser}]] /\ pc[w] # "idle"
        /\ job[w].fd \in Fds
    BY <1>2, StepLabels, AtWork DEF ChatInv, TypeOK
  <2>1. job'[w].fd = job[w].fd /\ job'[w].req = job[w].req
    BY <1>2, StepEffect
  <2>2. pc'[w] # "setUserOffline"
    BY <1>2, RowsStep
  <2>3. ASSUME Opened(w)'
        PROVE  clientUsers'[w][job[w].fd] = job[w].req.user
    <3>1. pc[w] \in LoginSteps
      BY <1>2, <2>0, <2>1, <2>3, StepLabels
         DEF Opened, RightHandler, RegisterSteps, LoginSteps, LoggedIn, Accounts
    <3>2. pc[w] \in LoggedIn
      <4>1. CASE Telling(w)'
        BY <1>2, <3>1, <4>1, LoginSucceeds
      <4>2. CASE ~Telling(w)'
        <5>1. pc'[w] \in {"getOfflineMessages", "clearOfflineMessages"}
          BY <2>3, <4>2 DEF Telling, Opened
        <5> QED
          BY <1>2, <3>1, <5>1, VerifiedFirst DEF LoginSteps
      <4> QED
        BY <4>1, <4>2
    <3>3. CASE pc[w] \in {"deleteOnline", "insertOnline"}
      <4>1. clientUsers' = [clientUsers EXCEPT ![w][job[w].fd] = job[w].req.user]
        BY <1>2, <2>3, <3>3, RowsStep DEF Opened
      <4> QED
        BY <2>0, <4>1
    <3>4. CASE pc[w] \in {"getOfflineMessages", "clearOfflineMessages"}
      <4>1. clientUsers' = clientUsers
        BY <1>2, <3>4, RowsStep
      <4>2. clientUsers[w][job[w].fd] = job[w].req.user
        BY <3>4 DEF LoginOpen, Opened
      <4> QED
        BY <4>1, <4>2
    <3> QED
      BY <3>2, <3>3, <3>4 DEF LoggedIn
  <2> QED
    BY <2>1, <2>2, <2>3
<1>3. CASE ~Take(w) /\ ~HandlerStep(w)
  BY <1>0, <1>3, WhoMoves, SessionsElsewhere DEF LoginOpen, Opened
<1> QED
  BY <1>1, <1>2, <1>3

\* Answers go to the connection whose handler has ended (handleLogin's last line).
LEMMA NewlyTold ==
    ASSUME ChatInv, [Next]_vars, NEW c \in Conns, NEW n, Told(c, n)'
    PROVE  \/ Told(c, n)
           \/ \E w \in Workers : /\ Handling(w, c) /\ pc[w] = "reply" /\ job[w].ok
                                 /\ HandlerStep(w) /\ n = NumberOf(w)
<1>0. outbox[c] \in Seq(Reply \cup Push)
  BY DEF ChatInv, TypeOK
<1>1. PICK i \in DOMAIN outbox'[c] :
        outbox'[c][i].type = "reply" /\ outbox'[c][i].ok /\ outbox'[c][i].n = n
  BY DEF Told, Answers
<1>2. i \in DOMAIN outbox[c] /\ outbox'[c][i] = outbox[c][i] => Told(c, n)
  BY <1>1 DEF Told, Answers
<1>3. ASSUME NEW p, outbox'[c] = Append(outbox[c], p), ~(i \in DOMAIN outbox[c])
      PROVE  outbox'[c][i] = p
  BY <1>0, <1>1, <1>3
<1>4. ASSUME NEW p, outbox'[c] = Append(outbox[c], p), i \in DOMAIN outbox[c]
      PROVE  outbox'[c][i] = outbox[c][i]
  BY <1>0, <1>4
<1>5. CASE outbox'[c] = outbox[c]
  BY <1>1, <1>2, <1>5
<1>6. ASSUME NEW p, p.type = "push", outbox'[c] = Append(outbox[c], p) PROVE Told(c, n)
  <2>1. i \in DOMAIN outbox[c]
    <3> SUFFICES ASSUME i \notin DOMAIN outbox[c] PROVE FALSE
      OBVIOUS
    <3>1. outbox'[c][i].type = "push"
      BY <1>3, <1>6
    <3> QED
      BY <1>1, <3>1
  <2> QED
    BY <1>2, <1>4, <1>6, <2>1
<1>7. ASSUME NEW w \in Workers, HandlerStep(w), pc[w] = "reply", Handling(w, c),
             outbox'[c] = Append(outbox[c], ReplyOf(w)), ~Told(c, n)
      PROVE  job[w].ok /\ n = NumberOf(w)
  <2>1. i \notin DOMAIN outbox[c]
    BY <1>2, <1>4, <1>7
  <2>2. outbox'[c][i] = ReplyOf(w)
    BY <1>3, <1>7, <2>1
  <2> QED
    BY <1>1, <2>2 DEF ReplyOf
<1> QED
  BY <1>5, <1>6, <1>7, OutputEffect

\* A request is told of only after it was read.
LEMMA NotToldYet ==
    ASSUME ChatInv, AnsweredInOrder, NEW c \in Conns
    PROVE  ~Told(c, Len(asked[c]) + 1)
<1>0. asked[c] \in Seq(Request)
  BY DEF ChatInv, TypeOK
<1>1. \A i \in Answers(c) : outbox[c][i].n <= Len(asked[c])
  BY DEF AnsweredInOrder
<1> QED
  BY <1>0, <1>1 DEF Told

\* A request that is neither a logout nor a successful login of somebody else leaves a
\* login standing.
LEMMA EndsKept ==
    ASSUME ChatInv, [Next]_vars, AskedByClient, NEW c \in Conns, NEW u \in Users, EndsAs(c, u),
           \A n \in DOMAIN asked'[c] : n \notin DOMAIN asked[c] =>
             asked'[c][n].op # "logout" /\ ~Told(c, n)',
           \A n \in DOMAIN asked[c] :
             Told(c, n)' /\ asked[c][n].op = "login" /\ asked[c][n].user # u => Told(c, n)
    PROVE  EndsAs(c, u)'
<1>0. asked[c] \in Seq(Request)
  BY DEF ChatInv, TypeOK
<1>1. PICK i \in DOMAIN asked[c] :
        /\ asked[c][i].op = "login" /\ asked[c][i].user = u /\ asked[c][i].pw = users[u]
        /\ \A j \in i + 1 .. Len(asked[c]) :
             /\ asked[c][j].op # "logout"
             /\ asked[c][j].op = "login" /\ asked[c][j].user # u => ~ Told(c, j)
  BY DEF EndsAs
<1>2. users'[u] = users[u]
  <2>1. asked[c][i] \in Requests[c]
    BY DEF AskedByClient
  <2>2. users[u] \in Passwords
    BY <1>1, <2>1
  <2> QED
    BY <2>2, UsersEffect
<1>3. /\ i \in DOMAIN asked'[c] /\ asked'[c][i] = asked[c][i]
      /\ \A j \in DOMAIN asked[c] : asked'[c][j] = asked[c][j]
      /\ \/ asked'[c] = asked[c]
         \/ asked'[c] # asked[c] /\ Len(asked'[c]) = Len(asked[c]) + 1
  <2>1. CASE asked'[c] = asked[c]
    BY <1>0, <2>1
  <2>2. ASSUME NEW r, asked'[c] = Append(asked[c], r)
        PROVE  /\ i \in DOMAIN asked'[c] /\ Len(asked'[c]) = Len(asked[c]) + 1
               /\ \A j \in DOMAIN asked[c] : asked'[c][j] = asked[c][j]
    BY <1>0, <2>2
  <2> QED
    BY <1>0, <2>1, <2>2, AskedEffect
<1>4. ASSUME NEW j \in i + 1 .. Len(asked'[c])
      PROVE  /\ asked'[c][j].op # "logout"
             /\ asked'[c][j].op = "login" /\ asked'[c][j].user # u => ~ Told(c, j)'
  <2>1. CASE j \in DOMAIN asked[c]
    <3>1. j \in i + 1 .. Len(asked[c])
      BY <1>0, <2>1
    <3> QED
      BY <1>1, <1>3, <2>1, <3>1
  <2>2. CASE j \notin DOMAIN asked[c]
    <3>1. j \in DOMAIN asked'[c]
      <4>1. asked'[c] \in Seq(Request) /\ i \in Nat
        BY <1>0, <1>1, ChatStep DEF ChatInv, TypeOK
      <4> QED
        BY <4>1
    <3> QED
      BY <2>2, <3>1
  <2> QED
    BY <2>1, <2>2
<1> QED
  BY <1>1, <1>2, <1>3, <1>4 DEF EndsAs

\* EndsAs of the next state, for a c and a u of this one.
EndsAsNext(c, u) ==
    \E i \in DOMAIN asked'[c] :
      /\ asked'[c][i].op = "login" /\ asked'[c][i].user = u /\ asked'[c][i].pw = users'[u]
      /\ \A j \in i + 1 .. Len(asked'[c]) :
           /\ asked'[c][j].op # "logout"
           /\ asked'[c][j].op = "login" /\ asked'[c][j].user # u => ~ Told(c, j)'

\* The session that a login opens is its connection's (clientUsers_, server.cpp:275).
LEMMA OpenedHolds ==
    ASSUME ChatInv, [Next]_vars, AskedByClient, OwnDescriptor, RightHandler, PasswordShown,
           NEW w \in Workers, HandlerStep(w), pc[w] \in {"deleteOnline", "insertOnline"}
    PROVE  \E c \in accepted' :
             /\ job[w].fd \in FdsFor[c] /\ job[w].fd \in clients'[w] /\ sock'[job[w].fd] = c
             /\ EndsAsNext(c, job[w].req.user)
<1>0. /\ pc[w] # "idle" /\ pc[w] \in LoggedIn /\ pc[w] \in LoginSteps
      /\ asked \in [Conns -> Seq(Request)]
  BY DEF LoggedIn, LoginSteps, ChatInv, TypeOK
<1>1. PICK c \in Conns : c = ConnOf(w)
  BY <1>0, AtWork
<1>2. PICK n \in Nat \ {0} : n = Len(asked[c]) /\ n = NumberOf(w)
  BY <1>0, <1>1, AtWork
<1>3. /\ job[w].fd \in clients[w] /\ job[w].fd \in Fds /\ sock[job[w].fd] = c
      /\ asked[c][n] = job[w].req /\ job[w].req.user \in Users
  BY <1>0, <1>1, <1>2, AtWork DEF Serving, ConnOf, LocalsOf, AccountSteps, LoggedIn
<1>4. c \in accepted /\ job[w].fd \in FdsFor[c] /\ c # NoConn
  BY <1>3 DEF ChatInv, ConnInv, OpenAccepted, OwnDescriptor
<1>5. accepted' = accepted /\ clients' = clients /\ sock' = sock /\ asked' = asked
  BY HandlerKeepsConns, StepAsksNone
<1>6. /\ asked[c][n].op = "login" /\ asked[c][n].user = job[w].req.user
      /\ asked[c][n].pw = users[job[w].req.user]
  BY <1>0, <1>3 DEF RightHandler, PasswordShown
<1>7. n \in DOMAIN asked[c] /\ n + 1 .. Len(asked[c]) = {}
  <2>1. asked[c] \in Seq(Request)
    BY <1>0
  <2>2. DOMAIN asked[c] = 1 .. n
    <3>1. DOMAIN asked[c] = 1 .. Len(asked[c])
      BY <2>1
    <3> QED
      BY <1>2, <3>1
  <2>3. n + 1 .. n = {} /\ n \in 1 .. n
    BY <1>2
  <2>4. n + 1 .. Len(asked[c]) = {}
    BY <1>2, <2>3
  <2> QED
    BY <2>2, <2>3, <2>4
<1>8. asked[c][n] \in Requests[c]
  BY <1>7 DEF AskedByClient
<1>9. users'[job[w].req.user] = users[job[w].req.user]
  <2>1. users[job[w].req.user] \in Passwords
    BY <1>6, <1>8
  <2> QED
    BY <1>3, <2>1, UsersEffect
<1>10. EndsAsNext(c, job[w].req.user)
  BY <1>5, <1>6, <1>7, <1>9 DEF EndsAsNext
<1> QED
  BY <1>3, <1>4, <1>5, <1>10

\* A connection that is gone hears and asks nothing more.
LEMMA GoneEnds ==
    ASSUME ChatInv, [Next]_vars, AskedByClient, NEW c \in Conns, NEW u \in Users, EndsAs(c, u),
           Gone(c)
    PROVE  EndsAs(c, u)'
<1>1. asked'[c] = asked[c]
  <2>1. ASSUME asked'[c] # asked[c] PROVE FALSE
    <3>1. PICK w \in Workers : \E fd \in clients[w] : sock[fd] = c
      BY <2>1, WhoAsks
    <3> QED
      BY <3>1, OwnedIsOpen DEF Gone
  <2> QED
    BY <2>1
<1>2. ASSUME NEW n, Told(c, n)' PROVE Told(c, n)
  <2>1. ASSUME NEW w \in Workers, Handling(w, c) PROVE FALSE
    BY <2>1, AtWork DEF Handling, ConnOf, Gone
  <2> QED
    BY <1>2, <2>1, NewlyTold
<1> QED
  BY <1>1, <1>2, EndsKept

\* What the holder of a descriptor asks and is told leaves its session the latest login.
LEMMA HolderEnds ==
    ASSUME ChatInv, [Next]_vars, AskedByClient, AnsweredInOrder, LoginOpen,
           NEW w \in Workers, NEW fd \in clients[w], NEW u \in Users, EndsAs(sock[fd], u),
           clientUsers[w][fd] = u, clientUsers'[w][fd] = u, NEW c \in Conns, c = sock[fd]
    PROVE  EndsAs(c, u)'
<1>0. /\ fd \in Fds /\ asked[c] \in Seq(Request) /\ NoUser \notin Users
      /\ clientUsers \in [Workers -> [Fds -> Users \cup {NoUser}]]
  BY OwnedIsOpen DEF ChatInv, TypeOK
<1>1. ASSUME NEW n \in DOMAIN asked'[c], n \notin DOMAIN asked[c]
      PROVE  asked'[c][n].op # "logout" /\ ~Told(c, n)'
  <2>1. asked'[c] # asked[c]
    BY <1>1
  <2>2. PICK v \in Workers : \E e \in clients[v] : \E r \in Requests[c] :
             /\ sock[e] = c /\ Begins(v, e, r) /\ Take(v)
             /\ asked'[c] = Append(asked[c], r)
    BY <2>1, WhoAsks
  <2>3. PICK e \in clients[v], r \in Requests[c] :
             /\ sock[e] = c /\ Begins(v, e, r) /\ Take(v)
             /\ asked'[c] = Append(asked[c], r)
    BY <2>2
  <2>4. e = fd
    BY <1>0, <2>3, OwnedIsOpen DEF ChatInv, ConnInv, Ownership, OneDescriptor
  <2>5. v = w
    BY <2>4 DEF ChatInv, ConnInv, Ownership, OneOwner
  <2>6. n = Len(asked[c]) + 1 /\ asked'[c][n] = r
    BY <1>0, <1>1, <2>3
  <2>7. job'[w].fd = fd /\ job'[w].req = r
    BY <2>3, <2>4, <2>5 DEF Begins
  <2>8. r.op # "logout"
    <3> SUFFICES ASSUME r.op = "logout" PROVE FALSE
      OBVIOUS
    <3>1. clientUsers' = [clientUsers EXCEPT ![w][fd] = NoUser]
      BY <2>3, <2>5, <2>7, RowsTake
    <3> QED
      BY <1>0, <3>1
  <2>9. outbox' = outbox
    BY <2>3, RowsTake
  <2> QED
    BY <2>6, <2>8, <2>9, NotToldYet DEF Told, Answers
<1>2. ASSUME NEW n \in DOMAIN asked[c], Told(c, n)', asked[c][n].op = "login",
             asked[c][n].user # u
      PROVE  Told(c, n)
  <2> SUFFICES ASSUME NEW v \in Workers, Handling(v, c), pc[v] = "reply", job[v].ok,
                      n = NumberOf(v)
               PROVE  FALSE
    BY <1>2, NewlyTold
  <2>1. v = w
    BY OwnerHandles DEF Handling
  <2>2. /\ asked[c][n] = job[w].req /\ sock[job[w].fd] = c /\ job[w].fd \in Fds
    BY <2>1, AtWork DEF Handling, Serving, ConnOf
  <2>3. job[w].fd = fd
    BY <1>0, <2>2 DEF ChatInv, ConnInv, Ownership, OneDescriptor
  <2>4. Opened(w)
    BY <1>2, <2>1, <2>2 DEF Opened
  <2> QED
    BY <1>2, <2>2, <2>3, <2>4 DEF LoginOpen
<1> QED
  BY <1>1, <1>2, EndsKept

\* A session survives only with the latest login of its descriptor's holder, or of one
\* that is gone.
LEMMA HolderKept ==
    ASSUME ChatInv, [Next]_vars, AnsweredInOrder, AccountInv, LoginOpen, SessionOfHolder
    PROVE  SessionOfHolder'
<1> DEFINE Held(w, fd) == \E c \in accepted' :
                            /\ fd \in FdsFor[c]
                            /\ Gone(c)' \/ (fd \in clients'[w] /\ sock'[fd] = c)
                            /\ EndsAsNext(c, clientUsers'[w][fd])
<1> SUFFICES ASSUME NEW w \in Workers, NEW fd \in Fds, clientUsers'[w][fd] # NoUser
             PROVE  Held(w, fd)
  BY DEF SessionOfHolder, EndsAs, EndsAsNext
<1>0. /\ clientUsers \in [Workers -> [Fds -> Users \cup {NoUser}]]
      /\ AskedByClient /\ OwnDescriptor /\ RightHandler /\ PasswordShown
      /\ accepted \subseteq Conns
  BY DEF ChatInv, TypeOK, ConnTypeOK, AccountInv
<1>1. ~Die
  BY DEF Die, NoSessions
<1>2. CASE clientUsers'[w][fd] = clientUsers[w][fd]
  <2>1. PICK u \in Users : u = clientUsers[w][fd] /\ u = clientUsers'[w][fd]
    BY <1>0, <1>2
  <2>2. PICK c \in accepted :
          /\ fd \in FdsFor[c]
          /\ Gone(c) \/ (fd \in clients[w] /\ sock[fd] = c)
          /\ EndsAs(c, u)
    BY <1>2, <2>1 DEF SessionOfHolder
  <2>3. c \in Conns /\ c \in accepted'
    BY <1>0, HolderStays
  <2>4. EndsAs(c, u)'
    <3>1. CASE Gone(c)
      BY <1>0, <2>2, <2>3, <3>1, GoneEnds
    <3>2. CASE fd \in clients[w] /\ sock[fd] = c
      BY <1>0, <2>1, <2>2, <2>3, <3>2, HolderEnds
    <3> QED
      BY <2>2, <3>1, <3>2
  <2>5. Gone(c)' \/ (fd \in clients'[w] /\ sock'[fd] = c)
    <3>1. CASE Gone(c)
      BY <3>1, HolderStays
    <3>2. CASE fd \in clients[w] /\ sock[fd] = c
      BY <1>1, <2>3, <3>2, ServedStays DEF Gone
    <3> QED
      BY <2>2, <3>1, <3>2
  <2>6. EndsAsNext(c, clientUsers'[w][fd])
    BY <2>1, <2>4 DEF EndsAs, EndsAsNext
  <2> QED
    BY <2>2, <2>3, <2>5, <2>6
<1>3. CASE clientUsers'[w][fd] # clientUsers[w][fd]
  <2>1. HandlerStep(w)
    <3>1. ASSUME Take(w) PROVE FALSE
      <4>1. clientUsers' = clientUsers \/ \E e : clientUsers' = [clientUsers EXCEPT ![w][e] = NoUser]
        BY <3>1, RowsTake
      <4> QED
        BY <1>0, <1>3, <4>1
    <3> QED
      BY <1>1, <1>3, <3>1, SessionsElsewhere
  <2>2. /\ pc[w] \in {"deleteOnline", "insertOnline"}
        /\ clientUsers' = [clientUsers EXCEPT ![w][job[w].fd] = job[w].req.user]
    BY <1>3, <2>1, RowsStep
  <2>3. fd = job[w].fd /\ clientUsers'[w][fd] = job[w].req.user
    BY <1>0, <1>3, <2>2
  <2>4. PICK c \in accepted' :
          /\ fd \in FdsFor[c] /\ fd \in clients'[w] /\ sock'[fd] = c
          /\ EndsAsNext(c, clientUsers'[w][fd])
    BY <1>0, <2>1, <2>2, <2>3, OpenedHolds
  <2> QED
    BY <2>4
<1> QED
  BY <1>2, <1>3

\* A row that names a served descriptor, and the session it leads to, change together
\* (setUserOnline, setUserOffline).
LEMMA RowsLeadKept ==
    ASSUME ChatInv, [Next]_vars, AuthInv, AskedServed, LoginOpen, RowsLeadToSessions
    PROVE  RowsLeadToSessions'
<1> DEFINE Goal(w, fd, u) ==
             \/ clientUsers'[w][fd] = u
             \/ pc'[w] = "setUserOffline" /\ job'[w].fd = fd /\ job'[w].from = u
             \/ /\ "setUserOffline" \in Faults
                /\ \E i \in DOMAIN asked'[sock'[fd]] : asked'[sock'[fd]][i].op = "logout"
<1> SUFFICES ASSUME NEW w \in Workers, NEW fd \in clients'[w], NEW u \in Users,
                    online'[u] = fd,
                    \A d \in accepted' : fd \in FdsFor[d] => d = sock'[fd],
                    \A i \in DOMAIN asked'[sock'[fd]] :
                      asked'[sock'[fd]][i].op = "login" => asked'[sock'[fd]][i].user = u
             PROVE  Goal(w, fd, u)
  BY DEF RowsLeadToSessions, OnlyHolder, OnlyUser
<1>0. /\ clientUsers \in [Workers -> [Fds -> Users \cup {NoUser}]] /\ NoFd \notin Fds
      /\ online \in [Users -> Fds \cup {NoFd}] /\ clients \in [Workers -> SUBSET Fds]
      /\ asked \in [Conns -> Seq(Request)] /\ accepted \subseteq accepted'
      /\ accepted \subseteq Conns /\ NoUser \notin Users
  BY SockEffect DEF ChatInv, TypeOK, ConnTypeOK
<1>1. ~Die
  BY DEF Die, Crash
<1>2. CASE fd \notin clients[w]
  <2>1. sock' = sock /\ sock[fd] \in Conns /\ asked[sock[fd]] = <<>> /\ online' = online
    BY <1>1, <1>2, FreshSilent
  <2>2. fd \in Fds
    BY ChatStep DEF ChatInv, TypeOK, ConnTypeOK
  <2>3. Speaks(fd, u)
    BY <1>0, <2>1, <2>2 DEF AuthInv, RowsSpeak
  <2>4. PICK d \in accepted : fd \in FdsFor[d] /\ u \in Earned(d)
    BY <2>3 DEF Speaks
  <2>5. d = sock[fd]
    BY <1>0, <2>1, <2>4
  <2> QED
    BY <2>1, <2>4, <2>5 DEF Earned
<1>3. CASE fd \in clients[w]
  <2>1. PICK c \in Conns : c = sock[fd] /\ c = sock'[fd]
    BY <1>1, <1>3, ServedStays, OwnedIsOpen
  <2>2. fd \in Fds
    BY <1>3, OwnedIsOpen
  <2>3. OnlyHolder(c, fd)
    BY <1>0, <2>1 DEF OnlyHolder
  <2>4. \A i \in DOMAIN asked[c] : i \in DOMAIN asked'[c] /\ asked'[c][i] = asked[c][i]
    <3>1. asked[c] \in Seq(Request)
      BY <1>0
    <3>2. ASSUME NEW r, asked'[c] = Append(asked[c], r), NEW i \in DOMAIN asked[c]
          PROVE  i \in DOMAIN asked'[c] /\ asked'[c][i] = asked[c][i]
      BY <3>1, <3>2
    <3> QED
      BY <3>2, AskedEffect
  <2>5. OnlyUser(c, u)
    BY <2>1, <2>4 DEF OnlyUser
  <2>6. CASE online[u] # fd
    <3>1. PICK v \in Workers : HandlerStep(v)
      BY <1>1, <2>6, RowsTake, RowsLoop
    <3>2. /\ online' = [online EXCEPT ![job[v].req.user] = job[v].fd]
          /\ clientUsers' = [clientUsers EXCEPT ![v][job[v].fd] = job[v].req.user]
      BY <1>0, <2>2, <2>6, <3>1, RowsStep
    <3>3. job[v].fd = fd /\ job[v].req.user = u
      BY <1>0, <2>6, <3>2
    <3>4. pc[v] # "idle"
      BY <3>1, StepLabels
    <3>5. fd \in clients[v]
      BY <3>3, <3>4, AtWork DEF Serving
    <3>6. v = w
      BY <1>3, <3>5 DEF ChatInv, ConnInv, Ownership, OneOwner
    <3> QED
      BY <1>0, <2>2, <3>2, <3>3, <3>6
  <2>7. CASE online[u] = fd /\ clientUsers[w][fd] = u
    <3> SUFFICES ASSUME clientUsers'[w][fd] # u PROVE Goal(w, fd, u)
      OBVIOUS
    <3>1. CASE Take(w)
      <4>1. PICK e \in clients[w] :
              /\ clientUsers' = [clientUsers EXCEPT ![w][e] = NoUser]
              /\ job'[w].req.op = "logout" /\ job'[w].fd = e /\ job'[w].from = clientUsers[w][e]
              /\ IF clientUsers[w][e] = NoUser THEN pc'[w] = "reply"
                                               ELSE pc'[w] = "setUserOffline"
        BY <2>7, <3>1, RowsTake
      <4>2. e = fd
        BY <1>0, <2>7, <4>1
      <4> QED
        BY <1>0, <2>7, <4>1, <4>2
    <3>2. CASE HandlerStep(w)
      <4>1. /\ pc[w] \in {"deleteOnline", "insertOnline"}
            /\ clientUsers' = [clientUsers EXCEPT ![w][job[w].fd] = job[w].req.user]
        BY <2>7, <3>2, RowsStep
      <4>2. job[w].fd = fd /\ clientUsers'[w][fd] = job[w].req.user
        BY <1>0, <2>2, <2>7, <4>1
      <4>3. job[w].req.user \in Earned(c)
        BY <2>1, <4>1, <4>2 DEF AuthInv, LoginsEarn, LoggedIn, ConnOf
      <4>4. job[w].req.user = u
        BY <2>5, <4>3 DEF Earned, OnlyUser
      <4> QED
        BY <4>2, <4>4
    <3>3. CASE ~Take(w) /\ ~HandlerStep(w)
      BY <1>1, <2>7, <3>3, SessionsElsewhere
    <3> QED
      BY <3>1, <3>2, <3>3
  <2>8. CASE online[u] = fd /\ pc[w] = "setUserOffline" /\ job[w].fd = fd /\ job[w].from = u
    <3>1. ~Take(w)
      BY <2>8, RowsTake
    <3>2. CASE HandlerStep(w)
      <4>1. "setUserOffline" \in Faults
        BY <1>0, <2>2, <2>8, <3>2, RowsStep
      <4>2. PICK n \in Nat : n \in DOMAIN asked[c] /\ asked[c][n] = job[w].req
        <5>0. c = ConnOf(w) /\ pc[w] # "idle"
          BY <2>1, <2>8 DEF ConnOf
        <5>1. /\ NumberOf(w) \in 1 .. MaxSent /\ NumberOf(w) = Len(asked[c])
              /\ asked[c][NumberOf(w)] = job[w].req
          BY <5>0, AtWork DEF Serving
        <5>2. asked[c] \in Seq(Request)
          BY <1>0
        <5>3. DOMAIN asked[c] = 1 .. Len(asked[c])
          BY <5>2
        <5>4. PICK n : n = NumberOf(w)
          OBVIOUS
        <5>5. n \in Nat /\ n \in 1 .. n
          BY <5>1, <5>4
        <5> QED
          BY <5>1, <5>3, <5>4, <5>5
      <4>3. job[w].req.op = "logout"
        BY <2>8 DEF LoginOpen
      <4> QED
        BY <2>1, <2>4, <4>1, <4>2, <4>3
    <3>3. CASE ~HandlerStep(w)
      BY <1>1, <2>8, <3>1, <3>3, WhoMoves
    <3> QED
      BY <3>2, <3>3
  <2>9. CASE /\ "setUserOffline" \in Faults
             /\ \E i \in DOMAIN asked[c] : asked[c][i].op = "logout"
    BY <2>1, <2>4, <2>9
  <2> QED
    <3>1. ASSUME online[u] = fd
          PROVE  \/ clientUsers[w][fd] = u
                 \/ pc[w] = "setUserOffline" /\ job[w].fd = fd /\ job[w].from = u
                 \/ /\ "setUserOffline" \in Faults
                    /\ \E i \in DOMAIN asked[c] : asked[c][i].op = "logout"
      <4>1. OnlyHolder(sock[fd], fd) /\ OnlyUser(sock[fd], u)
        BY <2>1, <2>3, <2>5
      <4>2. \/ clientUsers[w][fd] = u
            \/ pc[w] = "setUserOffline" /\ job[w].fd = fd /\ job[w].from = u
            \/ /\ "setUserOffline" \in Faults
               /\ \E i \in DOMAIN asked[sock[fd]] : asked[sock[fd]][i].op = "logout"
        BY <1>3, <3>1, <4>1 DEF RowsLeadToSessions
      <4> QED
        BY <2>1, <4>2
    <3> QED
      BY <2>6, <2>7, <2>8, <2>9, <3>1
<1> QED
  BY <1>2, <1>3

LEMMA SessionInit == Init => SessionInv
<1> SUFFICES ASSUME Init PROVE SessionInv
  OBVIOUS
<1>1. AskedServed /\ LoginOpen
  BY DEF Init, AskedServed, LoginOpen, Opened
<1>2. SessionOfHolder
  BY DEF Init, SessionOfHolder, NoSessions
<1>3. RowsLeadToSessions
  BY DEF Init, ConnInit, RowsLeadToSessions
<1> QED
  BY <1>1, <1>2, <1>3 DEF SessionInv

LEMMA SessionHolds ==
    Spec => [](ChatInv /\ AuthInv /\ AnsweredInOrder /\ AccountInv /\ SessionInv)
<1>1. ChatInv /\ AuthInv /\ AnsweredInOrder /\ AccountInv /\ SessionInv /\ ChatInv' /\ [Next]_vars
        => SessionInv'
  <2> SUFFICES ASSUME ChatInv, AuthInv, AnsweredInOrder, AccountInv, SessionInv, ChatInv',
                      [Next]_vars
               PROVE  SessionInv'
    OBVIOUS
  <2>1. AskedServed /\ LoginOpen /\ SessionOfHolder /\ RowsLeadToSessions /\ RightHandler
    BY DEF SessionInv, AccountInv
  <2>2. AskedServed'
    BY <2>1, ServedKept
  <2>3. LoginOpen'
    BY <2>1, LoginOpenKept
  <2>4. SessionOfHolder'
    BY <2>1, HolderKept
  <2>5. RowsLeadToSessions'
    BY <2>1, RowsLeadKept
  <2> QED
    BY <2>2, <2>3, <2>4, <2>5 DEF SessionInv
<1>2. Init => AnsweredInOrder
  BY DEF Init, AnsweredInOrder, Answers
<1> QED
  BY <1>1, <1>2, SessionInit, ChatInit, ChatStep, OrderStep, AuthInit, AuthStep, AccountInit,
     AccountStep, PTL DEF Spec

\* SessionOfHolder: whatever clients log in and out, close and have their descriptors
\* reused, however the queries end and whenever the server is restarted, an entry of a
\* worker's clientUsers_ is the latest login of the connection it serves there, or of
\* one that is gone and had the descriptor (server.cpp:275, 365, 441).
THEOREM SessionOfHolderHolds == Spec => []SessionOfHolder
<1>1. SessionInv => SessionOfHolder
  BY DEF SessionInv
<1> QED
  BY <1>1, SessionHolds, PTL

\* RowsLeadToSessions: any number of connections may log one user in and out, on any
\* workers and with failing queries; a row of online_users that names an open
\* connection, alone with its descriptor and its user, leads to that user's session,
\* until its logout deletes the row or fails to (database.cpp:159-184).
THEOREM RowsLeadToSessionsHolds == Spec => []RowsLeadToSessions
<1>1. SessionInv => RowsLeadToSessions
  BY DEF SessionInv
<1> QED
  BY <1>1, SessionHolds, PTL

-----------------------------------------------------------------------------
(* A private message is given once. *)

\* Where message m is, as the code keeps it between its sender and its addressee: the
\* i-th record waiting in worker a's socketpair, the k-th row stored for user a, the
\* k-th of those that the login worker a is handling has read, or the k-th in the i-th
\* packet sent to a.
InPipe(m, a, i)      == /\ a \in Workers /\ i \in 1 .. Len(pipe[a])
                        /\ pipe[a][i].type = "s" /\ pipe[a][i].msg = m
InTable(m, a, k)     == a \in Users /\ k \in 1 .. Len(offline[a]) /\ offline[a][k] = m
InHand(m, a, k)      == a \in Workers /\ k \in 1 .. Len(job[a].off) /\ job[a].off[k] = m
InOutput(m, a, i, k) == /\ a \in Conns /\ i \in 1 .. Len(outbox[a])
                        /\ k \in DOMAIN Given(a, i) /\ Given(a, i)[k] = m
InAnswer(m, a, i, k) == InOutput(m, a, i, k) /\ outbox[a][i].type = "reply"

Lies(m, place, a, i, k) ==
    \/ place = "pipe" /\ k = 1 /\ InPipe(m, a, i)
    \/ place = "table" /\ i = 1 /\ InTable(m, a, k)
    \/ place = "hand" /\ i = 1 /\ InHand(m, a, k)
    \/ place = "output" /\ InOutput(m, a, i, k)

\* The lists that messages are copied between: tables, what was read, and answers.
Copied(place, a, i) == \/ place \in {"table", "hand"}
                       \/ place = "output" /\ outbox[a][i].type = "reply"

\* Message m is in one place only, unless as a copy in several such lists.
Apart(m) == \A p, q, a, b, i, j, k, l : Lies(m, p, a, i, k) /\ Lies(m, q, b, j, l) =>
              \/ p = q /\ a = b /\ i = j /\ k = l
              \/ Copied(p, a, i) /\ Copied(q, b, j) /\ ~(p = q /\ a = b /\ i = j)

\* What has been answered is no longer stored, and no connection that has it in an
\* answer has it in, or is about to get it in, another.
Deleted(m) ==
    /\ \A a, i, k, b, l : ~(InAnswer(m, a, i, k) /\ InTable(m, b, l))
    /\ \A a, k, b, l : ~(InHand(m, a, k) /\ pc[a] = "reply" /\ InTable(m, b, l))
    /\ \A a, i, k, b, l : InAnswer(m, a, i, k) /\ InHand(m, b, l) => ConnOf(b) # a
    /\ \A a, i, j, k, l : InAnswer(m, a, i, k) /\ InAnswer(m, a, j, l) => i = j

\* DELETE FROM offline_messages does not fail.
DeletesDone == "clearOfflineMessages" \notin Faults

\* A message is one that has been asked for, earlier than the one being routed.
Counted(m) ==
    /\ m \in Message /\ m.n <= Len(asked[m.conn])
    /\ \A w \in Workers : pc[w] \in PrivateSteps /\ ConnOf(w) = m.conn => m.n < NumberOf(w)

PrivateApart   == \A m : m.kind = "private" => Apart(m)
PrivateDeleted == DeletesDone => \A m : m.kind = "private" => Deleted(m)
PrivateCounted == \A m : m.kind = "private" =>
                    \A p, a, i, k : Lies(m, p, a, i, k) => Counted(m)

\* A handler has read messages of its login's user only, and only at its end.
HandsRead == \A w \in Workers :
    /\ pc[w] \notin {"clearOfflineMessages", "reply"} => job[w].off = <<>>
    /\ \A k \in 1 .. Len(job[w].off) : job[w].off[k].to = job[w].req.user

\* The inductive strengthening of AtMostOnce.
OnceInv == PrivateApart /\ PrivateDeleted /\ PrivateCounted /\ HandsRead

\* What a handler's step does to the messages on their way.
Forwards(w) ==
    /\ pc[w] = "sendPrivate" /\ pc'[w] = "reply" /\ offline' = offline /\ outbox' = outbox
    /\ pipe' = Enqueue(job[w].via, [type |-> "s", fd |-> job[w].to,
                                    msg |-> Forward(w, "private", job[w].req.user)])
Stores(w) ==
    /\ pc[w] = "storeOfflineMessage" /\ pc'[w] = "reply" /\ pipe' = pipe /\ outbox' = outbox
    /\ \/ offline' = offline
       \/ offline' = Stored(job[w].req.user, Forward(w, "private", job[w].req.user))
Clears(w) ==
    /\ pc[w] = "clearOfflineMessages" /\ pc'[w] = "reply" /\ pipe' = pipe /\ outbox' = outbox
    /\ offline' = Cleared(job[w].req.user) \/ (offline' = offline /\ ~DeletesDone)
Tells(w) ==
    /\ pc[w] = "reply" /\ pc'[w] = "idle" /\ pipe' = pipe /\ offline' = offline
    /\ outbox' = Write(ConnOf(w), ReplyOf(w))
Groups(w) ==
    /\ pc[w] \in {"lookupMember", "sendMember"} /\ offline' = offline
    /\ \/ pipe' = pipe
       \/ \E v \in Workers, fd \in Fds :
            pipe' = Enqueue(v, [type |-> "s", fd |-> fd, msg |-> Forward(w, "group", NoUser)])
    /\ outbox' = outbox \/ \E c : outbox' = Write(c, PushOf(Forward(w, "group", NoUser)))

LEMMA HandlerMoves ==
    ASSUME ChatInv, NEW w \in Workers, HandlerStep(w)
    PROVE  \/ Forwards(w) \/ Stores(w) \/ Clears(w) \/ Tells(w) \/ Groups(w)
           \/ /\ pc[w] \notin {"clearOfflineMessages", "reply"}
              /\ pipe' = pipe /\ offline' = offline /\ outbox' = outbox
<1>0. pc \in [Workers -> Labels]
  BY DEF ChatInv, TypeOK
<1> USE DEF Runs, Goto, Finish
<1>1. CASE SendPrivate(w)
  BY <1>0, <1>1 DEF SendPrivate, NotifySendMessage, Forwards, dbVars, ioVars
<1>2. CASE StoreOfflineMessage(w)
  BY <1>0, <1>2 DEF StoreOfflineMessage, Stores, connVars, ioVars
<1>3. CASE ClearOfflineMessages(w)
  BY <1>0, <1>3 DEF ClearOfflineMessages, Clears, connVars, ioVars, DeletesDone, Outcomes
<1>4. CASE SendReply(w)
  <2>1. pc[w] = "reply" /\ pc'[w] = "idle" /\ pipe' = pipe /\ offline' = offline
    BY <1>0, <1>4 DEF SendReply, connVars, dbVars
  <2> QED
    BY <1>4, <2>1, ReplyWritten DEF Tells
<1>5. CASE LookupMember(w)
  BY <1>0, <1>5 DEF LookupMember, Groups, connVars, dbVars
<1>6. CASE SendMember(w)
  <2>1. job[w].via \in Workers /\ job[w].to \in Fds
    BY <1>6, AtWork DEF SendMember, Serving, LocalsOf, Job
  <2> QED
    BY <1>0, <1>6, <2>1 DEF SendMember, Groups, NotifySendMessage, dbVars, ioVars
<1>7. CASE \/ IsUserExists(w) \/ InsertUser(w) \/ VerifyLogin(w) \/ DeleteOnline(w)
           \/ InsertOnline(w) \/ GetOfflineMessages(w)
  BY <1>7 DEF IsUserExists, InsertUser, VerifyLogin, DeleteOnline, InsertOnline,
              GetOfflineMessages, connVars, dbVars, ioVars
<1>8. CASE \/ GetAllUsers(w) \/ GetOnlineUsers(w) \/ GetUserSocketFd(w) \/ RoutePrivate(w)
           \/ ListGroup(w) \/ RouteMember(w) \/ GroupDone(w) \/ SetUserOffline(w)
  BY <1>8 DEF GetAllUsers, GetOnlineUsers, GetUserSocketFd, RoutePrivate, ListGroup, RouteMember,
              GroupDone, SetUserOffline, connVars, dbVars, ioVars
<1> QED
  BY <1>1, <1>2, <1>3, <1>4, <1>5, <1>6, <1>7, <1>8 DEF HandlerStep

\* What a login reads and when.
LEMMA ReadEffect ==
    ASSUME ChatInv, NEW w \in Workers, HandlerStep(w), pc'[w] # "idle"
    PROVE  /\ pc[w] # "reply"
           /\ \/ job'[w].off = job[w].off /\ pc'[w] # "clearOfflineMessages"
              \/ /\ pc[w] = "getOfflineMessages" /\ pc'[w] = "clearOfflineMessages"
                 /\ job'[w].req = job[w].req /\ offline' = offline
                 /\ job'[w].off = offline[job[w].req.user]
<1>0. pc \in [Workers -> Labels] /\ job \in [Workers -> Job] /\ job[w] \in Job
  BY DEF ChatInv, TypeOK
<1>1. pc[w] # "reply" /\ (job'[w].off # job[w].off => pc[w] \in LoggedIn)
  BY StepLabels, StepEffect
<1>2. CASE GetOfflineMessages(w)
  <2>1. CASE /\ job' = [job EXCEPT ![w].off = offline[job[w].req.user]]
             /\ Goto(w, "clearOfflineMessages")
    BY <1>0, <1>1, <1>2, <2>1 DEF Job, GetOfflineMessages, Runs, Goto, dbVars
  <2>2. CASE Finish(w, TRUE)
    BY <1>0, <1>1, <2>2 DEF Finish, Goto, Job
  <2> QED
    BY <1>2, <2>1, <2>2 DEF GetOfflineMessages
<1>3. CASE DeleteOnline(w) \/ InsertOnline(w)
  BY <1>0, <1>1, <1>3 DEF DeleteOnline, InsertOnline, OpenSession, Goto
<1>4. CASE ClearOfflineMessages(w)
  BY <1>0, <1>1, <1>4 DEF ClearOfflineMessages, Finish, Goto, Job
<1>5. CASE VerifyLogin(w)
  BY <1>0, <1>1, <1>5 DEF VerifyLogin, Finish, Goto, Runs, LoggedIn
<1>6. CASE \/ IsUserExists(w) \/ InsertUser(w) \/ GetAllUsers(w) \/ GetOnlineUsers(w)
           \/ GetUserSocketFd(w) \/ RoutePrivate(w) \/ SendPrivate(w) \/ StoreOfflineMessage(w)
           \/ ListGroup(w) \/ LookupMember(w) \/ RouteMember(w) \/ SendMember(w) \/ GroupDone(w)
           \/ SetUserOffline(w) \/ SendReply(w)
  <2>1. pc[w] \notin LoggedIn /\ pc'[w] # "clearOfflineMessages"
    BY <1>0, <1>6 DEF IsUserExists, InsertUser, GetAllUsers, GetOnlineUsers, GetUserSocketFd,
       RoutePrivate, SendPrivate, StoreOfflineMessage, ListGroup, LookupMember, RouteMember,
       SendMember, GroupDone, SetUserOffline, SendReply, Finish, Goto, Runs, LoggedIn
  <2> QED
    BY <1>1, <2>1
<1> QED
  BY <1>2, <1>3, <1>4, <1>5, <1>6 DEF HandlerStep

\* What appending does to the places of messages.
LEMMA InLonger ==
    ASSUME NEW S, NEW s \in Seq(S), NEW e, NEW i \in 1 .. Len(Append(s, e))
    PROVE  \/ i \in 1 .. Len(s) /\ Append(s, e)[i] = s[i]
           \/ i = Len(s) + 1 /\ Append(s, e)[i] = e
OBVIOUS

LEMMA PipeLonger ==
    ASSUME ChatInv, NEW m, NEW v, NEW note, pipe' = pipe \/ pipe' = Enqueue(v, note),
           NEW a, NEW i, InPipe(m, a, i)'
    PROVE  \/ InPipe(m, a, i)
           \/ a = v /\ i = Len(pipe[v]) + 1 /\ note.type = "s" /\ note.msg = m
<1>0. pipe \in [Workers -> Seq(Note)]
  BY DEF ChatInv, TypeOK, ConnTypeOK
<1>1. a \in Workers /\ i \in 1 .. Len(pipe'[a]) /\ pipe'[a][i].type = "s" /\ pipe'[a][i].msg = m
  BY DEF InPipe
<1>2. CASE pipe'[a] = pipe[a]
  BY <1>1, <1>2 DEF InPipe
<1>3. CASE pipe'[a] = Append(pipe[a], note) /\ a = v
  <2>1. pipe[a] \in Seq(Note)
    BY <1>0, <1>1
  <2> QED
    BY <1>1, <1>3, <2>1, InLonger DEF InPipe
<1> QED
  BY <1>0, <1>1, <1>2, <1>3 DEF Enqueue

LEMMA TableLonger ==
    ASSUME ChatInv, NEW m, NEW v, NEW x, offline' = offline \/ offline' = Stored(v, x),
           NEW a, NEW i, InTable(m, a, i)'
    PROVE  \/ InTable(m, a, i)
           \/ a = v /\ i = Len(offline[v]) + 1 /\ x = m
<1>0. offline \in [Users -> Seq(Message)]
  BY DEF ChatInv, TypeOK
<1>1. a \in Users /\ i \in 1 .. Len(offline'[a]) /\ offline'[a][i] = m
  BY DEF InTable
<1>2. CASE offline'[a] = offline[a]
  BY <1>1, <1>2 DEF InTable
<1>3. CASE offline'[a] = Append(offline[a], x) /\ a = v
  <2>1. offline[a] \in Seq(Message)
    BY <1>0, <1>1
  <2> QED
    BY <1>1, <1>3, <2>1, InLonger DEF InTable
<1> QED
  BY <1>0, <1>1, <1>2, <1>3 DEF Stored

\* The messages of packet p.
Carried(p) == IF p.type = "push" THEN <<p.msg>> ELSE p.off

LEMMA OutputLonger ==
    ASSUME ChatInv, NEW m, NEW c, NEW p, outbox' = outbox \/ outbox' = Write(c, p),
           NEW a, NEW i, NEW k, InOutput(m, a, i, k)'
    PROVE  \/ InOutput(m, a, i, k)
           \/ /\ a = c /\ i = Len(outbox[c]) + 1
              /\ k \in DOMAIN Carried(p) /\ Carried(p)[k] = m
<1>0. outbox \in [Conns -> Seq(Reply \cup Push)]
  BY DEF ChatInv, TypeOK
<1>1. /\ a \in Conns /\ i \in 1 .. Len(outbox'[a])
      /\ k \in DOMAIN Carried(outbox'[a][i]) /\ Carried(outbox'[a][i])[k] = m
  BY DEF InOutput, Given, Carried
<1>2. CASE outbox'[a] = outbox[a]
  BY <1>1, <1>2 DEF InOutput, Given, Carried
<1>3. CASE outbox'[a] = Append(outbox[a], p) /\ a = c
  <2>1. outbox[a] \in Seq(Reply \cup Push)
    BY <1>0, <1>1
  <2>2. CASE i \in 1 .. Len(outbox[a]) /\ outbox'[a][i] = outbox[a][i]
    BY <1>1, <2>2 DEF InOutput, Given, Carried
  <2>3. CASE i = Len(outbox[a]) + 1 /\ outbox'[a][i] = p
    BY <1>1, <1>3, <2>3
  <2> QED
    BY <1>1, <1>3, <2>1, <2>2, <2>3, InLonger
<1> QED
  BY <1>0, <1>1, <1>2, <1>3 DEF Write

\* What a handler has in hand it has read, or had before.
LEMMA HandEffect ==
    ASSUME ChatInv, HandsRead, [Next]_vars, NEW m, NEW a, NEW k, InHand(m, a, k)'
    PROVE  /\ ConnOf(a)' = ConnOf(a) /\ pc[a] # "idle"
           /\ \/ InHand(m, a, k) /\ ~HandlerStep(a) /\ pc'[a] = pc[a]
              \/ /\ HandlerStep(a) /\ pc[a] = "clearOfflineMessages" /\ pc'[a] = "reply"
                 /\ InHand(m, a, k)
              \/ /\ HandlerStep(a) /\ pc[a] = "getOfflineMessages"
                 /\ pc'[a] = "clearOfflineMessages" /\ InTable(m, job[a].req.user, k)
<1>0. a \in Workers /\ job'[a].off # <<>>
  BY DEF InHand
<1>1. ~Die /\ ~Take(a)
  BY <1>0, TakeEffect DEF Die, IdleJob
<1>2. CASE HandlerStep(a)
  <2>1. pc'[a] # "idle"
    BY <1>0, <1>2, StepEnds DEF IdleJob
  <2>2. pc[a] # "idle" /\ ConnOf(a)' = ConnOf(a)
    BY <1>0, <1>1, <1>2, <2>1, StepEffect, SameConn
  <2>3. CASE job'[a].off = job[a].off
    <3>1. pc[a] \in {"clearOfflineMessages", "reply"}
      BY <1>0, <2>3 DEF HandsRead
    <3>2. pc[a] # "reply"
      BY <1>0, <1>2, <2>1, ReadEffect
    <3>3. pc'[a] = "reply"
      BY <1>0, <1>2, <3>1, <3>2, HandlerMoves DEF Forwards, Stores, Clears, Tells, Groups
    <3> QED
      BY <1>2, <2>2, <2>3, <3>1, <3>2, <3>3 DEF InHand
  <2>4. CASE /\ pc[a] = "getOfflineMessages" /\ pc'[a] = "clearOfflineMessages"
             /\ job'[a].off = offline[job[a].req.user]
    <3>1. job[a].req.user \in Users
      BY <1>0, <2>4, AtWork DEF Serving, LocalsOf, AccountSteps
    <3> QED
      BY <1>2, <2>2, <2>4, <3>1 DEF InHand, InTable
  <2> QED
    BY <1>0, <1>2, <2>1, <2>3, <2>4, ReadEffect
<1>3. CASE ~HandlerStep(a)
  <2>1. pc'[a] = pc[a] /\ job'[a] = job[a]
    BY <1>0, <1>1, <1>3, WhoMoves
  <2>2. pc[a] # "idle"
    BY <1>0, <2>1 DEF HandsRead
  <2>3. ConnOf(a)' = ConnOf(a)
    BY <1>0, <1>1, <2>1, <2>2, SameConn
  <2> QED
    BY <1>3, <2>1, <2>2, <2>3 DEF InHand
<1> QED
  BY <1>2, <1>3

\* The message that a handler is about to send or store is nowhere yet.
LEMMA FreshNowhere ==
    ASSUME ChatInv, PrivateCounted, NEW w \in Workers, pc[w] \in PrivateSteps,
           NEW p, NEW a, NEW i, NEW k
    PROVE  ~Lies(Forward(w, "private", job[w].req.user), p, a, i, k)
<1> DEFINE m == Forward(w, "private", job[w].req.user)
<1>1. m.kind = "private" /\ m.conn = ConnOf(w) /\ m.n = NumberOf(w)
  BY DEF Forward
<1>2. NumberOf(w) \in Nat
  BY AtWork DEF PrivateSteps
<1> HIDE DEF m
<1>3. ASSUME Lies(m, p, a, i, k) PROVE FALSE
  <2>1. Counted(m)
    BY <1>1, <1>3 DEF PrivateCounted
  <2> QED
    BY <1>1, <1>2, <2>1 DEF Counted
<1> QED
  BY <1>3 DEF m

\* Message m is somewhere.
Known(m) == \E p, a, i, k : Lies(m, p, a, i, k)

\* Packets stay what they are.
LEMMA CopiedStays ==
    ASSUME ChatInv, [Next]_vars, NEW m, NEW p, NEW a, NEW i, NEW k, Lies(m, p, a, i, k)
    PROVE  Copied(p, a, i)' <=> Copied(p, a, i)
<1>1. CASE p # "output"
  BY <1>1 DEF Copied
<1>2. CASE p = "output"
  <2>1. a \in Conns /\ i \in 1 .. Len(outbox[a]) /\ outbox[a] \in Seq(Reply \cup Push)
    BY <1>2 DEF Lies, InOutput, ChatInv, TypeOK
  <2>2. ASSUME NEW x, outbox'[a] = Append(outbox[a], x) PROVE outbox'[a][i] = outbox[a][i]
    BY <2>1, <2>2
  <2>3. outbox'[a][i] = outbox[a][i]
    BY <2>1, <2>2, OutputEffect
  <2> QED
    BY <2>3 DEF Copied
<1> QED
  BY <1>1, <1>2

\* No private message is anywhere it was not.
Unmoved(m) == \A p, a, i, k : Lies(m, p, a, i, k)' => Lies(m, p, a, i, k)

LEMMA UnmovedApart ==
    ASSUME ChatInv, [Next]_vars, NEW m, Apart(m), Unmoved(m)
    PROVE  Apart(m)' /\ (Known(m)' => Known(m))
<1> SUFFICES ASSUME NEW p, NEW q, NEW a, NEW b, NEW i, NEW j, NEW k, NEW l,
                    Lies(m, p, a, i, k)', Lies(m, q, b, j, l)'
             PROVE  \/ p = q /\ a = b /\ i = j /\ k = l
                    \/ Copied(p, a, i)' /\ Copied(q, b, j)' /\ ~(p = q /\ a = b /\ i = j)
  BY DEF Apart, Known, Unmoved
<1>1. Lies(m, p, a, i, k) /\ Lies(m, q, b, j, l)
  BY DEF Unmoved
<1>2. (Copied(p, a, i)' <=> Copied(p, a, i)) /\ (Copied(q, b, j)' <=> Copied(q, b, j))
  BY <1>1, CopiedStays
<1> QED
  BY <1>1, <1>2 DEF Apart

\* Where answers bring nothing new and tables do not grow, what was deleted stays so.
LEMMA StaysDeleted ==
    ASSUME DeletesDone, ChatInv, AuthInv, HandsRead, [Next]_vars, NEW m, Deleted(m),
           \A a, i, k : InAnswer(m, a, i, k)' => InAnswer(m, a, i, k),
           \A a, k : InTable(m, a, k)' => InTable(m, a, k)
    PROVE  Deleted(m)'
<1>1. ASSUME NEW a, NEW k, InHand(m, a, k)'
      PROVE  /\ ConnOf(a)' = ConnOf(a)
             /\ \/ InHand(m, a, k) /\ pc'[a] = pc[a]
                \/ InHand(m, a, k) /\ HandlerStep(a) /\ pc[a] = "clearOfflineMessages"
                \/ pc'[a] # "reply" /\ \E b : InTable(m, b, k)
  <2>1. a \in Workers
    BY <1>1 DEF InHand
  <2> QED
    BY <1>1, <2>1, HandEffect
<1>2. ASSUME NEW a, NEW k, NEW b, NEW l, InHand(m, a, k)', pc'[a] = "reply", InTable(m, b, l)'
      PROVE  FALSE
  <2>1. CASE InHand(m, a, k) /\ HandlerStep(a) /\ pc[a] = "clearOfflineMessages"
    <3>1. a \in Workers /\ m.to = job[a].req.user
      BY <2>1 DEF InHand, HandsRead
    <3>2. InTable(m, b, l)
      BY <1>2
    <3>3. offline[b] \in Seq(Message) /\ b \in Users /\ l \in 1 .. Len(offline[b]) /\ offline[b][l] = m
      BY <3>2 DEF InTable, ChatInv, TypeOK
    <3>4. l \in DOMAIN offline[b]
      BY <3>3
    <3>5. m.to = b
      BY <3>3, <3>4 DEF AuthInv, StoredForUser
    <3>6. offline' = Cleared(job[a].req.user)
      BY <2>1, <3>1, HandlerMoves DEF Forwards, Stores, Clears, Tells, Groups
    <3>7. offline'[b] = <<>>
      BY <3>1, <3>3, <3>5, <3>6 DEF Cleared, ChatInv, TypeOK
    <3> QED
      BY <1>2, <3>7 DEF InTable
  <2>2. CASE InHand(m, a, k) /\ pc'[a] = pc[a]
    BY <1>2, <2>2 DEF Deleted
  <2> QED
    BY <1>1, <1>2, <2>1, <2>2
<1>3. ASSUME NEW a, NEW i, NEW k, NEW b, NEW l, InAnswer(m, a, i, k)', InHand(m, b, l)'
      PROVE  ConnOf(b)' # a
  BY <1>1, <1>3 DEF Deleted
<1>4. ASSUME NEW a, NEW i, NEW k, NEW b, NEW l, InAnswer(m, a, i, k)', InTable(m, b, l)'
      PROVE  FALSE
  BY <1>4 DEF Deleted
<1>5. ASSUME NEW a, NEW i, NEW j, NEW k, NEW l, InAnswer(m, a, i, k)', InAnswer(m, a, j, l)'
      PROVE  i = j
  BY <1>5 DEF Deleted
<1> QED
  BY <1>2, <1>3, <1>4, <1>5 DEF Deleted

\* What one step makes of a message's places.
Goes(m) == Apart(m)' /\ (DeletesDone => Deleted(m)')

LEMMA UnmovedGoes ==
    ASSUME ChatInv, AuthInv, OnceInv, [Next]_vars, NEW m, m.kind = "private", Unmoved(m)
    PROVE  Goes(m) /\ (Known(m)' => Known(m))
<1>1. Apart(m)' /\ (Known(m)' => Known(m))
  BY UnmovedApart DEF OnceInv, PrivateApart
<1>2. ASSUME NEW a, NEW i, NEW k, InAnswer(m, a, i, k)' PROVE InAnswer(m, a, i, k)
  <2>1. Lies(m, "output", a, i, k)'
    BY <1>2 DEF Lies, InAnswer
  <2>2. Lies(m, "output", a, i, k)
    BY <2>1 DEF Unmoved
  <2>3. Copied("output", a, i)
    BY <1>2, <2>2, CopiedStays DEF Copied, InAnswer
  <2> QED
    BY <2>2, <2>3 DEF Lies, InAnswer, Copied
<1>3. ASSUME NEW a, NEW k, InTable(m, a, k)' PROVE InTable(m, a, k)
  <2>1. Lies(m, "table", a, 1, k)'
    BY <1>3 DEF Lies
  <2>2. Lies(m, "table", a, 1, k)
    BY <2>1 DEF Unmoved
  <2> QED
    BY <2>2 DEF Lies
<1>4. ASSUME DeletesDone PROVE Deleted(m)'
  BY <1>2, <1>3, <1>4, StaysDeleted DEF OnceInv, PrivateDeleted
<1> QED
  BY <1>1, <1>4 DEF Goes

\* Most steps move no private message.
LEMMA NothingMoves ==
    ASSUME ChatInv, OnceInv, [Next]_vars, NEW m, m.kind = "private",
           \/ pipe' = pipe
           \/ \E v, note : /\ pipe' = Enqueue(v, note)
                           /\ note.type = "s" => note.msg.kind # "private",
           \A a, k : InTable(m, a, k)' => InTable(m, a, k),
           \/ outbox' = outbox
           \/ \E c, x : x.kind # "private" /\ outbox' = Write(c, PushOf(x)),
           \A v \in Workers : HandlerStep(v) => pc[v] # "getOfflineMessages"
    PROVE  Unmoved(m)
<1>1. ASSUME NEW a, NEW i, InPipe(m, a, i)' PROVE InPipe(m, a, i)
  <2>1. CASE pipe' = pipe
    BY <1>1, <2>1 DEF InPipe
  <2>2. ASSUME NEW v, NEW note, pipe' = Enqueue(v, note), note.type = "s" => note.msg.kind # "private"
        PROVE  InPipe(m, a, i)
    BY <1>1, <2>2, PipeLonger
  <2> QED
    BY <2>1, <2>2
<1>2. ASSUME NEW a, NEW k, InHand(m, a, k)' PROVE InHand(m, a, k)
  <2>1. a \in Workers
    BY <1>2 DEF InHand
  <2> QED
    BY <1>2, <2>1, HandEffect DEF OnceInv
<1>3. ASSUME NEW a, NEW i, NEW k, InOutput(m, a, i, k)' PROVE InOutput(m, a, i, k)
  <2>1. CASE outbox' = outbox
    BY <1>3, <2>1 DEF InOutput, Given
  <2>2. ASSUME NEW c, NEW x, x.kind # "private", outbox' = Write(c, PushOf(x))
        PROVE  InOutput(m, a, i, k)
    <3>1. Carried(PushOf(x)) = <<x>>
      BY DEF Carried, PushOf
    <3>2. k \in DOMAIN Carried(PushOf(x)) => Carried(PushOf(x))[k] = x
      BY <3>1
    <3> QED
      BY <1>3, <2>2, <3>2, OutputLonger
  <2> QED
    BY <2>1, <2>2
<1> QED
  BY <1>1, <1>2, <1>3 DEF Lies, Unmoved

\* handlePrivateChat puts its message in one place (server.cpp:316-327).
LEMMA MessageMade ==
    ASSUME ChatInv, AuthInv, OnceInv, [Next]_vars,
           NEW w \in Workers, HandlerStep(w), Forwards(w) \/ Stores(w), NEW m, m.kind = "private"
    PROVE  /\ Goes(m)
           /\ Known(m)' => Known(m) \/ m = Forward(w, "private", job[w].req.user)
<1> DEFINE M == Forward(w, "private", job[w].req.user)
<1>0. pc[w] \in PrivateSteps /\ outbox' = outbox
  BY DEF Forwards, Stores, PrivateSteps
<1>1. CASE m # M
  <2>1. ASSUME NEW a, NEW i, InPipe(m, a, i)' PROVE InPipe(m, a, i)
    <3>1. CASE Forwards(w)
      BY <1>1, <2>1, <3>1, PipeLonger DEF Forwards
    <3>2. CASE Stores(w)
      BY <2>1, <3>2 DEF Stores, InPipe
    <3> QED
      BY <3>1, <3>2
  <2>2. ASSUME NEW a, NEW i, InTable(m, a, i)' PROVE InTable(m, a, i)
    <3>1. CASE Forwards(w)
      BY <2>2, <3>1 DEF Forwards, InTable
    <3>2. CASE Stores(w)
      <4>1. offline' = offline \/ offline' = Stored(job[w].req.user, M)
        BY <3>2 DEF Stores
      <4>2. ASSUME NEW u, NEW x, offline' = offline \/ offline' = Stored(u, x), x # m
            PROVE  InTable(m, a, i)
        BY <2>2, <4>2, TableLonger
      <4> HIDE DEF M
      <4> QED
        BY <1>1, <4>1, <4>2
    <3> QED
      BY <3>1, <3>2
  <2>3. ASSUME NEW a, NEW i, NEW k, InOutput(m, a, i, k)' PROVE InOutput(m, a, i, k)
    BY <1>0, <2>3 DEF InOutput, Given
  <2>4. ASSUME NEW a, NEW k, InHand(m, a, k)' PROVE InHand(m, a, k)
    <3>1. a \in Workers
      BY <2>4 DEF InHand
    <3>2. ASSUME HandlerStep(a), pc[a] = "getOfflineMessages" PROVE FALSE
      <4>1. offline' = offline /\ pipe' = pipe /\ a # w
        BY <1>0, <3>1, <3>2, HandlerMoves DEF Forwards, Stores, Clears, Tells, Groups, PrivateSteps
      <4>2. pc'[w] = pc[w]
        BY <3>1, <3>2, <4>1, StepIsOwn
      <4> QED
        BY <4>2 DEF Forwards, Stores
    <3> QED
      BY <2>4, <3>1, <3>2, HandEffect DEF OnceInv
  <2>5. Unmoved(m)
    BY <2>1, <2>2, <2>3, <2>4 DEF Lies, Unmoved
  <2> QED
    BY <2>5, UnmovedGoes
<1>2. CASE m = M
  <2>0. \A p, a, i, k : ~Lies(m, p, a, i, k)
    BY <1>0, <1>2, FreshNowhere DEF OnceInv
  <2>1. ASSUME NEW a, NEW i, InPipe(m, a, i)'
        PROVE  pc[w] = "sendPrivate" /\ a = job[w].via /\ i = Len(pipe[job[w].via]) + 1
    <3>0. ~InPipe(m, a, i)
      BY <2>0 DEF Lies
    <3>1. CASE Forwards(w)
      BY <2>1, <3>0, <3>1, PipeLonger DEF Forwards
    <3>2. CASE Stores(w)
      BY <2>1, <3>0, <3>2 DEF Stores, InPipe
    <3> QED
      BY <3>1, <3>2
  <2>2. ASSUME NEW a, NEW k, InTable(m, a, k)'
        PROVE  /\ pc[w] = "storeOfflineMessage" /\ a = job[w].req.user
               /\ k = Len(offline[job[w].req.user]) + 1
    <3>0. ~InTable(m, a, k)
      BY <2>0 DEF Lies
    <3>1. CASE Forwards(w)
      BY <2>2, <3>0, <3>1 DEF Forwards, InTable
    <3>2. CASE Stores(w)
      <4>1. offline' = offline \/ offline' = Stored(job[w].req.user, M)
        BY <3>2 DEF Stores
      <4>2. ASSUME NEW u, NEW x, offline' = offline \/ offline' = Stored(u, x)
            PROVE  a = u /\ k = Len(offline[u]) + 1
        BY <2>2, <3>0, <4>2, TableLonger
      <4> HIDE DEF M
      <4>3. a = job[w].req.user /\ k = Len(offline[job[w].req.user]) + 1
        BY <4>1, <4>2
      <4> QED
        BY <3>2, <4>3 DEF Stores
    <3> QED
      BY <3>1, <3>2
  <2>3. ASSUME NEW a, NEW i, NEW k, InOutput(m, a, i, k)' PROVE FALSE
    <3>1. InOutput(m, a, i, k)
      BY <1>0, <2>3 DEF InOutput, Given
    <3> QED
      BY <2>0, <3>1 DEF Lies
  <2>4. ASSUME NEW a, NEW k, InHand(m, a, k)' PROVE FALSE
    <3>1. a \in Workers
      BY <2>4 DEF InHand
    <3>2. InHand(m, a, k) \/ \E b : InTable(m, b, k)
      BY <2>4, <3>1, HandEffect DEF OnceInv
    <3> QED
      BY <2>0, <3>2 DEF Lies
  <2> HIDE DEF M
  <2>5. \A p, q, a, b, i, j, k, l : Lies(m, p, a, i, k)' /\ Lies(m, q, b, j, l)' =>
          p = q /\ a = b /\ i = j /\ k = l
    BY <2>1, <2>2, <2>3, <2>4 DEF Lies
  <2>6. Apart(m)'
    BY <2>5 DEF Apart
  <2>7. Deleted(m)'
    BY <2>3, <2>4 DEF Deleted, InAnswer
  <2> QED
    BY <1>2, <2>6, <2>7 DEF Goes, M
<1> QED
  BY <1>1, <1>2

\* getOfflineMessages copies what is stored for the user who logs in.
LEMMA MessagesRead ==
    ASSUME ChatInv, AuthInv, OnceInv, [Next]_vars,
           NEW w \in Workers, HandlerStep(w), pc[w] = "getOfflineMessages",
           NEW m, m.kind = "private"
    PROVE  Goes(m) /\ (Known(m)' => Known(m))
<1>0. PICK u \in Users : u = job[w].req.user
  BY AtWork DEF Serving, LocalsOf, AccountSteps
<1>1. pipe' = pipe /\ offline' = offline /\ outbox' = outbox /\ job[w].off = <<>>
  BY HandlerMoves DEF Forwards, Stores, Clears, Tells, Groups, OnceInv, HandsRead
<1>2. ASSUME NEW a, NEW k, InHand(m, a, k)'
      PROVE  \/ a = w /\ InTable(m, u, k)
             \/ a # w /\ InHand(m, a, k)
  <2>1. a \in Workers
    BY <1>2 DEF InHand
  <2>2. CASE a = w
    <3>1. ~InHand(m, w, k)
      BY <1>1 DEF InHand
    <3> QED
      BY <1>0, <1>2, <2>2, <3>1, HandEffect DEF OnceInv
  <2>3. CASE a # w
    <3>1. pc'[a] = pc[a] /\ job'[a] = job[a]
      BY <2>1, <2>3, StepIsOwn
    <3> QED
      BY <1>2, <2>3, <3>1 DEF InHand
  <2> QED
    BY <2>2, <2>3
<1>3. \A p, a, i, k : Lies(m, p, a, i, k)' =>
        \/ p = "hand" /\ a = w /\ i = 1 /\ Lies(m, "table", u, 1, k)
        \/ Lies(m, p, a, i, k) /\ ~(p = "hand" /\ a = w)
  BY <1>1, <1>2 DEF Lies, InPipe, InTable, InOutput, Given
<1>4. \A a, i, k, b, l : /\ InAnswer(m, a, i, k)' => InAnswer(m, a, i, k)
                         /\ InTable(m, a, k)' => InTable(m, a, k)
  BY <1>1 DEF InAnswer, InOutput, Given, InTable
<1>5. Apart(m)
  BY DEF OnceInv, PrivateApart
<1>6. Apart(m)'
  <2> SUFFICES ASSUME NEW p, NEW q, NEW a, NEW b, NEW i, NEW j, NEW k, NEW l,
                      Lies(m, p, a, i, k)', Lies(m, q, b, j, l)'
               PROVE  \/ p = q /\ a = b /\ i = j /\ k = l
                      \/ Copied(p, a, i)' /\ Copied(q, b, j)' /\ ~(p = q /\ a = b /\ i = j)
    BY DEF Apart
  <2>1. \A r, d, n : Copied(r, d, n)' <=> Copied(r, d, n)
    BY <1>1 DEF Copied
  <2>2. Copied("hand", w, 1) /\ Copied("table", u, 1)
    BY DEF Copied
  <2>3. CASE /\ Lies(m, p, a, i, k) /\ ~(p = "hand" /\ a = w)
             /\ Lies(m, q, b, j, l) /\ ~(q = "hand" /\ b = w)
    BY <1>5, <2>1, <2>3 DEF Apart
  <2>4. CASE /\ p = "hand" /\ a = w /\ i = 1 /\ Lies(m, "table", u, 1, k)
             /\ q = "hand" /\ b = w /\ j = 1 /\ Lies(m, "table", u, 1, l)
    BY <1>5, <2>4 DEF Apart
  <2>5. ASSUME NEW r, NEW d, NEW n, NEW x, NEW y, Lies(m, "table", u, 1, x), Lies(m, r, d, n, y)
        PROVE  Copied(r, d, n)
    BY <1>5, <2>2, <2>5 DEF Apart
  <2>6. CASE /\ p = "hand" /\ a = w /\ i = 1 /\ Lies(m, "table", u, 1, k)
             /\ Lies(m, q, b, j, l) /\ ~(q = "hand" /\ b = w)
    BY <2>1, <2>2, <2>5, <2>6
  <2>7. CASE /\ q = "hand" /\ b = w /\ j = 1 /\ Lies(m, "table", u, 1, l)
             /\ Lies(m, p, a, i, k) /\ ~(p = "hand" /\ a = w)
    BY <2>1, <2>2, <2>5, <2>7
  <2> QED
    BY <1>3, <2>3, <2>4, <2>6, <2>7
<1>7. ASSUME DeletesDone PROVE Deleted(m)'
  BY <1>4, <1>7, StaysDeleted DEF OnceInv, PrivateDeleted
<1>8. Known(m)' => Known(m)
  BY <1>3 DEF Known
<1> QED
  BY <1>6, <1>7, <1>8 DEF Goes

\* sendToClient(clientFd, resp) moves on to the client what its login has read.
LEMMA MessagesTold ==
    ASSUME ChatInv, AuthInv, OnceInv, [Next]_vars,
           NEW w \in Workers, HandlerStep(w), Tells(w), NEW m, m.kind = "private"
    PROVE  Goes(m) /\ (Known(m)' => Known(m))
<1>0. PICK c \in Conns : c = ConnOf(w)
  BY AtWork DEF Tells
<1>a. PICK I : I = Len(outbox[c]) + 1
  OBVIOUS
<1>1. outbox[c] \in Seq(Reply \cup Push) /\ outbox' = Write(c, ReplyOf(w)) /\ ReplyOf(w).type = "reply"
  BY <1>0 DEF Tells, ReplyOf, ChatInv, TypeOK
<1>2. ASSUME NEW a, NEW k, InHand(m, a, k)'
      PROVE  /\ a # w /\ InHand(m, a, k) /\ ConnOf(a)' = ConnOf(a) /\ ConnOf(a) # c
             /\ pc'[a] = pc[a]
  <2>1. a \in Workers /\ pc[a] # "idle" /\ pc'[a] # "idle" /\ ConnOf(a)' = ConnOf(a)
    <3>1. a \in Workers
      BY <1>2 DEF InHand
    <3> QED
      BY <1>2, <3>1, HandEffect DEF OnceInv
  <2>2. a # w
    BY <2>1 DEF Tells
  <2>3. pc'[a] = pc[a] /\ job'[a] = job[a]
    BY <2>1, <2>2, StepIsOwn
  <2>4. ConnOf(a) # c
    BY <1>0, <2>1, <2>2, OneHandler DEF Handling, Tells
  <2> QED
    BY <1>2, <2>1, <2>2, <2>3, <2>4 DEF InHand
<1>3. ASSUME NEW a, NEW i, NEW k, InOutput(m, a, i, k)'
      PROVE  \/ InOutput(m, a, i, k)
             \/ a = c /\ i = I /\ InHand(m, w, k)
  <2>1. Carried(ReplyOf(w)) = job[w].off
    BY DEF Carried, ReplyOf
  <2>2. DOMAIN job[w].off = 1 .. Len(job[w].off)
    BY DEF ChatInv, TypeOK, Job
  <2> QED
    BY <1>1, <1>3, <1>a, <2>1, <2>2, OutputLonger DEF InHand
<1>4. /\ pipe' = pipe /\ offline' = offline
      /\ \A i, k : ~InOutput(m, c, I, k)
  BY <1>1, <1>a DEF Tells, InOutput
<1>5. Copied("output", c, I)'
  <2>1. outbox'[c] = Append(outbox[c], ReplyOf(w))
    BY <1>0, <1>1 DEF Write, ChatInv, TypeOK
  <2>2. outbox'[c][I] = ReplyOf(w)
    BY <1>1, <1>a, <2>1
  <2> QED
    BY <1>1, <2>2 DEF Copied
<1>6. \A p, a, i, k : Lies(m, p, a, i, k)' =>
        \/ p = "output" /\ a = c /\ i = I /\ Lies(m, "hand", w, 1, k)
        \/ Lies(m, p, a, i, k) /\ ~(p = "hand" /\ a = w) /\ ~(p = "output" /\ a = c /\ i = I)
  BY <1>2, <1>3, <1>4 DEF Lies, InPipe, InTable
<1>7. Apart(m)
  BY DEF OnceInv, PrivateApart
<1>8. Apart(m)'
  <2> SUFFICES ASSUME NEW p, NEW q, NEW a, NEW b, NEW i, NEW j, NEW k, NEW l,
                      Lies(m, p, a, i, k)', Lies(m, q, b, j, l)'
               PROVE  \/ p = q /\ a = b /\ i = j /\ k = l
                      \/ Copied(p, a, i)' /\ Copied(q, b, j)' /\ ~(p = q /\ a = b /\ i = j)
    BY DEF Apart
  <2>1. /\ Lies(m, p, a, i, k) => (Copied(p, a, i)' <=> Copied(p, a, i))
        /\ Lies(m, q, b, j, l) => (Copied(q, b, j)' <=> Copied(q, b, j))
    BY CopiedStays
  <2>3. CASE Lies(m, p, a, i, k) /\ Lies(m, q, b, j, l)
    BY <1>7, <2>1, <2>3 DEF Apart
  <2>4. CASE /\ p = "output" /\ a = c /\ i = I /\ Lies(m, "hand", w, 1, k)
             /\ q = "output" /\ b = c /\ j = I /\ Lies(m, "hand", w, 1, l)
    BY <1>7, <2>4 DEF Apart
  <2>5. ASSUME NEW r, NEW d, NEW n, NEW x, NEW y, ~(r = "hand" /\ d = w),
               Lies(m, "hand", w, 1, x), Lies(m, r, d, n, y)
        PROVE  Copied(r, d, n)
    BY <1>7, <2>5 DEF Apart
  <2>6. CASE /\ p = "output" /\ a = c /\ i = I /\ Lies(m, "hand", w, 1, k)
             /\ Lies(m, q, b, j, l) /\ ~(q = "hand" /\ b = w) /\ ~(q = "output" /\ b = c /\ j = I)
    BY <1>5, <2>1, <2>5, <2>6
  <2>7. CASE /\ q = "output" /\ b = c /\ j = I /\ Lies(m, "hand", w, 1, l)
             /\ Lies(m, p, a, i, k) /\ ~(p = "hand" /\ a = w) /\ ~(p = "output" /\ a = c /\ i = I)
    BY <1>5, <2>1, <2>5, <2>7
  <2> QED
    BY <1>6, <2>3, <2>4, <2>6, <2>7
<1>9. ASSUME DeletesDone PROVE Deleted(m)'
  <2>0. Deleted(m) /\ pc[w] = "reply"
    BY <1>9 DEF OnceInv, PrivateDeleted, Tells
  <2>1. ASSUME NEW a, NEW i, NEW k, InAnswer(m, a, i, k)'
        PROVE  \/ InAnswer(m, a, i, k)
               \/ a = c /\ i = I /\ InHand(m, w, k)
    <3>1. CASE InOutput(m, a, i, k)
      <4>1. Lies(m, "output", a, i, k) /\ Copied("output", a, i)'
        BY <2>1, <3>1 DEF Lies, InAnswer, Copied
      <4>2. Copied("output", a, i)
        BY <4>1, CopiedStays
      <4> QED
        BY <3>1, <4>2 DEF InAnswer, Copied
    <3> QED
      BY <1>3, <2>1, <3>1 DEF InAnswer
  <2>2. ASSUME NEW a, NEW i, NEW k, NEW b, NEW l, InAnswer(m, a, i, k)', InTable(m, b, l)'
        PROVE  FALSE
    <3>1. InTable(m, b, l)
      BY <1>4, <2>2 DEF InTable
    <3> QED
      BY <2>0, <2>1, <2>2, <3>1 DEF Deleted
  <2>3. ASSUME NEW a, NEW k, NEW b, NEW l, InHand(m, a, k)', pc'[a] = "reply", InTable(m, b, l)'
        PROVE  FALSE
    <3>1. InTable(m, b, l)
      BY <1>4, <2>3 DEF InTable
    <3>2. InHand(m, a, k) /\ pc[a] = "reply"
      BY <1>2, <2>3
    <3> QED
      BY <2>0, <3>1, <3>2 DEF Deleted
  <2>4. ASSUME NEW a, NEW i, NEW k, NEW b, NEW l, InAnswer(m, a, i, k)', InHand(m, b, l)'
        PROVE  ConnOf(b)' # a
    <3>1. InHand(m, b, l) /\ ConnOf(b)' = ConnOf(b) /\ ConnOf(b) # c
      BY <1>2, <2>4
    <3> QED
      BY <2>0, <2>1, <2>4, <3>1 DEF Deleted
  <2>5. ASSUME NEW a, NEW i, NEW j, NEW k, NEW l, InAnswer(m, a, i, k)', InAnswer(m, a, j, l)'
        PROVE  i = j
    <3>1. ASSUME NEW n, NEW x, NEW y, InHand(m, w, x), InAnswer(m, c, n, y) PROVE FALSE
      BY <1>0, <2>0, <3>1 DEF Deleted
    <3> QED
      BY <2>0, <2>1, <2>5, <3>1 DEF Deleted
  <2> QED
    BY <2>2, <2>3, <2>4, <2>5 DEF Deleted
<1>10. Known(m)' => Known(m)
  BY <1>6 DEF Known
<1> QED
  BY <1>8, <1>9, <1>10 DEF Goes

\* handleNotify takes a record off the socketpair and passes on what it carries.
LEMMA MessagePassed ==
    ASSUME ChatInv, AuthInv, OnceInv, [Next]_vars,
           NEW w \in Workers, AddClient(w) \/ RefuseClient(w) \/ DeliverNote(w),
           NEW m, m.kind = "private"
    PROVE  Goes(m) /\ (Known(m)' => Known(m))
<1>0. /\ pipe[w] # <<>> /\ pipe' = [pipe EXCEPT ![w] = Tail(@)]
      /\ offline' = offline /\ pc' = pc /\ job' = job
      /\ pipe \in [Workers -> Seq(Note)]
  BY DEF AddClient, RefuseClient, DeliverNote, HandleAdd, RefuseAdd, HandleSend, dbVars, ctlVars,
         ChatInv, TypeOK, ConnTypeOK
<1>1. ASSUME NEW a, NEW k, InHand(m, a, k)' PROVE InHand(m, a, k)
  BY <1>0, <1>1 DEF InHand
<1>2. ASSUME NEW a, NEW i, InPipe(m, a, i)'
      PROVE  \/ a = w /\ i \in Nat \ {0} /\ InPipe(m, w, i + 1)
             \/ a # w /\ InPipe(m, a, i)
  <2>1. a \in Workers /\ i \in 1 .. Len(pipe'[a]) /\ pipe'[a][i].type = "s" /\ pipe'[a][i].msg = m
    BY <1>2 DEF InPipe
  <2>2. CASE a # w
    BY <1>0, <2>1, <2>2 DEF InPipe
  <2>3. CASE a = w
    <3>1. pipe'[w] = Tail(pipe[w]) /\ pipe[w] \in Seq(Note)
      BY <1>0
    <3>2. i + 1 \in 1 .. Len(pipe[w]) /\ pipe'[w][i] = pipe[w][i + 1] /\ i \in Nat \ {0}
      BY <1>0, <2>1, <2>3, <3>1
    <3> QED
      BY <2>1, <2>3, <3>2 DEF InPipe
  <2> QED
    BY <2>2, <2>3
<1>3. ASSUME NEW a, NEW i, InTable(m, a, i)' PROVE InTable(m, a, i)
  BY <1>0, <1>3 DEF InTable
<1>4. PICK c, x : outbox' = outbox \/ (InPipe(x, w, 1) /\ outbox' = Write(c, PushOf(x)))
  <2>1. CASE outbox' = outbox
    BY <2>1
  <2>2. CASE DeliverNote(w) /\ outbox' # outbox
    <3>1. Head(pipe[w]).type = "s"
      BY <2>2 DEF DeliverNote, HandleSend
    <3>2. InPipe(Head(pipe[w]).msg, w, 1)
      BY <1>0, <3>1 DEF InPipe
    <3>3. \E c : outbox' = Write(c, PushOf(Head(pipe[w]).msg))
      BY <2>2 DEF DeliverNote, Delivered
    <3> QED
      BY <3>2, <3>3
  <2> QED
    BY <2>1, <2>2 DEF AddClient, RefuseClient, ioVars
<1>5. ASSUME NEW a, NEW i, NEW k, InOutput(m, a, i, k)'
      PROVE  \/ InOutput(m, a, i, k)
             \/ a = c /\ i = Len(outbox[c]) + 1 /\ k = 1 /\ InPipe(m, w, 1)
  <2>1. CASE outbox' = outbox
    BY <1>5, <2>1 DEF InOutput, Given
  <2>2. CASE InPipe(x, w, 1) /\ outbox' = Write(c, PushOf(x))
    <3>1. Carried(PushOf(x)) = <<x>>
      BY DEF Carried, PushOf
    <3>2. k \in DOMAIN Carried(PushOf(x)) => k = 1 /\ Carried(PushOf(x))[k] = x
      BY <3>1
    <3> QED
      BY <1>5, <2>2, <3>2, OutputLonger
  <2> QED
    BY <1>4, <2>1, <2>2
<1>6. \A p, a, i, k : Lies(m, p, a, i, k)' =>
        \/ p = "output" /\ a = c /\ i = Len(outbox[c]) + 1 /\ k = 1 /\ Lies(m, "pipe", w, 1, 1)
        \/ p = "pipe" /\ a = w /\ k = 1 /\ i \in Nat \ {0} /\ Lies(m, "pipe", w, i + 1, 1)
        \/ Lies(m, p, a, i, k) /\ ~(p = "pipe" /\ a = w)
  BY <1>1, <1>2, <1>3, <1>5 DEF Lies
<1>7. Apart(m)
  BY DEF OnceInv, PrivateApart
\* What lies in a socketpair lies nowhere else.
<1>8. ASSUME NEW i, Lies(m, "pipe", w, i, 1), NEW q, NEW b, NEW j, NEW l, Lies(m, q, b, j, l)
      PROVE  q = "pipe" /\ b = w /\ j = i /\ l = 1
  <2>1. ~Copied("pipe", w, i)
    BY DEF Copied
  <2> QED
    BY <1>7, <1>8, <2>1 DEF Apart
<1>9. Apart(m)'
  <2> SUFFICES ASSUME NEW p, NEW q, NEW a, NEW b, NEW i, NEW j, NEW k, NEW l,
                      Lies(m, p, a, i, k)', Lies(m, q, b, j, l)'
               PROVE  \/ p = q /\ a = b /\ i = j /\ k = l
                      \/ Copied(p, a, i)' /\ Copied(q, b, j)' /\ ~(p = q /\ a = b /\ i = j)
    BY DEF Apart
  <2>1. CASE p = "pipe" /\ a = w /\ k = 1 /\ i \in Nat \ {0} /\ Lies(m, "pipe", w, i + 1, 1)
    BY <1>6, <1>8, <2>1
  <2>2. CASE p = "output" /\ a = c /\ i = Len(outbox[c]) + 1 /\ k = 1 /\ Lies(m, "pipe", w, 1, 1)
    BY <1>6, <1>8, <2>2
  <2>3. CASE Lies(m, p, a, i, k) /\ ~(p = "pipe" /\ a = w)
    <3>1. Lies(m, q, b, j, l)
      BY <1>6, <1>8, <2>3
    <3> QED
      BY <1>7, <2>3, <3>1, CopiedStays DEF Apart
  <2> QED
    BY <1>6, <2>1, <2>2, <2>3
<1>10. ASSUME NEW a, NEW i, NEW k, InAnswer(m, a, i, k)' PROVE InAnswer(m, a, i, k)
  <2>1. outbox'[a][i].type = "reply" /\ a \in Conns /\ outbox[a] \in Seq(Reply \cup Push)
    BY <1>10 DEF InAnswer, InOutput, ChatInv, TypeOK
  <2>2. CASE InOutput(m, a, i, k)
    <3>1. Lies(m, "output", a, i, k) /\ Copied("output", a, i)'
      BY <1>10, <2>2 DEF Lies, InAnswer, Copied
    <3>2. Copied("output", a, i)
      BY <3>1, CopiedStays
    <3> QED
      BY <2>2, <3>2 DEF InAnswer, Copied
  <2>3. CASE ~InOutput(m, a, i, k)
    <3>1. a = c /\ i = Len(outbox[c]) + 1 /\ outbox' # outbox
      BY <1>5, <1>10, <2>3 DEF InAnswer, InOutput, Given
    <3>2. outbox'[c] = Append(outbox[c], PushOf(x))
      BY <1>4, <2>1, <3>1 DEF Write, ChatInv, TypeOK
    <3>3. outbox'[a][i] = PushOf(x)
      BY <2>1, <3>1, <3>2
    <3> QED
      BY <2>1, <3>3 DEF PushOf
  <2> QED
    BY <2>2, <2>3
<1>11. ASSUME DeletesDone PROVE Deleted(m)'
  BY <1>3, <1>10, <1>11, StaysDeleted DEF OnceInv, PrivateDeleted
<1>12. Known(m)' => Known(m)
  BY <1>6 DEF Known
<1> QED
  BY <1>9, <1>11, <1>12 DEF Goes

\* What any step does to private messages.
LEMMA MessagesMove ==
    ASSUME ChatInv, AuthInv, OnceInv, [Next]_vars, NEW m, m.kind = "private"
    PROVE  /\ Goes(m)
           /\ Known(m)' =>
                \/ Known(m)
                \/ \E w \in Workers : /\ HandlerStep(w) /\ pc[w] \in PrivateSteps /\ pc'[w] = "reply"
                                      /\ m = Forward(w, "private", job[w].req.user)
<1> DEFINE Goal == /\ Goes(m)
                   /\ Known(m)' =>
                        \/ Known(m)
                        \/ \E w \in Workers :
                             /\ HandlerStep(w) /\ pc[w] \in PrivateSteps /\ pc'[w] = "reply"
                             /\ m = Forward(w, "private", job[w].req.user)
<1>0. pc \in [Workers -> Labels]
  BY DEF ChatInv, TypeOK
<1>1. ASSUME Unmoved(m) PROVE Goal
  BY <1>1, UnmovedGoes
<1>2. ASSUME Die PROVE Goal
  <2>1. /\ \A a \in Workers : pipe'[a] = <<>> /\ job'[a].off = <<>>
        /\ offline' = offline /\ outbox' = outbox
    BY <1>2 DEF Die, Crash, dbVars, ioVars, IdleJob
  <2>2. \A p, a, i, k : Lies(m, p, a, i, k)' => Lies(m, p, a, i, k)
    BY <2>1 DEF Lies, InPipe, InTable, InHand, InOutput, Given
  <2> QED
    BY <1>1, <2>2 DEF Unmoved
<1>a. ASSUME offline' = offline PROVE \A a, k : InTable(m, a, k)' => InTable(m, a, k)
  BY <1>a DEF InTable
<1>3. ASSUME MainStep \/ UNCHANGED vars, ~(\E v \in Workers : HandlerStep(v)) PROVE Goal
  <2>1. \/ pipe' = pipe
        \/ \E v, note : pipe' = Enqueue(v, note) /\ note.type = "c"
    <3>1. ASSUME NEW d \in Conns, Accept(d)
          PROVE  \E v, note : pipe' = Enqueue(v, note) /\ note.type = "c"
      <4>1. PICK fd : pipe' = Enqueue(nextWorkerIndex, [type |-> "c", fd |-> fd])
        BY <3>1 DEF Accept
      <4>2. [type |-> "c", fd |-> fd].type = "c"
        OBVIOUS
      <4> QED
        BY <4>1, <4>2
    <3> QED
      BY <1>3, <3>1 DEF MainStep, RegisterFd, Start, vars, connVars
  <2>2. offline' = offline /\ outbox' = outbox
    BY <1>3 DEF MainStep, vars, dbVars, ioVars
  <2>3. \/ pipe' = pipe
        \/ \E v, note : pipe' = Enqueue(v, note) /\ (note.type = "s" => note.msg.kind # "private")
    BY <2>1
  <2>4. Unmoved(m)
    BY <1>3, <1>a, <2>2, <2>3, NothingMoves
  <2> QED
    BY <1>1, <2>4
<1>4. ASSUME NEW w \in Workers, Take(w) \/ \E fd \in Fds : Disconnect(w, fd),
             ~(\E v \in Workers : HandlerStep(v))
      PROVE  Goal
  <2>1. pipe' = pipe /\ offline' = offline /\ outbox' = outbox
    BY <1>4 DEF Take, HandleRegister, HandleLogin, HandleGetFriends, HandlePrivateChat,
       HandleGroupChat, HandleLogout, Disconnect, RemoveClient, connVars, dbVars, ioVars
  <2>2. Unmoved(m)
    BY <1>4, <1>a, <2>1, NothingMoves
  <2> QED
    BY <1>1, <2>2
<1>5. ASSUME NEW w \in Workers, AddClient(w) \/ RefuseClient(w) \/ DeliverNote(w) PROVE Goal
  BY <1>5, MessagePassed
<1>6. ASSUME NEW w \in Workers, HandlerStep(w) PROVE Goal
  <2>1. CASE Forwards(w) \/ Stores(w)
    <3>1. pc[w] \in PrivateSteps /\ pc'[w] = "reply"
      BY <2>1 DEF Forwards, Stores, PrivateSteps
    <3> QED
      BY <1>6, <2>1, <3>1, MessageMade
  <2>2. CASE \E v \in Workers : HandlerStep(v) /\ pc[v] = "getOfflineMessages"
    BY <2>2, MessagesRead
  <2>3. CASE Tells(w)
    BY <1>6, <2>3, MessagesTold
  <2>4. CASE /\ Clears(w)
             /\ \A v \in Workers : HandlerStep(v) => pc[v] # "getOfflineMessages"
    <3>1. \A a, k : InTable(m, a, k)' => InTable(m, a, k)
      <4>1. CASE offline' = offline
        BY <1>a, <4>1
      <4>2. CASE offline' = Cleared(job[w].req.user)
        BY <4>2 DEF Cleared, InTable, ChatInv, TypeOK
      <4> QED
        BY <2>4, <4>1, <4>2 DEF Clears
    <3>2. Unmoved(m)
      BY <2>4, <3>1, NothingMoves DEF Clears
    <3> QED
      BY <1>1, <3>2
  <2>5. CASE /\ Groups(w)
             /\ \A v \in Workers : HandlerStep(v) => pc[v] # "getOfflineMessages"
    <3>1. Forward(w, "group", NoUser).kind # "private"
      BY DEF Forward
    <3>2. \/ pipe' = pipe
          \/ \E v, note : pipe' = Enqueue(v, note) /\ (note.type = "s" => note.msg.kind # "private")
      <4>1. ASSUME NEW v, NEW fd,
                   pipe' = Enqueue(v, [type |-> "s", fd |-> fd, msg |-> Forward(w, "group", NoUser)])
            PROVE  \E x, note : pipe' = Enqueue(x, note) /\ (note.type = "s" => note.msg.kind # "private")
        <5> DEFINE n == [type |-> "s", fd |-> fd, msg |-> Forward(w, "group", NoUser)]
        <5>1. n.msg.kind # "private"
          BY <3>1
        <5> HIDE DEF n
        <5>2. pipe' = Enqueue(v, n)
          BY <4>1 DEF n
        <5> QED
          BY <5>1, <5>2
      <4> QED
        BY <2>5, <4>1 DEF Groups
    <3>3. \/ outbox' = outbox
          \/ \E c, x : x.kind # "private" /\ outbox' = Write(c, PushOf(x))
      BY <2>5, <3>1 DEF Groups
    <3>4. offline' = offline
      BY <2>5 DEF Groups
    <3>5. Unmoved(m)
      BY <1>a, <2>5, <3>2, <3>3, <3>4, NothingMoves
    <3> QED
      BY <1>1, <3>5
  <2>6. CASE /\ pipe' = pipe /\ offline' = offline /\ outbox' = outbox
             /\ \A v \in Workers : HandlerStep(v) => pc[v] # "getOfflineMessages"
    <3>1. Unmoved(m)
      BY <1>a, <2>6, NothingMoves
    <3> QED
      BY <1>1, <3>1
  <2> QED
    BY <1>6, <2>1, <2>2, <2>3, <2>4, <2>5, <2>6, HandlerMoves
<1> HIDE DEF Goal
<1>7. Goal
  <2>1. CASE \E v \in Workers : HandlerStep(v)
    BY <1>6, <2>1
  <2>2. CASE ~(\E v \in Workers : HandlerStep(v))
    <3>1. CASE MainStep \/ UNCHANGED vars
      BY <1>3, <2>2, <3>1
    <3>2. ASSUME NEW v \in Workers, Take(v) PROVE Goal
      BY <1>4, <2>2, <3>2
    <3>3. ASSUME NEW v \in Workers, NEW fd \in Fds, Disconnect(v, fd) PROVE Goal
      BY <1>4, <2>2, <3>3
    <3> QED
      BY <1>2, <1>5, <2>2, <3>1, <3>2, <3>3 DEF Next
  <2> QED
    BY <2>1, <2>2
<1> QED
  BY <1>7 DEF Goal

\* Requests grow older.
LEMMA CountedKept ==
    ASSUME ChatInv, [Next]_vars, NEW m, Counted(m)
    PROVE  Counted(m)'
<1> DEFINE c == m.conn
<1>0. /\ m \in Message /\ c \in Conns /\ m.n \in Nat /\ m.n <= Len(asked[c])
      /\ asked[c] \in Seq(Request)
  BY DEF Counted, Message, ChatInv, TypeOK
<1> HIDE DEF c
<1>1. CASE asked'[c] = asked[c]
  <2> SUFFICES ASSUME NEW w \in Workers, pc'[w] \in PrivateSteps, ConnOf(w)' = c
               PROVE  m.n < NumberOf(w)'
    BY <1>0, <1>1 DEF Counted, c
  <2>1. Handling(w, c)' /\ ~Die
    BY DEF Handling, PrivateSteps, Die
  <2>2. Handling(w, c) /\ NumberOf(w)' = NumberOf(w) /\ pc[w] # "idle" /\ ConnOf(w) = c
    BY <1>0, <1>1, <2>1, WasHandling DEF Handling
  <2>3. ~Take(w) /\ pc'[w] # "idle"
    BY <2>2, TakeBegins DEF Begins, PrivateSteps
  <2>4. pc[w] \in PrivateSteps
    BY <2>1, <2>3, WhoMoves, StepSpeaks
  <2> QED
    BY <2>2, <2>4 DEF Counted, c
<1>2. CASE asked'[c] # asked[c]
  <2>1. PICK r : asked'[c] = Append(asked[c], r)
    BY <1>0, <1>2, WhoAsks
  <2>2. Len(asked'[c]) = Len(asked[c]) + 1
    BY <1>0, <2>1
  <2>3. ASSUME NEW w \in Workers, ConnOf(w)' = c PROVE m.n < NumberOf(w)'
    <3>1. NumberOf(w)' = Len(asked'[c])
      BY <2>3 DEF NumberOf
    <3> QED
      BY <1>0, <2>2, <3>1
  <2>4. m.n <= Len(asked'[c])
    BY <1>0, <2>2
  <2> QED
    BY <1>0, <2>3, <2>4 DEF Counted, c
<1> QED
  BY <1>1, <1>2

LEMMA FreshCounted ==
    ASSUME ChatInv, [Next]_vars, NEW w \in Workers, HandlerStep(w), pc[w] \in PrivateSteps,
           pc'[w] = "reply", NEW m, m = Forward(w, "private", job[w].req.user)
    PROVE  Counted(m)'
<1>1. pc[w] # "idle" /\ job[w].from # NoUser /\ job[w].req.user \in Users
  BY AtWork DEF PrivateSteps, Serving, LocalsOf, SessionSteps
<1>2. m \in Message /\ m.conn = ConnOf(w) /\ m.n = NumberOf(w)
  BY <1>1, ForwardType DEF Forward
<1>3. asked' = asked /\ NumberOf(w) = Len(asked[ConnOf(w)]) /\ NumberOf(w) \in Nat /\ ConnOf(w) \in Conns
  BY <1>1, StepAsksNone, AtWork
<1>4. ASSUME NEW v \in Workers, pc'[v] \in PrivateSteps, ConnOf(v)' = m.conn PROVE FALSE
  <2>1. Handling(v, ConnOf(w))
    <3>1. PICK c \in Conns : c = ConnOf(w)
      BY <1>3
    <3>2. Handling(v, c)'
      BY <1>2, <1>4, <3>1 DEF Handling, PrivateSteps
    <3> QED
      BY <1>3, <3>1, <3>2, WasHandling
  <2>2. v = w
    BY <1>1, <2>1, OneHandler DEF Handling
  <2> QED
    BY <1>4, <2>2 DEF PrivateSteps
<1> QED
  BY <1>2, <1>3, <1>4 DEF Counted

\* What a login has in hand it has read at its end, and it is for its user.
LEMMA HandsReadKept ==
    ASSUME ChatInv, AuthInv, HandsRead, [Next]_vars
    PROVE  HandsRead'
<1>0. ChatInv'
  BY ChatStep
<1> SUFFICES ASSUME NEW w \in Workers
             PROVE  /\ pc'[w] \notin {"clearOfflineMessages", "reply"} => job'[w].off = <<>>
                    /\ \A k \in 1 .. Len(job'[w].off) : job'[w].off[k].to = job'[w].req.user
  BY DEF HandsRead
<1>1. ASSUME NEW k \in 1 .. Len(job'[w].off)
      PROVE  /\ pc'[w] \in {"clearOfflineMessages", "reply"}
             /\ job'[w].off[k].to = job'[w].req.user
  <2>1. PICK m : m = job'[w].off[k]
    OBVIOUS
  <2>2. InHand(m, w, k)'
    BY <2>1 DEF InHand
  <2>3. job'[w].req = job[w].req \/ job'[w].off = <<>>
    <3>1. (~Die /\ ~Take(w)) \/ job'[w].off = <<>>
      BY TakeEffect DEF Die, IdleJob
    <3>2. CASE ~HandlerStep(w)
      BY <3>1, <3>2, WhoMoves
    <3>3. CASE HandlerStep(w)
      BY <3>3, StepEffect, StepEnds DEF IdleJob
    <3> QED
      BY <3>2, <3>3
  <2>4. job'[w].req = job[w].req
    BY <2>3
  <2>5. CASE InHand(m, w, k)
    <3>1. job[w].off # <<>> /\ m.to = job[w].req.user
      BY <2>5 DEF InHand, HandsRead
    <3>2. pc[w] \in {"clearOfflineMessages", "reply"}
      BY <3>1 DEF HandsRead
    <3> QED
      BY <2>1, <2>2, <2>4, <3>1, <3>2, HandEffect
  <2>6. CASE ~InHand(m, w, k)
    <3>1. pc'[w] = "clearOfflineMessages" /\ InTable(m, job[w].req.user, k)
      BY <2>2, <2>6, HandEffect
    <3>2. PICK u \in Users : u = job[w].req.user /\ k \in 1 .. Len(offline[u]) /\ offline[u][k] = m
      BY <3>1 DEF InTable
    <3>3. k \in DOMAIN offline[u]
      BY <3>2 DEF ChatInv, TypeOK
    <3>4. m.to = u
      BY <3>2, <3>3 DEF AuthInv, StoredForUser
    <3> QED
      BY <2>1, <2>4, <3>1, <3>2, <3>4
  <2> QED
    BY <2>5, <2>6
<1>2. ASSUME job'[w].off # <<>> PROVE 1 \in 1 .. Len(job'[w].off)
  <2>1. job'[w].off \in Seq(Message)
    BY <1>0 DEF ChatInv, TypeOK, Job
  <2> QED
    BY <1>2, <2>1
<1> QED
  BY <1>1, <1>2

LEMMA OnceInit == Init => OnceInv
<1> SUFFICES ASSUME Init PROVE OnceInv
  OBVIOUS
<1>1. /\ \A w \in Workers : pipe[w] = <<>> /\ pc[w] = "idle" /\ job[w].off = <<>>
      /\ \A u \in Users : offline[u] = <<>>
      /\ \A c \in Conns : outbox[c] = <<>>
  BY DEF Init, ConnInit, IdleJob
<1>2. \A m, a, i, k : ~InPipe(m, a, i) /\ ~InTable(m, a, k) /\ ~InHand(m, a, k) /\ ~InOutput(m, a, i, k)
  BY <1>1 DEF InPipe, InTable, InHand, InOutput
<1>3. \A m, p, a, i, k : ~Lies(m, p, a, i, k)
  BY <1>2 DEF Lies
<1> QED
  BY <1>1, <1>2, <1>3 DEF OnceInv, PrivateApart, PrivateDeleted, PrivateCounted, HandsRead, Apart,
                          Deleted, InAnswer

LEMMA OnceStep == ChatInv /\ AuthInv /\ OnceInv /\ [Next]_vars => OnceInv'
<1> SUFFICES ASSUME ChatInv, AuthInv, OnceInv, [Next]_vars PROVE OnceInv'
  OBVIOUS
<1>1. HandsRead'
  BY HandsReadKept DEF OnceInv
<1>2. PrivateApart' /\ PrivateDeleted'
  <2>1. \A m : m.kind = "private" => Goes(m)
    BY MessagesMove
  <2>2. DeletesDone' = DeletesDone
    BY DEF DeletesDone
  <2> QED
    BY <2>1, <2>2 DEF Goes, PrivateApart, PrivateDeleted
<1>3. ASSUME NEW m, m.kind = "private", Known(m)' PROVE Counted(m)'
  <2>1. CASE Known(m)
    <3>1. Counted(m)
      BY <1>3, <2>1 DEF OnceInv, PrivateCounted, Known
    <3> QED
      BY <3>1, CountedKept
  <2>2. ASSUME NEW w \in Workers, HandlerStep(w), pc[w] \in PrivateSteps, pc'[w] = "reply",
               m = Forward(w, "private", job[w].req.user)
        PROVE  Counted(m)'
    BY <2>2, FreshCounted
  <2> QED
    BY <1>3, <2>1, <2>2, MessagesMove
<1>4. PrivateCounted'
  BY <1>3 DEF PrivateCounted, Known
<1> QED
  BY <1>1, <1>2, <1>4 DEF OnceInv

\* AtMostOnce: however many connections a user has, however socketpairs fill up,
\* descriptors are reused, queries fail and processes die, a private message is given
\* once; only two logins may each get it in their answers, and two of one connection
\* only where the DELETE that follows the SELECT can fail (database.cpp:280-281).
THEOREM AtMostOnceHolds == Spec => []AtMostOnce
<1>1. ChatInv /\ OnceInv => AtMostOnce
  <2> SUFFICES ASSUME ChatInv, OnceInv, NEW c \in Conns, NEW d \in Conns,
                      NEW i \in DOMAIN outbox[c], NEW j \in DOMAIN outbox[d],
                      NEW k \in DOMAIN Given(c, i), NEW l \in DOMAIN Given(d, j),
                      Given(c, i)[k].kind = "private", Given(c, i)[k] = Given(d, j)[l]
               PROVE  \/ c = d /\ i = j /\ k = l
                      \/ /\ i \in Answers(c) /\ j \in Answers(d)
                         /\ c # d \/ (i # j /\ ~DeletesDone)
    BY DEF AtMostOnce, DeletesDone
  <2> DEFINE m == Given(c, i)[k]
  <2>1. outbox[c] \in Seq(Reply \cup Push) /\ outbox[d] \in Seq(Reply \cup Push)
    BY DEF ChatInv, TypeOK
  <2>2. i \in 1 .. Len(outbox[c]) /\ j \in 1 .. Len(outbox[d])
    BY <2>1
  <2>3. InOutput(m, c, i, k) /\ InOutput(m, d, j, l)
    BY <2>2 DEF InOutput
  <2>4. Apart(m) /\ (DeletesDone => Deleted(m))
    BY DEF OnceInv, PrivateApart, PrivateDeleted
  <2> HIDE DEF m
  <2>5. \/ c = d /\ i = j /\ k = l
        \/ Copied("output", c, i) /\ Copied("output", d, j) /\ ~(c = d /\ i = j)
    BY <2>3, <2>4 DEF Apart, Lies
  <2>6. ASSUME Copied("output", c, i), Copied("output", d, j)
        PROVE  /\ i \in Answers(c) /\ j \in Answers(d)
               /\ InAnswer(m, c, i, k) /\ InAnswer(m, d, j, l)
    BY <2>3, <2>6 DEF Copied, Answers, InAnswer
  <2>7. ASSUME DeletesDone, InAnswer(m, c, i, k), InAnswer(m, d, j, l), c = d PROVE i = j
    BY <2>4, <2>7 DEF Deleted
  <2> QED
    BY <2>5, <2>6, <2>7
<1> QED
  BY <1>1, OnceInit, OnceStep, AuthHolds, PTL DEF Spec

-----------------------------------------------------------------------------
(* What one connection sends, another is pushed in order. *)

\* One connection only may have descriptor fd.
Sole(fd) == \A c, d \in Conns : fd \in FdsFor[c] /\ fd \in FdsFor[d] => c = d

LEMMA AloneSole ==
    ASSUME NEW c \in Conns, Alone(c)
    PROVE  \A fd \in FdsFor[c] : Sole(fd)
BY DEF Alone, Sole

\* The i-th packet sent to c pushes message m; m is in the i-th record that waits for
\* worker w, to be written to the descriptor that c has.
PushedTo(m, c, i)    == /\ i \in 1 .. Len(outbox[c])
                        /\ outbox[c][i].type = "push" /\ outbox[c][i].msg = m
WaitsFor(m, c, w, i) == /\ i \in 1 .. Len(pipe[w])
                        /\ pipe[w][i].type = "s" /\ pipe[w][i].msg = m
                        /\ sock[pipe[w][i].fd] = c

\* Message m has been sent on its way to c.
Toward(m, c) == \/ \E i : PushedTo(m, c, i)
                \/ \E w \in Workers : \E i : WaitsFor(m, c, w, i)

\* Somebody has logged in on descriptor fd.
Spoken(fd) == \E u \in Users : Speaks(fd, u)

\* The steps in which a chat handler may still send; in some of them it has looked up
\* the descriptor it sends to.
TalkSteps == PrivateSteps \cup GroupSteps \cup {"listGroup"}
AimSteps  == {"routePrivate", "sendPrivate", "routeMember", "sendMember"}

\* Message m was made by the request that worker v is still working on.
Current(v, m) == pc[v] \in TalkSteps /\ ConnOf(v) = m.conn /\ NumberOf(v) <= m.n

\* A descriptor gets a route once, when its connection has been accepted.
RoutedOnce == \A fd \in Fds : Sole(fd) =>
    /\ fdToWorker[fd] # NoWorker \/ main.fd = fd => \E c \in accepted : fd \in FdsFor[c]
    /\ main.fd = fd => fdToWorker[fd] = NoWorker

\* Messages wait where their descriptor is routed, and somebody has logged in there.
OnRoute == \A w \in Workers : \A i \in 1 .. Len(pipe[w]) :
    pipe[w][i].type = "s" /\ Sole(pipe[w][i].fd) =>
      fdToWorker[pipe[w][i].fd] = w /\ Spoken(pipe[w][i].fd)

\* A handler sends by socketpair only what it cannot write itself.
AimsElsewhere == \A w \in Workers :
    /\ pc[w] \in AimSteps => job[w].to \notin clients[w]
    /\ pc[w] \in {"sendPrivate", "sendMember"} /\ Sole(job[w].to) =>
         fdToWorker[job[w].to] = job[w].via /\ Spoken(job[w].to)
    /\ pc[w] \in {"routeMember", "sendMember"} =>
         \E u \in Users : u \notin job[w].users /\ Speaks(job[w].to, u)

\* So what waits for a worker's connection comes from connections of others.
FromElsewhere == \A w \in Workers, c \in Conns : \A m, i :
    Alone(c) /\ WaitsFor(m, c, w, i) /\ (\E fd \in clients[w] : sock[fd] = c) =>
      \A e \in clients[w] : sock[e] # m.conn

\* Only a group message is sent on its way while its request goes on, and then the turn
\* of its addressee is over.
Reached == \A c \in Conns : \A m : Alone(c) /\ Toward(m, c) =>
    /\ m.n <= Len(asked[m.conn])
    /\ \A v \in Workers : Current(v, m) =>
         /\ pc[v] \in GroupSteps
         /\ \E u \in Earned(c) : u \notin job[v].users
         /\ pc[v] # "lookupMember" => sock[job[v].to] # c

\* Messages of one connection are in order in what has been sent to another, in what
\* waits for it, and between the two.
SentOrder == \A c \in Conns : \A m, q : Alone(c) /\ m.conn = q.conn =>
    /\ \A i, j : PushedTo(m, c, i) /\ PushedTo(q, c, j) /\ i < j => m.n < q.n
    /\ \A w \in Workers : \A i, j :
         WaitsFor(m, c, w, i) /\ WaitsFor(q, c, w, j) /\ i < j => m.n < q.n
    /\ \A w \in Workers : \A i, j : PushedTo(m, c, i) /\ WaitsFor(q, c, w, j) => m.n < q.n

\* The inductive strengthening of PushFifo.
FifoInv ==
    /\ AskedServed /\ RoutedOnce /\ OnRoute
    /\ AimsElsewhere /\ FromElsewhere /\ Reached /\ SentOrder

\* Whoever spoke on the descriptor of a connection that is alone with it is that one.
LEMMA SpeakerIsOpen ==
    ASSUME ChatInv, OwnDescriptor, NEW c \in Conns, Alone(c), NEW fd \in Fds, sock[fd] = c,
           NEW u, Speaks(fd, u)
    PROVE  u \in Earned(c)
<1>1. PICK d \in accepted : fd \in FdsFor[d] /\ u \in Earned(d)
  BY DEF Speaks
<1>2. d \in Conns /\ fd \in FdsFor[c]
  BY ConnAssumption DEF ChatInv, TypeOK, ConnTypeOK, OwnDescriptor
<1>3. c = d
  BY <1>1, <1>2, AloneSole DEF Sole
<1> QED
  BY <1>1, <1>3

\* The descriptor that such a connection has, or gets, is its alone.
LEMMA SoleNow ==
    ASSUME OwnDescriptor, NEW c \in Conns, Alone(c), NEW fd \in Fds, sock[fd] = c
    PROVE  Sole(fd)
BY AloneSole, ConnAssumption DEF OwnDescriptor

LEMMA SoleNext ==
    ASSUME ChatInv, AuthInv, [Next]_vars,
           NEW c \in Conns, Alone(c), NEW fd \in Fds, sock'[fd] = c
    PROVE  Sole(fd)
<1>1. OwnDescriptor'
  BY SourcesKept DEF AuthInv
<1>2. fd \in FdsFor[c]
  BY <1>1, ConnAssumption DEF OwnDescriptor
<1> QED
  BY <1>2, AloneSole

\* A descriptor on which somebody has logged in keeps its connection until it is closed.
LEMMA SpokenStays ==
    ASSUME ChatInv, [Next]_vars, NEW fd \in Fds, Sole(fd), Spoken(fd)
    PROVE  sock'[fd] = sock[fd] \/ sock'[fd] = NoConn
<1>0. sock \in [Fds -> Conns \cup {NoConn}] /\ accepted \subseteq Conns
  BY DEF ChatInv, TypeOK, ConnTypeOK
<1>1. PICK d \in accepted : fd \in FdsFor[d]
  BY DEF Spoken, Speaks
<1>2. [ConnNext]_connVars
  BY ChatRefinesStep
<1>3. ASSUME NEW c \in Conns, Accept(c) PROVE sock'[fd] = sock[fd]
  <2>1. PICK e \in FdsFor[c] : sock' = [sock EXCEPT ![e] = c]
    BY <1>3 DEF Accept
  <2>2. c # d
    BY <1>1, <1>3 DEF Accept
  <2>3. e # fd
    BY <1>0, <1>1, <2>2 DEF Sole
  <2> QED
    BY <1>0, <2>1, <2>3
<1>4. ASSUME NEW w \in Workers, NEW e \in Fds, RemoveClient(w, e)
      PROVE  sock'[fd] = sock[fd] \/ sock'[fd] = NoConn
  BY <1>0, <1>4 DEF RemoveClient
<1>9. ASSUME NEW w \in Workers, RefuseAdd(w)
      PROVE  sock'[fd] = sock[fd] \/ sock'[fd] = NoConn
  BY <1>0, <1>9 DEF RefuseAdd
<1>5. CASE RegisterFd \/ Start \/ UNCHANGED connVars
  BY <1>5 DEF RegisterFd, Start, connVars
<1>6. ASSUME NEW w \in Workers, HandleAdd(w) \/ HandleSend(w) PROVE sock' = sock
  BY <1>6 DEF HandleAdd, HandleSend
<1>7. ASSUME NEW w, NEW e, NEW msg, NotifySendMessage(w, e, msg) PROVE sock' = sock
  BY <1>7 DEF NotifySendMessage
<1>8. CASE Crash
  BY <1>8 DEF Crash
<1> QED
  BY <1>2, <1>3, <1>4, <1>5, <1>6, <1>7, <1>8, <1>9 DEF ConnNext

\* Routes are made by dispatchClient only, each once (fdToWorker_).
LEMMA RouteKept ==
    ASSUME ChatInv, RoutedOnce, [Next]_vars
    PROVE  /\ RoutedOnce'
           /\ ~Die => \A fd \in Fds : Sole(fd) /\ fdToWorker[fd] # NoWorker =>
                                        fdToWorker'[fd] = fdToWorker[fd]
<1> DEFINE Goal == /\ RoutedOnce'
                   /\ ~Die => \A fd \in Fds : Sole(fd) /\ fdToWorker[fd] # NoWorker =>
                        fdToWorker'[fd] = fdToWorker[fd]
<1>0. /\ fdToWorker \in [Fds -> Workers \cup {NoWorker}] /\ accepted \subseteq Conns
      /\ main \in [fd : Fds \cup {NoFd}, worker : Workers]
  BY DEF ChatInv, TypeOK, ConnTypeOK
<1>1. CASE Die
  BY <1>1 DEF Die, Crash, RoutedOnce, IdleMain
<1>2. CASE ~Die
  <2>1. ConnStep /\ accepted \subseteq accepted'
    BY <1>2, ChatConnStep, SockEffect
  <2>2. ASSUME NEW c \in Conns, Accept(c) PROVE Goal
    <3>1. PICK e \in FdsFor[c] : main' = [fd |-> e, worker |-> nextWorkerIndex]
      BY <2>2 DEF Accept
    <3>2. fdToWorker' = fdToWorker /\ c \in accepted' /\ c \notin accepted /\ main'.fd = e
      BY <2>2, <3>1 DEF Accept
    <3>3. ASSUME e \in Fds, Sole(e), fdToWorker[e] # NoWorker PROVE FALSE
      BY <1>0, <3>2, <3>3 DEF RoutedOnce, Sole
    <3>4. \A fd \in Fds :
            Sole(fd) /\ (fdToWorker'[fd] # NoWorker \/ main'.fd = fd) =>
                            \E d \in accepted' : fd \in FdsFor[d]
      BY <2>1, <3>1, <3>2 DEF RoutedOnce
    <3> QED
      BY <3>2, <3>3, <3>4 DEF RoutedOnce
  <2>3. CASE RegisterFd
    <3>1. main.fd \in Fds /\ (Sole(main.fd) => fdToWorker[main.fd] = NoWorker)
      BY <1>0, <2>3 DEF RegisterFd, RoutedOnce
    <3>2. fdToWorker' = [fdToWorker EXCEPT ![main.fd] = main.worker] /\ main'.fd = NoFd
          /\ accepted' = accepted
      BY <2>3 DEF RegisterFd, Route, IdleMain
    <3> QED
      BY <1>0, <3>1, <3>2 DEF RoutedOnce
  <2>4. CASE fdToWorker' = fdToWorker /\ main' = main
    BY <2>1, <2>4 DEF RoutedOnce
  <2>5. ASSUME NEW w \in Workers, HandleAdd(w) \/ RefuseAdd(w) \/ HandleSend(w) PROVE Goal
    BY <2>4, <2>5 DEF HandleAdd, RefuseAdd, HandleSend
  <2>6. ASSUME NEW w, NEW e, NEW msg, NotifySendMessage(w, e, msg) PROVE Goal
    BY <2>4, <2>6 DEF NotifySendMessage
  <2>7. ASSUME NEW w, NEW e, RemoveClient(w, e) PROVE Goal
    BY <2>4, <2>7 DEF RemoveClient
  <2>8. CASE Start \/ UNCHANGED connVars
    BY <2>4, <2>8 DEF Start, connVars
  <2> QED
    BY <2>1, <2>2, <2>3, <2>5, <2>6, <2>7, <2>8 DEF ConnStep
<1> QED
  BY <1>1, <1>2

\* Worker v sends record note to worker w's socketpair (handlePrivateChat, sendToClient).
Sends(v, w, note) ==
    /\ HandlerStep(v) /\ pc[v] \in {"sendPrivate", "sendMember"}
    /\ pc'[v] = IF pc[v] = "sendPrivate" THEN "reply" ELSE "lookupMember"
    /\ outbox' = outbox /\ connVars' = <<up, crashes, accepted, sock, nextWorkerIndex, main,
                                         Enqueue(w, note), clients, fdToWorker>>
    /\ w = job[v].via /\ note.type = "s" /\ note.fd = job[v].to
    /\ note.msg \in Message /\ note.msg.conn = ConnOf(v) /\ note.msg.n = NumberOf(v)

\* Worker v writes message m of its group chat to one of its own connections, c.
Writes(v, m, c) ==
    /\ HandlerStep(v) /\ pc[v] = "lookupMember" /\ pc'[v] = "lookupMember"
    /\ UNCHANGED connVars
    /\ \E u \in job[v].users : /\ job'[v].users = job[v].users \ {u}
                               /\ online[u] \in clients[v] /\ sock[online[u]] = c
    /\ outbox' = Write(c, PushOf(m))
    /\ m.conn = ConnOf(v) /\ m.n = NumberOf(v)

\* Worker w writes the first record that waits for it to connection c (handleNotify).
Passes(w, m, c) ==
    /\ pc' = pc /\ sock' = sock /\ pipe' = [pipe EXCEPT ![w] = Tail(@)] /\ pipe[w] # <<>>
    /\ WaitsFor(m, c, w, 1) /\ pipe[w][1].fd \in clients[w]
    /\ outbox' = Write(c, PushOf(m))

\* What a handler's step does to records and packets.
LEMMA StepSends ==
    ASSUME ChatInv, NEW v \in Workers, HandlerStep(v)
    PROVE  \/ pipe' = pipe /\ outbox' = outbox
           \/ pipe' = pipe /\ pc[v] = "reply" /\ outbox' = Write(ConnOf(v), ReplyOf(v))
           \/ pipe' = pipe /\ \E m, c : Writes(v, m, c)
           \/ \E w \in Workers, note \in Note : Sends(v, w, note)
<1> DEFINE Goal ==
      \/ pipe' = pipe /\ outbox' = outbox
      \/ pipe' = pipe /\ pc[v] = "reply" /\ outbox' = Write(ConnOf(v), ReplyOf(v))
      \/ pipe' = pipe /\ \E m, c : Writes(v, m, c)
      \/ \E w \in Workers, note \in Note : Sends(v, w, note)
<1>0. /\ pc \in [Workers -> Labels] /\ job \in [Workers -> Job]
      /\ online \in [Users -> Fds \cup {NoFd}]
  BY DEF ChatInv, TypeOK
<1>1. ASSUME NEW kind \in {"private", "group"}, NEW to \in Users \cup {NoUser},
             NotifySendMessage(job[v].via, job[v].to, Forward(v, kind, to)),
             pc[v] \in {"sendPrivate", "sendMember"}, outbox' = outbox,
             pc'[v] = IF pc[v] = "sendPrivate" THEN "reply" ELSE "lookupMember"
      PROVE  Goal
  <2> DEFINE note == [type |-> "s", fd |-> job[v].to, msg |-> Forward(v, kind, to)]
  <2>1. /\ job[v] \in Job /\ job[v].via # NoWorker /\ job[v].to # NoFd /\ job[v].from # NoUser
        /\ pc[v] # "idle"
    BY <1>1, AtWork DEF Serving, LocalsOf, SessionSteps, PrivateSteps
  <2>2. Forward(v, kind, to) \in Message
    BY <2>1, ForwardType
  <2>3. note \in Note /\ job[v].via \in Workers
    BY <2>1, <2>2, NoteTypes DEF Job, ChatAssumption, Note
  <2>4. Sends(v, job[v].via, note)
    <3>1. Forward(v, kind, to).conn = ConnOf(v) /\ Forward(v, kind, to).n = NumberOf(v)
      BY DEF Forward
    <3>2. connVars' = <<up, crashes, accepted, sock, nextWorkerIndex, main,
                        Enqueue(job[v].via, note), clients, fdToWorker>>
      BY <1>1 DEF NotifySendMessage, connVars
    <3> QED
      BY <1>1, <2>2, <3>1, <3>2 DEF Sends
  <2> QED
    BY <2>3, <2>4
<1>2. CASE SendPrivate(v)
  <2>1. pc[v] = "sendPrivate" /\ pc'[v] = "reply" /\ outbox' = outbox
    BY <1>0, <1>2 DEF SendPrivate, Runs, Finish, Goto, ioVars
  <2>2. job[v].req.user \in Users
    BY <2>1, AtWork DEF Serving, LocalsOf, PrivateSteps
  <2> QED
    BY <1>1, <1>2, <2>1, <2>2 DEF SendPrivate
<1>3. CASE SendMember(v)
  <2>1. pc[v] = "sendMember" /\ pc'[v] = "lookupMember" /\ outbox' = outbox
    BY <1>0, <1>3 DEF SendMember, Runs, Goto, ioVars
  <2> QED
    BY <1>1, <1>3, <2>1 DEF SendMember
<1>4. CASE SendReply(v)
  <2>1. pc[v] = "reply" /\ pc'[v] = "idle" /\ pipe' = pipe
    BY <1>0, <1>4 DEF SendReply, Runs, Goto, connVars
  <2> QED
    BY <2>1, ReplyWritten
<1>5. CASE LookupMember(v)
  <2>1. pc[v] = "lookupMember" /\ pipe' = pipe /\ UNCHANGED connVars /\ job[v] \in Job
    BY <1>0, <1>5 DEF LookupMember, Runs, connVars
  <2>2. PICK u \in job[v].users, done \in Outcomes("lookupMember") :
          LET toFd == IF done THEN online[u] ELSE NoFd IN
          /\ job' = [job EXCEPT ![v] = [@ EXCEPT !.users = Remaining(v, u), !.to = toFd]]
          /\ Goto(v, IF toFd = NoFd \/ toFd \in clients[v] THEN "lookupMember"
                                                           ELSE "routeMember")
          /\ outbox' = IF toFd \in clients[v]
                       THEN Write(sock[toFd], PushOf(Forward(v, "group", NoUser)))
                       ELSE outbox
    BY <1>5 DEF LookupMember
  <2> DEFINE toFd == IF done THEN online[u] ELSE NoFd
  <2>3. CASE toFd \in clients[v]
    <3>1. toFd = online[u] /\ outbox' = Write(sock[toFd], PushOf(Forward(v, "group", NoUser)))
      BY <2>2, <2>3, OwnedIsOpen, ConnAssumption
    <3>2. pc'[v] = "lookupMember"
      BY <1>0, <2>2, <2>3 DEF Goto
    <3>3. job'[v].users = job[v].users \ {u}
      BY <1>0, <2>1, <2>2 DEF Remaining, Job
    <3>4. Forward(v, "group", NoUser).conn = ConnOf(v) /\ Forward(v, "group", NoUser).n = NumberOf(v)
      BY DEF Forward
    <3>5. Writes(v, Forward(v, "group", NoUser), sock[toFd])
      BY <2>1, <2>2, <2>3, <3>1, <3>2, <3>3, <3>4 DEF Writes
    <3> QED
      BY <2>1, <3>5
  <2>4. CASE toFd \notin clients[v]
    BY <2>1, <2>2, <2>4
  <2> QED
    BY <2>3, <2>4
<1>6. CASE \/ IsUserExists(v) \/ InsertUser(v) \/ VerifyLogin(v) \/ DeleteOnline(v)
           \/ InsertOnline(v) \/ GetOfflineMessages(v) \/ ClearOfflineMessages(v)
           \/ StoreOfflineMessage(v)
  BY <1>6 DEF IsUserExists, InsertUser, VerifyLogin, DeleteOnline, InsertOnline,
              GetOfflineMessages, ClearOfflineMessages, StoreOfflineMessage, connVars, ioVars
<1>7. CASE \/ GetAllUsers(v) \/ GetOnlineUsers(v) \/ GetUserSocketFd(v) \/ RoutePrivate(v)
           \/ ListGroup(v) \/ RouteMember(v) \/ GroupDone(v) \/ SetUserOffline(v)
  BY <1>7 DEF GetAllUsers, GetOnlineUsers, GetUserSocketFd, RoutePrivate, ListGroup, RouteMember,
              GroupDone, SetUserOffline, connVars, ioVars
<1> QED
  BY <1>2, <1>3, <1>4, <1>5, <1>6, <1>7 DEF HandlerStep

\* What happens to a worker's socketpair in a step.
LEMMA PipeMoves ==
    ASSUME ChatInv, [Next]_vars, ~Die, NEW w \in Workers
    PROVE  \/ pipe'[w] = pipe[w]
           \/ pipe[w] # <<>> /\ pipe'[w] = Tail(pipe[w])
           \/ \E note \in Note : note.type = "c" /\ pipe'[w] = Append(pipe[w], note)
           \/ \E v \in Workers, note \in Note :
                Sends(v, w, note) /\ pipe'[w] = Append(pipe[w], note)
<1> DEFINE Goal == \/ pipe'[w] = pipe[w]
                   \/ pipe[w] # <<>> /\ pipe'[w] = Tail(pipe[w])
                   \/ \E note \in Note : note.type = "c" /\ pipe'[w] = Append(pipe[w], note)
                   \/ \E v \in Workers, note \in Note :
                        Sends(v, w, note) /\ pipe'[w] = Append(pipe[w], note)
<1>0. pipe \in [Workers -> Seq(Note)] /\ nextWorkerIndex \in Workers
  BY DEF ChatInv, TypeOK, ConnTypeOK
<1>1. ASSUME NEW v \in Workers, NEW note, pipe' = Enqueue(v, note)
      PROVE  pipe'[w] = pipe[w] \/ (w = v /\ pipe'[w] = Append(pipe[w], note))
  BY <1>0, <1>1 DEF Enqueue
<1>2. ASSUME NEW v \in Workers, HandlerStep(v) PROVE Goal
  <2>1. CASE pipe' = pipe
    BY <2>1
  <2>2. ASSUME NEW x \in Workers, NEW note \in Note, Sends(v, x, note) PROVE Goal
    <3>1. pipe' = Enqueue(x, note)
      BY <2>2 DEF Sends, connVars
    <3> QED
      BY <1>1, <2>2, <3>1
  <2> QED
    BY <1>2, <2>1, <2>2, StepSends
<1>3. ASSUME NEW c \in Conns, Accept(c) PROVE Goal
  <2>1. PICK fd \in FdsFor[c] : pipe' = Enqueue(nextWorkerIndex, [type |-> "c", fd |-> fd])
    BY <1>3 DEF Accept
  <2>2. [type |-> "c", fd |-> fd] \in Note
    BY NoteTypes DEF Note
  <2> QED
    BY <1>0, <1>1, <2>1, <2>2
<1>4. ASSUME NEW v \in Workers, HandleAdd(v) \/ RefuseAdd(v) \/ HandleSend(v) PROVE Goal
  BY <1>0, <1>4 DEF HandleAdd, RefuseAdd, HandleSend
<1>5. CASE RegisterFd \/ Start \/ UNCHANGED vars
  BY <1>5 DEF RegisterFd, Start, vars, connVars
<1>6. ASSUME NEW v \in Workers, Take(v) PROVE Goal
  BY <1>6 DEF Take, HandleRegister, HandleLogin, HandleGetFriends, HandlePrivateChat,
              HandleGroupChat, HandleLogout, connVars
<1>7. ASSUME NEW v, NEW fd, Disconnect(v, fd) PROVE Goal
  BY <1>7 DEF Disconnect, RemoveClient
<1> QED
  BY <1>2, <1>3, <1>4, <1>5, <1>6, <1>7 DEF Next, MainStep, AddClient, RefuseClient, DeliverNote

\* Messages wait in the order in which they were sent.
LEMMA WaitingMoves ==
    ASSUME ChatInv, AuthInv, OnRoute, [Next]_vars, ~Die, NEW w \in Workers
    PROVE  \E s \in {0, 1} : \A c \in Conns : \A m, i : Alone(c) /\ WaitsFor(m, c, w, i)' =>
             \/ WaitsFor(m, c, w, i + s)
             \/ /\ s = 0 /\ i = Len(pipe[w]) + 1
                /\ \E v \in Workers, note \in Note :
                     Sends(v, w, note) /\ note.msg = m /\ sock[note.fd] = c
<1> DEFINE Sent(m, c) == \E v \in Workers, note \in Note :
                           Sends(v, w, note) /\ note.msg = m /\ sock[note.fd] = c
           Moved(s) == \A c \in Conns : \A m, i : Alone(c) /\ WaitsFor(m, c, w, i)' =>
                         \/ WaitsFor(m, c, w, i + s)
                         \/ s = 0 /\ i = Len(pipe[w]) + 1 /\ Sent(m, c)
<1>0. /\ pipe[w] \in Seq(Note) /\ pipe'[w] \in Seq(Note) /\ Len(pipe[w]) \in Nat
      /\ NoConn \notin Conns
  <2>1. ChatInv'
    BY ChatStep
  <2> QED
    BY <2>1, ConnAssumption DEF ChatInv, TypeOK, ConnTypeOK
<1>1. ASSUME NEW j \in 1 .. Len(pipe[w]), NEW note, note = pipe[w][j], note.type = "s",
             NEW c \in Conns, Alone(c), sock'[note.fd] = c
      PROVE  sock[note.fd] = c
  <2>1. note \in Note /\ note.fd \in Fds
    BY <1>0, <1>1, NoteTypes
  <2>3. Sole(note.fd)
    BY <1>1, <2>1, SoleNext
  <2>2. Spoken(note.fd)
    BY <1>1, <2>3 DEF OnRoute
  <2> QED
    BY <1>0, <1>1, <2>1, <2>2, <2>3, SpokenStays
<1>2. CASE pipe'[w] = pipe[w]
  <2>1. Moved(0)
    BY <1>1, <1>2 DEF WaitsFor
  <2> QED
    BY <2>1
<1>3. CASE pipe[w] # <<>> /\ pipe'[w] = Tail(pipe[w])
  <2>1. Moved(1)
    <3> SUFFICES ASSUME NEW c \in Conns, Alone(c), NEW m, NEW i,
                        WaitsFor(m, c, w, i)'
                 PROVE  WaitsFor(m, c, w, i + 1)
      OBVIOUS
    <3>1. /\ i \in 1 .. Len(pipe'[w]) /\ pipe'[w][i].type = "s" /\ pipe'[w][i].msg = m
          /\ sock'[pipe'[w][i].fd] = c
      BY DEF WaitsFor
    <3>2. i + 1 \in 1 .. Len(pipe[w]) /\ pipe'[w][i] = pipe[w][i + 1]
      BY <1>0, <1>3, <3>1
    <3> QED
      BY <1>1, <3>1, <3>2 DEF WaitsFor
  <2> QED
    BY <2>1
<1>4. ASSUME NEW note \in Note, pipe'[w] = Append(pipe[w], note),
             note.type = "c" \/ \E v \in Workers : Sends(v, w, note)
      PROVE  \E s \in {0, 1} : Moved(s)
  <2>1. Moved(0)
    <3> SUFFICES ASSUME NEW c \in Conns, Alone(c), NEW m, NEW i,
                        WaitsFor(m, c, w, i)'
                 PROVE  WaitsFor(m, c, w, i + 0) \/ (i = Len(pipe[w]) + 1 /\ Sent(m, c))
      OBVIOUS
    <3>1. /\ i \in 1 .. Len(pipe'[w]) /\ pipe'[w][i].type = "s" /\ pipe'[w][i].msg = m
          /\ sock'[pipe'[w][i].fd] = c
      BY DEF WaitsFor
    <3>2. CASE i \in 1 .. Len(pipe[w])
      <4>1. pipe'[w][i] = pipe[w][i] /\ i + 0 = i
        BY <1>0, <1>4, <3>2
      <4> QED
        BY <1>1, <3>1, <3>2, <4>1 DEF WaitsFor
    <3>3. CASE i \notin 1 .. Len(pipe[w])
      <4>1. i = Len(pipe[w]) + 1 /\ pipe'[w][i] = note
        BY <1>0, <1>4, <3>1, <3>3
      <4>2. PICK v \in Workers : Sends(v, w, note)
        BY <1>4, <3>1, <4>1
      <4>3. sock' = sock
        BY <4>2 DEF Sends, connVars
      <4> QED
        BY <3>1, <4>1, <4>2, <4>3
    <3> QED
      BY <3>2, <3>3
  <2> QED
    BY <2>1
<1> QED
  BY <1>2, <1>3, <1>4, PipeMoves

\* A packet that was pushed stays where it is, and a new one comes last.
LEMMA PushMoves ==
    ASSUME ChatInv, [Next]_vars, NEW c \in Conns, NEW m, NEW i, PushedTo(m, c, i)'
    PROVE  \/ PushedTo(m, c, i)
           \/ /\ i = Len(outbox[c]) + 1
              /\ \/ \E v \in Workers : Writes(v, m, c)
                 \/ \E w \in Workers : Passes(w, m, c)
<1> DEFINE Goal == \/ PushedTo(m, c, i)
                   \/ /\ i = Len(outbox[c]) + 1
                      /\ \/ \E v \in Workers : Writes(v, m, c)
                         \/ \E w \in Workers : Passes(w, m, c)
<1>0. outbox \in [Conns -> Seq(Reply \cup Push)] /\ Len(outbox[c]) \in Nat
  BY DEF ChatInv, TypeOK
<1>1. i \in 1 .. Len(outbox'[c]) /\ outbox'[c][i].type = "push" /\ outbox'[c][i].msg = m
  BY DEF PushedTo
<1>2. CASE outbox' = outbox
  BY <1>1, <1>2 DEF PushedTo
<1>3. ASSUME NEW d, NEW packet, outbox' = Write(d, packet)
      PROVE  \/ PushedTo(m, c, i)
             \/ /\ i = Len(outbox[c]) + 1 /\ d = c
                /\ packet.type = "push" /\ packet.msg = m
  <2>1. outbox'[c] = outbox[c] \/ (d = c /\ outbox'[c] = Append(outbox[c], packet))
    BY <1>0, <1>3 DEF Write
  <2>2. CASE outbox'[c] = outbox[c]
    BY <1>1, <2>2 DEF PushedTo
  <2>3. CASE d = c /\ outbox'[c] = Append(outbox[c], packet)
    <3>1. outbox[c] \in Seq(Reply \cup Push)
      BY <1>0
    <3>2. \/ i \in 1 .. Len(outbox[c]) /\ outbox'[c][i] = outbox[c][i]
          \/ i = Len(outbox[c]) + 1 /\ outbox'[c][i] = packet
      <4> HIDE <1>0
      <4> QED
        BY <1>1, <2>3, <3>1
    <3> QED
      BY <1>1, <2>3, <3>2 DEF PushedTo
  <2> QED
    BY <2>1, <2>2, <2>3
<1>4. ASSUME NEW v \in Workers, HandlerStep(v) PROVE Goal
  <2>1. CASE outbox' = Write(ConnOf(v), ReplyOf(v))
    BY <1>3, <2>1 DEF ReplyOf
  <2>2. ASSUME NEW q, NEW d, Writes(v, q, d) PROVE Goal
    <3>1. outbox' = Write(d, PushOf(q)) /\ PushOf(q).msg = q
      BY <2>2 DEF Writes, PushOf
    <3> QED
      BY <1>3, <2>2, <3>1
  <2>3. ASSUME NEW w, NEW note, Sends(v, w, note) PROVE Goal
    BY <1>2, <2>3 DEF Sends
  <2> QED
    BY <1>2, <1>4, <2>1, <2>2, <2>3, StepSends
<1>5. ASSUME NEW w \in Workers, DeliverNote(w) PROVE Goal
  <2> DEFINE note == Head(pipe[w])
  <2>1. /\ pipe[w] # <<>> /\ note.type = "s" /\ pipe' = [pipe EXCEPT ![w] = Tail(@)]
        /\ pc' = pc /\ sock' = sock
    BY <1>5 DEF DeliverNote, HandleSend, ctlVars
  <2>2. note = pipe[w][1] /\ 1 \in 1 .. Len(pipe[w])
    BY <2>1, TailFacts DEF ChatInv, TypeOK, ConnTypeOK
  <2>3. CASE note.fd \in clients[w]
    <3>1. outbox' = Write(sock[note.fd], PushOf(note.msg)) /\ PushOf(note.msg).msg = note.msg
      BY <1>5, <2>3 DEF DeliverNote, Delivered, PushOf
    <3>2. ASSUME sock[note.fd] = c, note.msg = m PROVE Passes(w, m, c)
      BY <2>1, <2>2, <2>3, <3>1, <3>2 DEF Passes, WaitsFor
    <3> QED
      BY <1>3, <3>1, <3>2
  <2>4. CASE note.fd \notin clients[w]
    BY <1>2, <1>5, <2>4 DEF DeliverNote, Delivered
  <2> QED
    BY <2>3, <2>4
<1>6. CASE MainStep \/ Die \/ UNCHANGED vars
  BY <1>2, <1>6 DEF MainStep, Die, vars, ioVars
<1>7. ASSUME NEW w \in Workers, Take(w) PROVE Goal
  BY <1>2, <1>7 DEF Take, HandleRegister, HandleLogin, HandleGetFriends, HandlePrivateChat,
              HandleGroupChat, HandleLogout
<1>8. ASSUME NEW w \in Workers, \/ AddClient(w) \/ RefuseClient(w)
                                 \/ \E fd \in Fds : Disconnect(w, fd)
      PROVE  Goal
  BY <1>2, <1>8 DEF AddClient, RefuseClient, Disconnect, ioVars
<1> QED
  BY <1>4, <1>5, <1>6, <1>7, <1>8 DEF Next

\* A connection that keeps one name has earned that one.
LEMMA OneEarned ==
    ASSUME AskedByClient, NEW c \in Conns, Alone(c), NEW u \in Earned(c), NEW v \in Earned(c)
    PROVE  u = v
<1>1. PICK i \in DOMAIN asked[c] : asked[c][i].op = "login" /\ asked[c][i].user = u
  BY DEF Earned
<1>2. PICK j \in DOMAIN asked[c] : asked[c][j].op = "login" /\ asked[c][j].user = v
  BY DEF Earned
<1>3. asked[c][i] \in Requests[c] /\ asked[c][j] \in Requests[c]
  BY DEF AskedByClient
<1> QED
  BY <1>1, <1>2, <1>3 DEF Alone

\* What is on its way is a message.
LEMMA TowardType ==
    ASSUME ChatInv, NEW c \in Conns, NEW m, Toward(m, c)
    PROVE  m \in Message /\ m.n \in 1 .. MaxSent /\ m.conn \in Conns
<1>1. CASE \E i : PushedTo(m, c, i)
  <2>1. PICK i : PushedTo(m, c, i)
    BY <1>1
  <2>2. outbox[c] \in Seq(Reply \cup Push)
    BY DEF ChatInv, TypeOK
  <2>3. outbox[c][i] \in Reply \cup Push /\ outbox[c][i].type = "push" /\ outbox[c][i].msg = m
    BY <2>1, <2>2 DEF PushedTo
  <2>4. m \in Message
    BY <2>3 DEF Reply, Push
  <2> QED
    BY <2>4 DEF Message
<1>2. CASE \E w \in Workers : \E i : WaitsFor(m, c, w, i)
  <2>1. PICK w \in Workers : \E i : WaitsFor(m, c, w, i)
    BY <1>2
  <2>2. PICK i : WaitsFor(m, c, w, i)
    BY <2>1
  <2>3. pipe[w] \in Seq(Note)
    BY DEF ChatInv, TypeOK, ConnTypeOK
  <2>4. pipe[w][i] \in Note /\ pipe[w][i].type = "s" /\ pipe[w][i].msg = m
    BY <2>2, <2>3 DEF WaitsFor
  <2>5. m \in Message
    BY <2>4, ChatAssumption DEF Note
  <2> QED
    BY <2>5 DEF Message
<1> QED
  BY <1>1, <1>2 DEF Toward

\* All that waits for a connection waits for its worker.
LEMMA WaitsWithOwner ==
    ASSUME ChatInv, OwnDescriptor, RoutedOnce, OnRoute, NEW c \in Conns, Alone(c), NEW m,
           NEW w \in Workers, NEW i, WaitsFor(m, c, w, i), NEW v \in Workers, NEW fd \in clients[v], sock[fd] = c
    PROVE  w = v
<1>0. pipe[w] \in Seq(Note) /\ NoConn \notin Conns /\ NoWorker \notin Workers
  BY ConnAssumption DEF ChatInv, TypeOK, ConnTypeOK, Workers, NoWorker
<1>1. pipe[w][i] \in Note /\ pipe[w][i].type = "s" /\ sock[pipe[w][i].fd] = c
      /\ i \in 1 .. Len(pipe[w])
  BY <1>0 DEF WaitsFor
<1>2. pipe[w][i].fd \in Fds /\ fd \in Fds
  BY <1>1, NoteTypes, OwnedIsOpen
<1>3. pipe[w][i].fd = fd
  BY <1>0, <1>1, <1>2 DEF ChatInv, ConnInv, Ownership, OneDescriptor
<1>7. Sole(fd)
  BY <1>2, SoleNow
<1>4. fdToWorker[fd] = w
  BY <1>1, <1>3, <1>7 DEF OnRoute
<1>5. main.fd # fd
  BY <1>0, <1>2, <1>4, <1>7 DEF RoutedOnce
<1>6. fdToWorker[fd] = v
  BY <1>2, <1>5 DEF ChatInv, ConnInv, Routing, Claims
<1> QED
  BY <1>4, <1>6

\* What a handler sends to a connection is newer than all that is on its way there from
\* the same client.
LEMMA SentIsNewer ==
    ASSUME ChatInv, AuthInv, Reached, NEW v \in Workers,
           NEW c \in Conns, Alone(c), NEW m, Toward(m, c), m.conn = ConnOf(v),
           \/ \E w \in Workers, note \in Note : Sends(v, w, note) /\ sock[note.fd] = c
           \/ \E q : Writes(v, q, c)
    PROVE  m.n < NumberOf(v)
<1> SUFFICES ASSUME NumberOf(v) <= m.n PROVE FALSE
  <2>1. pc[v] # "idle"
    BY DEF Sends, Writes
  <2> QED
    BY <2>1, TowardType, AtWork, ChatAssumption
<1>1. ASSUME NEW w \in Workers, NEW note \in Note, Sends(v, w, note), sock[note.fd] = c
      PROVE  FALSE
  <2>1. pc[v] \in {"sendPrivate", "sendMember"} /\ sock[job[v].to] = c
    BY <1>1 DEF Sends
  <2>2. Current(v, m)
    BY <2>1 DEF Current, TalkSteps, PrivateSteps, GroupSteps
  <2> QED
    BY <2>1, <2>2 DEF Reached, GroupSteps
<1>2. ASSUME NEW q, Writes(v, q, c) PROVE FALSE
  <2>1. pc[v] = "lookupMember"
    BY <1>2 DEF Writes
  <2>2. PICK u \in job[v].users : online[u] \in clients[v] /\ sock[online[u]] = c
    BY <1>2 DEF Writes
  <2>3. u \in Users
    BY <2>1, AtWork DEF Job
  <2>4. online[u] \in Fds
    BY <2>2, OwnedIsOpen
  <2>5. Speaks(online[u], u)
    BY <2>3, <2>4, ConnAssumption DEF AuthInv, RowsSpeak
  <2>6. u \in Earned(c)
    <3> HIDE <1>2
    <3>1. ASSUME NEW fd \in Fds, sock[fd] = c, Speaks(fd, u) PROVE u \in Earned(c)
      BY <3>1, SpeakerIsOpen DEF AuthInv
    <3> QED
      BY <2>2, <2>4, <2>5, <3>1
  <2>7. Current(v, m)
    BY <2>1 DEF Current, TalkSteps, GroupSteps
  <2>8. PICK x \in Earned(c) : x \notin job[v].users
    BY <2>7 DEF Reached
  <2> QED
    BY <2>2, <2>6, <2>8, OneEarned DEF AuthInv
<1> QED
  BY <1>1, <1>2

\* Three ways to overtake, and none is taken.
LEMMA PushesKept ==
    ASSUME ChatInv, AuthInv, Reached, SentOrder, [Next]_vars,
           NEW c \in Conns, Alone(c), NEW m, NEW q, m.conn = q.conn, NEW i, NEW j,
           PushedTo(m, c, i)', PushedTo(q, c, j)', i < j
    PROVE  m.n < q.n
<1>0. Len(outbox[c]) \in Nat /\ i \in Nat /\ j \in Nat
      /\ j <= Len(outbox[c]) + 1
  <2>1. Len(outbox[c]) \in Nat /\ Len(outbox'[c]) \in Nat
    BY ChatStep DEF ChatInv, TypeOK
  <2>2. PushedTo(q, c, j) \/ j = Len(outbox[c]) + 1
    BY PushMoves
  <2> QED
    BY <2>1, <2>2 DEF PushedTo
<1>1. PushedTo(m, c, i)
  BY <1>0, PushMoves
<1>2. Toward(m, c)
  BY <1>1 DEF Toward
<1>3. CASE PushedTo(q, c, j)
  BY <1>1, <1>3 DEF SentOrder
<1>4. ASSUME NEW v \in Workers, Writes(v, q, c) PROVE m.n < q.n
  <2>1. q.conn = ConnOf(v) /\ q.n = NumberOf(v)
    BY <1>4 DEF Writes
  <2> QED
    BY <1>2, <1>4, <2>1, SentIsNewer
<1>5. ASSUME NEW w \in Workers, Passes(w, q, c) PROVE m.n < q.n
  BY <1>1, <1>5 DEF Passes, SentOrder
<1> QED
  BY <1>3, <1>4, <1>5, PushMoves

LEMMA WaitingKept ==
    ASSUME ChatInv, AuthInv, OnRoute, Reached, SentOrder, [Next]_vars, ~Die,
           NEW c \in Conns, Alone(c), NEW m, NEW q, m.conn = q.conn, NEW w \in Workers, NEW i, NEW j,
           WaitsFor(m, c, w, i)', WaitsFor(q, c, w, j)', i < j
    PROVE  m.n < q.n
<1>0. i \in Nat /\ j \in Nat /\ Len(pipe[w]) \in Nat
  BY ChatStep DEF ChatInv, TypeOK, ConnTypeOK, WaitsFor
<1>1. PICK s \in {0, 1} : \A x, k : WaitsFor(x, c, w, k)' =>
             \/ WaitsFor(x, c, w, k + s)
             \/ /\ s = 0 /\ k = Len(pipe[w]) + 1
                /\ \E v \in Workers, note \in Note :
                     Sends(v, w, note) /\ note.msg = x /\ sock[note.fd] = c
  BY WaitingMoves
<1>2. WaitsFor(q, c, w, j + s) \/ j = Len(pipe[w]) + 1
  BY <1>1
<1>3. s = 0 => j <= Len(pipe[w]) + 1
  BY <1>0, <1>2 DEF WaitsFor
<1>4. WaitsFor(m, c, w, i + s)
  BY <1>0, <1>1, <1>3
<1>5. CASE WaitsFor(q, c, w, j + s)
  <2>1. i + s < j + s
    BY <1>0
  <2> QED
    BY <1>4, <1>5, <2>1 DEF SentOrder
<1>6. ASSUME NEW v \in Workers, NEW note \in Note, Sends(v, w, note), note.msg = q,
             sock[note.fd] = c
      PROVE  m.n < q.n
  <2>1. Toward(m, c)
    BY <1>4 DEF Toward
  <2>2. q.conn = ConnOf(v) /\ q.n = NumberOf(v)
    BY <1>6 DEF Sends
  <2> QED
    BY <1>6, <2>1, <2>2, SentIsNewer
<1> QED
  BY <1>1, <1>5, <1>6

LEMMA NoneOvertakes ==
    ASSUME ChatInv, AuthInv, RoutedOnce, OnRoute, FromElsewhere, Reached, SentOrder,
           [Next]_vars, ~Die,
           NEW c \in Conns, Alone(c), NEW m, NEW q, m.conn = q.conn, NEW w \in Workers, NEW i, NEW j,
           PushedTo(m, c, i)', WaitsFor(q, c, w, j)'
    PROVE  m.n < q.n
<1>0. pipe \in [Workers -> Seq(Note)] /\ pc \in [Workers -> Labels]
  BY DEF ChatInv, TypeOK, ConnTypeOK
<1>1. PICK s \in {0, 1} :
             \/ WaitsFor(q, c, w, j + s)
             \/ /\ s = 0 /\ j = Len(pipe[w]) + 1
                /\ \E v \in Workers, note \in Note :
                     Sends(v, w, note) /\ note.msg = q /\ sock[note.fd] = c
  <2>1. PICK s \in {0, 1} : \A x \in Conns : \A y, k : Alone(x) /\ WaitsFor(y, x, w, k)' =>
             \/ WaitsFor(y, x, w, k + s)
             \/ /\ s = 0 /\ k = Len(pipe[w]) + 1
                /\ \E v \in Workers, note \in Note :
                     Sends(v, w, note) /\ note.msg = y /\ sock[note.fd] = x
    BY WaitingMoves
  <2> QED
    BY <2>1
<1>2. CASE PushedTo(m, c, i)
  <2>1. CASE WaitsFor(q, c, w, j + s)
    BY <1>2, <2>1 DEF SentOrder
  <2>2. ASSUME NEW v \in Workers, NEW note \in Note, Sends(v, w, note), note.msg = q,
               sock[note.fd] = c
        PROVE  m.n < q.n
    <3>1. Toward(m, c)
      BY <1>2 DEF Toward
    <3>2. q.conn = ConnOf(v) /\ q.n = NumberOf(v)
      BY <2>2 DEF Sends
    <3> QED
      BY <2>2, <3>1, <3>2, SentIsNewer
  <2> QED
    BY <1>1, <2>1, <2>2
<1>3. ASSUME NEW v \in Workers, Writes(v, m, c) PROVE FALSE
  <2>1. pipe' = pipe /\ sock' = sock /\ pc[v] # "idle" /\ m.conn = ConnOf(v)
    BY <1>3 DEF Writes, connVars
  <2>2. WaitsFor(q, c, w, j)
    BY <2>1 DEF WaitsFor
  <2>3. PICK u : online[u] \in clients[v] /\ sock[online[u]] = c
    BY <1>3 DEF Writes
  <2>4. w = v
    BY <2>2, <2>3, WaitsWithOwner DEF AuthInv
  <2>5. job[v].fd \in clients[v] /\ sock[job[v].fd] = q.conn
    BY <2>1, AtWork DEF Serving, ConnOf
  <2> QED
    BY <2>2, <2>3, <2>4, <2>5 DEF FromElsewhere
<1>4. ASSUME NEW x \in Workers, Passes(x, m, c) PROVE m.n < q.n
  <2>1. /\ pc' = pc /\ sock' = sock /\ pipe' = [pipe EXCEPT ![x] = Tail(@)] /\ pipe[x] # <<>>
        /\ WaitsFor(m, c, x, 1) /\ pipe[x][1].fd \in clients[x] /\ sock[pipe[x][1].fd] = c
    BY <1>4 DEF Passes, WaitsFor
  <2>2. CASE w = x
    <3>1. pipe'[x] = Tail(pipe[x]) /\ pipe[x] \in Seq(Note)
      BY <1>0, <2>1
    <3>2. /\ j \in 1 .. Len(pipe'[x]) /\ pipe'[x][j].type = "s" /\ pipe'[x][j].msg = q
          /\ sock'[pipe'[x][j].fd] = c
      BY <2>2 DEF WaitsFor
    <3>3. j + 1 \in 1 .. Len(pipe[x]) /\ pipe'[x][j] = pipe[x][j + 1] /\ 1 < j + 1
      <4>1. ASSUME NEW queue \in Seq(Note), NEW k \in 1 .. Len(Tail(queue)), queue # <<>>
            PROVE  k + 1 \in 1 .. Len(queue) /\ Tail(queue)[k] = queue[k + 1] /\ 1 < k + 1
        BY <4>1
      <4> QED
        BY <2>1, <3>1, <3>2, <4>1
    <3>4. WaitsFor(q, c, x, j + 1)
      BY <2>1, <3>2, <3>3 DEF WaitsFor
    <3> QED
      BY <2>1, <3>3, <3>4 DEF SentOrder
  <2>3. CASE w # x
    <3>1. pipe'[w] = pipe[w]
      BY <1>0, <2>1, <2>3
    <3>2. WaitsFor(q, c, w, j)
      BY <2>1, <3>1 DEF WaitsFor
    <3>3. \A fd \in clients[x] : sock[fd] = c => w = x
      BY <3>2, WaitsWithOwner DEF AuthInv
    <3> QED
      BY <2>1, <2>3, <3>3
  <2> QED
    BY <2>2, <2>3
<1> QED
  BY <1>2, <1>3, <1>4, PushMoves

LEMMA OrderKept ==
    ASSUME ChatInv, AuthInv, RoutedOnce, OnRoute, FromElsewhere, Reached, SentOrder,
           [Next]_vars
    PROVE  SentOrder'
<1>0. \A c \in Conns : Alone(c)' = Alone(c)
  BY DEF Alone
<1>1. CASE Die
  <2>1. outbox' = outbox /\ \A w \in Workers : pipe'[w] = <<>>
    BY <1>1 DEF Die, Crash, ioVars
  <2>2. \A c \in Conns : \A m, i : PushedTo(m, c, i)' => PushedTo(m, c, i)
    BY <2>1 DEF PushedTo
  <2>3. \A w \in Workers, c \in Conns : \A m, i : ~ WaitsFor(m, c, w, i)'
    BY <2>1 DEF WaitsFor
  <2> QED
    BY <1>0, <2>2, <2>3 DEF SentOrder
<1>2. CASE ~Die
  BY <1>0, <1>2, PushesKept, WaitingKept, NoneOvertakes DEF SentOrder
<1> QED
  BY <1>1, <1>2

\* Where a chat handler goes on, and what it aims at (handlePrivateChat, handleGroupChat,
\* sendToClient).
LEMMA TalkEffect ==
    ASSUME ChatInv, NEW v \in Workers, HandlerStep(v), pc'[v] \in TalkSteps
    PROVE  /\ pc[v] \in TalkSteps
           /\ pc'[v] \in AimSteps =>
                job'[v].to \notin clients[v] \/ (pc[v] \in AimSteps /\ job'[v].to = job[v].to)
           /\ pc'[v] \in {"sendPrivate", "sendMember"} =>
                /\ pc[v] = IF pc'[v] = "sendPrivate" THEN "routePrivate" ELSE "routeMember"
                /\ job'[v].to = job[v].to
                /\ job'[v].via = GetWorkerForFd(job[v].to) /\ job'[v].via # NoWorker
           /\ pc[v] \in GroupSteps =>
                /\ pc'[v] \in GroupSteps
                /\ job'[v].users \subseteq job[v].users
           /\ pc'[v] = "routeMember" =>
                /\ pc[v] = "lookupMember"
                /\ \E u \in job[v].users : /\ u \notin job'[v].users
                                           /\ job'[v].to = online[u] /\ online[u] # NoFd
           /\ pc'[v] = "sendMember" => job'[v].users = job[v].users
<1>0. pc \in [Workers -> Labels] /\ job \in [Workers -> Job] /\ job[v] \in Job
      /\ online \in [Users -> Fds \cup {NoFd}]
  BY DEF ChatInv, TypeOK
<1>1. NoWorker \notin Workers
  BY DEF NoWorker, Workers
<1> USE DEF TalkSteps, AimSteps, PrivateSteps, GroupSteps
<1>2. CASE GetUserSocketFd(v)
  <2>1. PICK done \in Outcomes("getUserSocketFd") :
          LET toFd == IF done THEN online[job[v].req.user] ELSE NoFd IN
          /\ job' = [job EXCEPT ![v].to = toFd]
          /\ Goto(v, IF toFd \in clients[v] THEN "hung" ELSE "routePrivate")
    BY <1>2 DEF GetUserSocketFd
  <2> DEFINE toFd == IF done THEN online[job[v].req.user] ELSE NoFd
  <2>2. job'[v].to = toFd /\ pc[v] = "getUserSocketFd"
    BY <1>0, <1>2, <2>1 DEF Job, GetUserSocketFd, Runs
  <2>3. pc'[v] = "routePrivate" /\ toFd \notin clients[v]
    BY <1>0, <2>1 DEF Goto
  <2> QED
    BY <2>2, <2>3
<1>3. CASE RoutePrivate(v)
  BY <1>0, <1>3 DEF RoutePrivate, Runs, Goto, Job
<1>4. CASE ListGroup(v)
  <2>1. pc[v] = "listGroup" /\ pc'[v] = "lookupMember"
    BY <1>0, <1>4 DEF ListGroup, Runs, Goto
  <2> QED
    BY <2>1
<1>5. CASE LookupMember(v)
  <2>1. pc[v] = "lookupMember"
    BY <1>5 DEF LookupMember, Runs
  <2>2. PICK u \in job[v].users, done \in Outcomes("lookupMember") :
          LET toFd == IF done THEN online[u] ELSE NoFd IN
          /\ job' = [job EXCEPT ![v] = [@ EXCEPT !.users = Remaining(v, u), !.to = toFd]]
          /\ Goto(v, IF toFd = NoFd \/ toFd \in clients[v] THEN "lookupMember"
                                                           ELSE "routeMember")
    BY <1>5 DEF LookupMember
  <2> DEFINE toFd == IF done THEN online[u] ELSE NoFd
  <2>3. job'[v].to = toFd /\ job'[v].users = job[v].users \ {u}
    BY <1>0, <2>2 DEF Job, Remaining
  <2>4. \/ pc'[v] = "lookupMember"
        \/ pc'[v] = "routeMember" /\ toFd # NoFd /\ toFd \notin clients[v]
    BY <1>0, <2>2 DEF Goto
  <2> QED
    BY <2>1, <2>3, <2>4
<1>6. CASE RouteMember(v)
  BY <1>0, <1>1, <1>6 DEF RouteMember, Runs, Goto, Job
<1>7. CASE SendMember(v)
  <2>1. pc[v] = "sendMember" /\ pc'[v] = "lookupMember" /\ job' = job
    BY <1>0, <1>7 DEF SendMember, Runs, Goto
  <2> QED
    BY <2>1
<1>8. CASE SendPrivate(v) \/ StoreOfflineMessage(v) \/ GroupDone(v) \/ SendReply(v)
  BY <1>0, <1>8 DEF SendPrivate, StoreOfflineMessage, GroupDone, SendReply, Goto, Finish
<1>9. CASE \/ IsUserExists(v) \/ InsertUser(v) \/ VerifyLogin(v) \/ DeleteOnline(v)
           \/ InsertOnline(v) \/ GetOfflineMessages(v) \/ ClearOfflineMessages(v)
  <2>1. CASE IsUserExists(v) \/ InsertUser(v)
    BY <1>0, <2>1 DEF IsUserExists, InsertUser, Goto, Finish
  <2>2. CASE VerifyLogin(v)
    <3>1. pc'[v] = "deleteOnline" \/ pc'[v] = "reply"
      BY <1>0, <2>2 DEF VerifyLogin, Goto, Finish
    <3> QED
      BY <3>1
  <2>3. CASE DeleteOnline(v)
    <3>1. pc'[v] = "insertOnline" \/ pc'[v] = "getOfflineMessages"
      BY <1>0, <2>3 DEF DeleteOnline, OpenSession, Goto
    <3> QED
      BY <3>1
  <2>4. CASE InsertOnline(v)
    BY <1>0, <2>4 DEF InsertOnline, OpenSession, Goto
  <2>5. CASE GetOfflineMessages(v) \/ ClearOfflineMessages(v)
    BY <1>0, <2>5 DEF GetOfflineMessages, ClearOfflineMessages, Goto, Finish
  <2> QED
    BY <1>9, <2>1, <2>2, <2>3, <2>4, <2>5
<1>10. CASE GetAllUsers(v) \/ GetOnlineUsers(v) \/ SetUserOffline(v)
  BY <1>0, <1>10 DEF GetAllUsers, GetOnlineUsers, SetUserOffline, Goto, Finish
<1> QED
  BY <1>2, <1>3, <1>4, <1>5, <1>6, <1>7, <1>8, <1>9, <1>10 DEF HandlerStep

\* While a handler works its worker's connections stay as they are.
LEMMA BusyKeepsClients ==
    ASSUME ChatInv, [Next]_vars, ~Die, NEW w \in Workers, pc[w] # "idle"
    PROVE  clients'[w] = clients[w]
<1>0. clients \in [Workers -> SUBSET Fds]
  BY DEF ChatInv, TypeOK, ConnTypeOK
<1>1. ASSUME NEW v \in Workers, Take(v) PROVE clients' = clients
  BY <1>1, RowsTake
<1>2. ASSUME NEW v \in Workers, HandlerStep(v) PROVE clients' = clients
  BY <1>2, HandlerKeepsConns
<1>3. ASSUME NEW v \in Workers, AddClient(v) PROVE clients'[w] = clients[w]
  BY <1>0, <1>3 DEF AddClient, HandleAdd, KeepClient
<1>4. ASSUME NEW v \in Workers, NEW fd \in Fds, Disconnect(v, fd) PROVE clients'[w] = clients[w]
  BY <1>0, <1>4 DEF Disconnect, RemoveClient, DropClient
<1>5. ASSUME NEW v \in Workers, RefuseClient(v) \/ DeliverNote(v) PROVE clients' = clients
  BY <1>5 DEF RefuseClient, RefuseAdd, DeliverNote, HandleSend
<1>6. CASE MainStep \/ UNCHANGED vars
  BY <1>6 DEF MainStep, Accept, RegisterFd, Start, vars, connVars
<1> QED
  BY <1>1, <1>2, <1>3, <1>4, <1>5, <1>6 DEF Next

\* Somebody will have logged in on descriptor fd after this step.
SpokenNext(fd) == \E u \in Users : SpeaksNext(fd, u)

\* A handler goes on aiming elsewhere.
LEMMA AimsKept ==
    ASSUME ChatInv, AuthInv, RoutedOnce, AimsElsewhere, [Next]_vars
    PROVE  AimsElsewhere'
<1> SUFFICES ASSUME ~Die, NEW w \in Workers
             PROVE  /\ pc'[w] \in AimSteps => job'[w].to \notin clients'[w]
                    /\ pc'[w] \in {"sendPrivate", "sendMember"} /\ Sole(job'[w].to) =>
                         fdToWorker'[job'[w].to] = job'[w].via /\ SpokenNext(job'[w].to)
                    /\ pc'[w] \in {"routeMember", "sendMember"} =>
                         \E u \in Users : u \notin job'[w].users /\ SpeaksNext(job'[w].to, u)
  <2>1. CASE Die
    <3>1. \A w \in Workers : pc'[w] = "idle"
      BY <2>1 DEF Die
    <3> QED
      BY <3>1 DEF AimsElsewhere, AimSteps
  <2>2. CASE ~Die
    BY <2>2 DEF AimsElsewhere, Sole, Spoken, SpokenNext, Speaks, SpeaksNext
  <2> QED
    BY <2>1, <2>2
<1>0. \A x, u : Speaks(x, u) => SpeaksNext(x, u)
  BY SpeaksGrows DEF AuthInv
<1>1. \A x : Spoken(x) => SpokenNext(x)
  BY <1>0 DEF Spoken, SpokenNext
<1>2. CASE pc'[w] = pc[w] /\ job'[w] = job[w]
  <2>1. pc[w] \in AimSteps => clients'[w] = clients[w]
    BY BusyKeepsClients DEF AimSteps
  <2>2. ASSUME pc[w] \in {"sendPrivate", "sendMember"}, Sole(job[w].to)
        PROVE  fdToWorker'[job[w].to] = job[w].via
    <3>1. /\ job[w].to \in Fds /\ fdToWorker[job[w].to] = job[w].via
          /\ job[w].via # NoWorker
      BY <2>2, AtWork DEF Serving, LocalsOf, Job, AimsElsewhere
    <3> QED
      BY <2>2, <3>1, RouteKept
  <2> QED
    BY <1>0, <1>1, <1>2, <2>1, <2>2 DEF AimsElsewhere
<1>3. CASE Take(w)
  BY <1>3, TakeEffect, TakeSpeaks DEF AimSteps, GroupSteps
<1>4. ASSUME HandlerStep(w), pc'[w] \in AimSteps
      PROVE  /\ job'[w].to \notin clients'[w]
             /\ pc'[w] \in {"sendPrivate", "sendMember"} /\ Sole(job'[w].to) =>
                  fdToWorker'[job'[w].to] = job'[w].via /\ SpokenNext(job'[w].to)
             /\ pc'[w] \in {"routeMember", "sendMember"} =>
                  \E u \in Users : u \notin job'[w].users /\ SpeaksNext(job'[w].to, u)
  <2>0. pc'[w] \in TalkSteps /\ clients' = clients /\ fdToWorker' = fdToWorker
    BY <1>4, HandlerKeepsConns DEF AimSteps, TalkSteps, PrivateSteps, GroupSteps
  <2>1. job'[w].to \notin clients'[w]
    BY <1>4, <2>0, TalkEffect DEF AimsElsewhere
  <2>2. ASSUME pc'[w] \in {"sendPrivate", "sendMember"}, Sole(job'[w].to)
        PROVE  fdToWorker'[job'[w].to] = job'[w].via /\ SpokenNext(job'[w].to)
    <3>1. /\ pc[w] = IF pc'[w] = "sendPrivate" THEN "routePrivate" ELSE "routeMember"
          /\ job'[w].to = job[w].to
          /\ job'[w].via = GetWorkerForFd(job[w].to) /\ job'[w].via # NoWorker
      BY <1>4, <2>0, <2>2, TalkEffect
    <3>2. job[w].to # NoFd /\ job'[w].via = fdToWorker[job[w].to]
      BY <3>1 DEF GetWorkerForFd
    <3>3. Spoken(job[w].to)
      <4>1. CASE pc[w] = "routePrivate"
        <5>1. job[w].req.user \in Users
          BY <4>1, AtWork DEF Serving, LocalsOf, PrivateSteps
        <5> QED
          BY <3>2, <4>1, <5>1 DEF AuthInv, LookupsSpeak, Spoken
      <4>2. CASE pc[w] = "routeMember"
        BY <4>2 DEF AimsElsewhere, Spoken
      <4> QED
        BY <3>1, <4>1, <4>2
    <3> QED
      BY <1>1, <2>0, <3>1, <3>2, <3>3
  <2>3. CASE pc'[w] = "routeMember"
    <3>1. PICK u \in job[w].users : /\ u \notin job'[w].users
                                    /\ job'[w].to = online[u] /\ online[u] # NoFd
      BY <1>4, <2>0, <2>3, TalkEffect
    <3>2. u \in Users
      <4>1. job[w] \in Job
        BY DEF ChatInv, TypeOK
      <4> QED
        BY <4>1 DEF Job
    <3>3. Speaks(online[u], u)
      BY <3>1, <3>2 DEF AuthInv, RowsSpeak
    <3>4. SpeaksNext(job'[w].to, u)
      BY <1>0, <3>1, <3>3
    <3> QED
      BY <2>1, <2>3, <3>1, <3>2, <3>4
  <2>4. CASE pc'[w] = "sendMember"
    <3>1. pc[w] = "routeMember" /\ job'[w].to = job[w].to /\ job'[w].users = job[w].users
      BY <1>4, <2>0, <2>4, TalkEffect
    <3> QED
      BY <1>0, <2>1, <2>2, <2>4, <3>1 DEF AimsElsewhere
  <2> QED
    BY <2>1, <2>2, <2>3, <2>4
<1>5. {"sendPrivate", "sendMember"} \subseteq AimSteps /\ {"routeMember", "sendMember"} \subseteq AimSteps
  BY DEF AimSteps
<1> QED
  BY <1>2, <1>3, <1>4, <1>5, WhoMoves

\* What waits goes on waiting where it is routed.
LEMMA OnRouteKept ==
    ASSUME ChatInv, AuthInv, RoutedOnce, OnRoute, AimsElsewhere, [Next]_vars
    PROVE  OnRoute'
<1> SUFFICES ASSUME ~Die, NEW w \in Workers, NEW i \in 1 .. Len(pipe'[w]), pipe'[w][i].type = "s",
                    Sole(pipe'[w][i].fd)
             PROVE  fdToWorker'[pipe'[w][i].fd] = w /\ SpokenNext(pipe'[w][i].fd)
  <2>1. CASE Die
    <3>1. \A w \in Workers : pipe'[w] = <<>>
      BY <2>1 DEF Die, Crash
    <3> QED
      BY <3>1 DEF OnRoute
  <2>2. CASE ~Die
    BY <2>2 DEF OnRoute, Sole, Spoken, SpokenNext, Speaks, SpeaksNext
  <2> QED
    BY <2>1, <2>2
<1>0. pipe[w] \in Seq(Note) /\ NoWorker \notin Workers
  BY DEF ChatInv, TypeOK, ConnTypeOK, Workers, NoWorker
<1>1. \A x : Spoken(x) => SpokenNext(x)
  <2>1. \A x, u : Speaks(x, u) => SpeaksNext(x, u)
    BY SpeaksGrows DEF AuthInv
  <2> QED
    BY <2>1 DEF Spoken, SpokenNext
<1>2. ASSUME NEW x \in Fds, Sole(x), fdToWorker[x] = w, Spoken(x)
      PROVE  fdToWorker'[x] = w /\ SpokenNext(x)
  BY <1>0, <1>1, <1>2, RouteKept
<1>3. ASSUME NEW j \in 1 .. Len(pipe[w]), pipe'[w][i] = pipe[w][j]
      PROVE  fdToWorker'[pipe'[w][i].fd] = w /\ SpokenNext(pipe'[w][i].fd)
  <2>1. pipe[w][j].fd \in Fds
    BY <1>0, <1>3, NoteTypes
  <2>2. fdToWorker[pipe[w][j].fd] = w /\ Spoken(pipe[w][j].fd)
    BY <1>3 DEF OnRoute
  <2> QED
    BY <1>2, <1>3, <2>1, <2>2
<1>4. ASSUME NEW note \in Note, pipe'[w] = Append(pipe[w], note)
      PROVE  \/ \E j \in 1 .. Len(pipe[w]) : pipe'[w][i] = pipe[w][j]
             \/ pipe'[w][i] = note
  BY <1>0, <1>4
<1>5. ASSUME NEW v \in Workers, NEW note \in Note, Sends(v, w, note), Sole(note.fd)
      PROVE  fdToWorker'[note.fd] = w /\ SpokenNext(note.fd)
  <2>1. fdToWorker[note.fd] = w /\ Spoken(note.fd) /\ note.fd \in Fds
    BY <1>5, NoteTypes DEF Sends, AimsElsewhere
  <2> QED
    BY <1>2, <1>5, <2>1
<1>6. CASE pipe[w] # <<>> /\ pipe'[w] = Tail(pipe[w])
  <2>1. \E j \in 1 .. Len(pipe[w]) : pipe'[w][i] = pipe[w][j]
    <3>1. ASSUME NEW queue \in Seq(Note), NEW k \in 1 .. Len(Tail(queue)), queue # <<>>
          PROVE  \E j \in 1 .. Len(queue) : Tail(queue)[k] = queue[j]
      <4>1. k + 1 \in 1 .. Len(queue) /\ Tail(queue)[k] = queue[k + 1]
        BY <3>1
      <4> QED
        BY <4>1
    <3>2. i \in 1 .. Len(Tail(pipe[w]))
      BY <1>6
    <3>3. \E j \in 1 .. Len(pipe[w]) : Tail(pipe[w])[i] = pipe[w][j]
      BY <1>0, <1>6, <3>1, <3>2
    <3> QED
      BY <1>6, <3>3
  <2> QED
    BY <1>3, <2>1
<1> QED
  BY <1>3, <1>4, <1>5, <1>6, PipeMoves

\* What waits for a connection still comes from connections of other workers.
LEMMA FromElsewhereKept ==
    ASSUME ChatInv, AuthInv, AskedServed, OnRoute, AimsElsewhere, FromElsewhere, Reached,
           [Next]_vars
    PROVE  FromElsewhere'
<1> SUFFICES ASSUME NEW w \in Workers, NEW c \in Conns, Alone(c), NEW m, NEW i,
                    WaitsFor(m, c, w, i)', NEW fd \in clients'[w], sock'[fd] = c, NEW e \in clients'[w], sock'[e] = m.conn
             PROVE  FALSE
  BY DEF FromElsewhere, Alone
<1>0. ~Die
  <2>1. Die => pipe'[w] = <<>>
    BY DEF Die, Crash
  <2> QED
    BY <2>1 DEF WaitsFor
<1>1. PICK s \in {0, 1} :
             \/ WaitsFor(m, c, w, i + s)
             \/ \E v \in Workers, note \in Note :
                  Sends(v, w, note) /\ note.msg = m /\ sock[note.fd] = c
  <2>1. PICK s \in {0, 1} : \A x \in Conns : \A y, k : Alone(x) /\ WaitsFor(y, x, w, k)' =>
             \/ WaitsFor(y, x, w, k + s)
             \/ /\ s = 0 /\ k = Len(pipe[w]) + 1
                /\ \E v \in Workers, note \in Note :
                     Sends(v, w, note) /\ note.msg = y /\ sock[note.fd] = x
    BY <1>0, WaitingMoves
  <2> QED
    BY <2>1
<1>2. CASE WaitsFor(m, c, w, i + s)
  <2>1. Toward(m, c)
    BY <1>2 DEF Toward
  <2>2. m.n \in Nat \ {0} /\ m.conn \in Conns /\ asked[m.conn] # <<>>
    <3>1. m.n \in 1 .. MaxSent /\ m.conn \in Conns /\ m.n <= Len(asked[m.conn])
      BY <2>1, TowardType DEF Reached
    <3>2. asked[m.conn] = <<>> => Len(asked[m.conn]) = 0
      OBVIOUS
    <3> QED
      BY <3>1, <3>2, ChatAssumption
  <2>3. asked[c] # <<>>
    <3>1. /\ i + s \in 1 .. Len(pipe[w]) /\ pipe[w][i + s].type = "s"
          /\ sock[pipe[w][i + s].fd] = c
      BY <1>2 DEF WaitsFor
    <3>2. pipe[w] \in Seq(Note)
      BY DEF ChatInv, TypeOK, ConnTypeOK
    <3>5. pipe[w][i + s].fd \in Fds
      BY <3>1, <3>2, NoteTypes
    <3>6. Sole(pipe[w][i + s].fd)
      BY <3>1, <3>5, SoleNow DEF AuthInv
    <3>3. pipe[w][i + s].fd \in Fds /\ Spoken(pipe[w][i + s].fd)
      BY <3>1, <3>5, <3>6 DEF OnRoute
    <3>4. ASSUME NEW x \in Fds, sock[x] = c, Spoken(x) PROVE Earned(c) # {}
      BY <3>4, SpeakerIsOpen DEF AuthInv, Spoken
    <3> QED
      BY <3>1, <3>3, <3>4 DEF Earned
  <2>4. fd \in clients[w] /\ e \in clients[w]
    BY <1>0, <2>2, <2>3, FreshSilent
  <2>5. sock[fd] = c /\ sock[e] = m.conn
    BY <1>0, <2>4, ServedStays
  <2> QED
    BY <1>2, <2>4, <2>5 DEF FromElsewhere
<1>3. ASSUME NEW v \in Workers, NEW note \in Note, Sends(v, w, note), note.msg = m,
             sock[note.fd] = c
      PROVE  FALSE
  <2>1. HandlerStep(v) /\ clients' = clients /\ sock' = sock
    BY <1>3, HandlerKeepsConns DEF Sends
  <2>2. /\ pc[v] \in AimSteps /\ pc[v] # "idle" /\ w = job[v].via /\ note.fd = job[v].to
        /\ m.conn = ConnOf(v)
    BY <1>3 DEF Sends, AimSteps
  <2>3. w = v
    BY <2>1, <2>2, OwnerHandles
  <2>4. fd = note.fd
    <3>1. fd \in Fds /\ note.fd \in Fds /\ sock[fd] # NoConn
      BY <1>3, <2>1, NoteTypes, OwnedIsOpen, ConnAssumption DEF Sends
    <3> QED
      BY <1>3, <2>1, <3>1 DEF ChatInv, ConnInv, Ownership, OneDescriptor
  <2> QED
    BY <2>1, <2>2, <2>3, <2>4 DEF AimsElsewhere
<1> QED
  BY <1>1, <1>2, <1>3

\* A handler's request stays the one it was, and a new one is newer than all messages.
LEMMA CurrentBefore ==
    ASSUME ChatInv, [Next]_vars, ~Die, NEW v \in Workers,
           NEW m, m.conn \in Conns, m.n \in Nat, m.n <= Len(asked[m.conn]), Current(v, m)'
    PROVE  Current(v, m) /\ (HandlerStep(v) \/ (pc'[v] = pc[v] /\ job'[v] = job[v]))
<1>0. pc'[v] \in TalkSteps /\ ConnOf(v)' = m.conn /\ NumberOf(v)' <= m.n
  BY DEF Current
<1>1. "idle" \notin TalkSteps
  BY DEF TalkSteps, PrivateSteps, GroupSteps
<1>2. ASSUME Take(v) PROVE FALSE
  <2>1. PICK fd \in clients[v] : \E r \in Requests[sock[fd]] : Begins(v, fd, r)
    BY <1>2, TakeBegins
  <2>2. PICK r \in Requests[sock[fd]] : Begins(v, fd, r)
    BY <2>1
  <2>3. sock' = sock /\ job'[v].fd = fd /\ asked' = [asked EXCEPT ![sock[fd]] = Append(@, r)]
    BY <1>2, <2>2, RowsTake DEF Begins
  <2>4. sock[fd] = m.conn
    BY <1>0, <2>3 DEF ConnOf
  <2>5. asked[m.conn] \in Seq(Request) /\ asked'[m.conn] = Append(asked[m.conn], r)
    BY <2>3, <2>4 DEF ChatInv, TypeOK
  <2>6. Len(asked'[m.conn]) = Len(asked[m.conn]) + 1 /\ Len(asked[m.conn]) \in Nat
    BY <2>5
  <2>7. NumberOf(v)' = Len(asked'[m.conn])
    BY <1>0 DEF NumberOf
  <2> QED
    BY <1>0, <2>6, <2>7
<1>3. CASE HandlerStep(v)
  <2>1. pc[v] \in TalkSteps /\ job'[v].fd = job[v].fd
    BY <1>0, <1>1, <1>3, TalkEffect, StepEffect
  <2>2. ConnOf(v)' = ConnOf(v) /\ NumberOf(v)' = NumberOf(v)
    BY <1>1, <2>1, SameNumber
  <2> QED
    BY <1>0, <1>3, <2>1, <2>2 DEF Current
<1>4. CASE pc'[v] = pc[v] /\ job'[v] = job[v]
  <2>1. ConnOf(v)' = ConnOf(v) /\ NumberOf(v)' = NumberOf(v)
    BY <1>0, <1>1, <1>4, SameNumber
  <2> QED
    BY <1>0, <1>4, <2>1 DEF Current
<1> QED
  BY <1>2, <1>3, <1>4, WhoMoves

\* A turn that is over stays over.
LEMMA TurnsStayOver ==
    ASSUME ChatInv, AuthInv, AimsElsewhere, Reached, [Next]_vars, ~Die,
           NEW c \in Conns, Alone(c), NEW m, Toward(m, c), NEW v \in Workers, Current(v, m)'
    PROVE  /\ pc'[v] \in GroupSteps
           /\ \E u \in Earned(c)' : u \notin job'[v].users
           /\ pc'[v] # "lookupMember" => sock'[job'[v].to] # c
<1>1. Current(v, m) /\ (HandlerStep(v) \/ (pc'[v] = pc[v] /\ job'[v] = job[v]))
  BY TowardType, CurrentBefore, ChatAssumption DEF Reached
<1>2. pc[v] \in GroupSteps /\ (pc[v] # "lookupMember" => sock[job[v].to] # c)
  BY <1>1 DEF Reached
<1>3. PICK x \in Earned(c) : x \notin job[v].users
  BY <1>1 DEF Reached
<1>4. x \in Earned(c)'
  BY EarnedGrows DEF AuthInv
<1>5. NoConn \notin Conns
  BY ConnAssumption
<1>6. CASE pc'[v] = pc[v] /\ job'[v] = job[v]
  <2>1. ASSUME pc[v] # "lookupMember" PROVE sock'[job[v].to] # c
    <3>1. pc[v] \in {"routeMember", "sendMember"}
      BY <1>2, <2>1 DEF GroupSteps
    <3>2. PICK u \in Users : Speaks(job[v].to, u)
      BY <3>1 DEF AimsElsewhere
    <3>3. Spoken(job[v].to)
      BY <3>2 DEF Spoken
    <3>4. job[v].to \in Fds
      BY <3>2, ConnAssumption DEF Speaks, ChatInv, TypeOK, ConnTypeOK
    <3>5. ASSUME sock'[job[v].to] = c PROVE FALSE
      <4>1. Sole(job[v].to)
        BY <3>4, <3>5, SoleNext
      <4> QED
        BY <1>2, <1>5, <2>1, <3>3, <3>4, <3>5, <4>1, SpokenStays
    <3> QED
      BY <3>5
  <2> QED
    BY <1>2, <1>3, <1>4, <1>6, <2>1
<1>7. CASE HandlerStep(v)
  <2>1. pc'[v] \in TalkSteps /\ sock' = sock
    BY <1>7, HandlerKeepsConns DEF Current
  <2>2. pc'[v] \in GroupSteps /\ x \notin job'[v].users
    BY <1>2, <1>3, <1>7, <2>1, TalkEffect
  <2>3. CASE pc'[v] = "routeMember"
    <3>1. PICK u \in job[v].users : job'[v].to = online[u] /\ online[u] # NoFd
      BY <1>7, <2>1, <2>3, TalkEffect
    <3>2. u \in Users /\ online[u] \in Fds
      <4>1. job[v] \in Job /\ online \in [Users -> Fds \cup {NoFd}]
        BY DEF ChatInv, TypeOK
      <4>2. u \in Users
        BY <4>1 DEF Job
      <4> QED
        BY <3>1, <4>1, <4>2
    <3>3. Speaks(online[u], u)
      BY <3>1, <3>2 DEF AuthInv, RowsSpeak
    <3>4. ASSUME NEW fd \in Fds, sock[fd] = c, Speaks(fd, u) PROVE u \in Earned(c)
      BY <3>4, SpeakerIsOpen DEF AuthInv
    <3>5. sock[online[u]] # c
      BY <1>3, <3>1, <3>2, <3>3, <3>4, OneEarned DEF AuthInv
    <3> QED
      BY <1>4, <2>1, <2>2, <3>1, <3>5
  <2>4. CASE pc'[v] = "sendMember"
    <3>1. pc[v] = "routeMember" /\ job'[v].to = job[v].to
      BY <1>7, <2>1, <2>4, TalkEffect
    <3> QED
      BY <1>2, <1>4, <2>1, <2>2, <3>1
  <2> QED
    BY <1>4, <2>2, <2>3, <2>4 DEF GroupSteps
<1> QED
  BY <1>1, <1>6, <1>7

\* When a handler sends a message the turn of its addressee is over.
LEMMA TurnIsOver ==
    ASSUME ChatInv, AuthInv, AimsElsewhere, [Next]_vars, ~Die,
           NEW c \in Conns, Alone(c), NEW m, NEW y \in Workers,
           \/ \E w \in Workers, note \in Note :
                Sends(y, w, note) /\ note.msg = m /\ sock[note.fd] = c
           \/ Writes(y, m, c)
    PROVE  /\ m.n <= Len(asked'[m.conn])
           /\ \A v \in Workers : Current(v, m)' =>
                /\ pc'[v] \in GroupSteps
                /\ \E u \in Earned(c)' : u \notin job'[v].users
                /\ pc'[v] # "lookupMember" => sock'[job'[v].to] # c
<1>1. HandlerStep(y) /\ pc[y] # "idle" /\ m.conn = ConnOf(y) /\ m.n = NumberOf(y)
  BY DEF Sends, Writes
<1>2. /\ asked' = asked /\ m.conn \in Conns /\ m.n \in Nat /\ m.n <= Len(asked[m.conn])
      /\ job[y] \in Job
  BY <1>1, StepAsksNone, AtWork, ChatAssumption
<1>3. \A u \in Users : u \in Earned(c) => u \in Earned(c)'
  BY EarnedGrows DEF AuthInv
<1>4. ASSUME NEW v \in Workers, Current(v, m)' PROVE v = y
  <2>1. Current(v, m)
    BY <1>2, <1>4, CurrentBefore
  <2>2. pc[v] # "idle" /\ ConnOf(v) = ConnOf(y)
    BY <1>1, <2>1 DEF Current, TalkSteps, PrivateSteps, GroupSteps
  <2> QED
    BY <1>1, <2>2, OneHandler DEF Handling
<1>5. ASSUME NEW fd \in Fds, sock[fd] = c, NEW u \in Users, Speaks(fd, u) PROVE u \in Earned(c)'
  BY <1>3, <1>5, SpeakerIsOpen DEF AuthInv
<1>6. ASSUME NEW w \in Workers, NEW note \in Note, Sends(y, w, note), sock[note.fd] = c,
             Current(y, m)'
      PROVE  pc'[y] = "lookupMember" /\ \E u \in Earned(c)' : u \notin job'[y].users
  <2>1. pc'[y] \in TalkSteps
    BY <1>6 DEF Current
  <2>2. pc[y] = "sendMember" /\ pc'[y] = "lookupMember" /\ note.fd = job[y].to
    BY <1>6, <2>1 DEF Sends, TalkSteps, PrivateSteps, GroupSteps
  <2>3. job'[y].users \subseteq job[y].users
    BY <1>1, <2>1, <2>2, TalkEffect DEF GroupSteps
  <2>4. PICK u \in Users : u \notin job[y].users /\ Speaks(job[y].to, u)
    BY <2>2 DEF AimsElsewhere
  <2>5. note.fd \in Fds
    BY <1>6, NoteTypes DEF Sends
  <2> QED
    BY <1>5, <1>6, <2>2, <2>3, <2>4, <2>5
<1>7. ASSUME Writes(y, m, c)
      PROVE  pc'[y] = "lookupMember" /\ \E u \in Earned(c)' : u \notin job'[y].users
  <2>1. PICK u \in job[y].users : /\ job'[y].users = job[y].users \ {u}
                                  /\ online[u] \in clients[y] /\ sock[online[u]] = c
    BY <1>7 DEF Writes
  <2>2. u \in Users
    BY <1>2 DEF Job
  <2>3. online[u] \in Fds
    BY <2>1, OwnedIsOpen
  <2>4. Speaks(online[u], u)
    BY <2>2, <2>3, ConnAssumption DEF AuthInv, RowsSpeak
  <2> QED
    BY <1>5, <1>7, <2>1, <2>2, <2>3, <2>4 DEF Writes
<1> QED
  BY <1>2, <1>4, <1>6, <1>7 DEF GroupSteps

LEMMA ReachedKept ==
    ASSUME ChatInv, AuthInv, OnRoute, AimsElsewhere, Reached, [Next]_vars
    PROVE  Reached'
<1> SUFFICES ASSUME NEW c \in Conns, Alone(c), NEW m, Toward(m, c)'
             PROVE  /\ m.n <= Len(asked'[m.conn])
                    /\ \A v \in Workers : Current(v, m)' =>
                         /\ pc'[v] \in GroupSteps
                         /\ \E u \in Earned(c)' : u \notin job'[v].users
                         /\ pc'[v] # "lookupMember" => sock'[job'[v].to] # c
  BY DEF Reached, Alone
<1>1. ASSUME Toward(m, c) PROVE m.n <= Len(asked'[m.conn])
  <2>1. m.conn \in Conns /\ m.n \in 1 .. MaxSent /\ m.n <= Len(asked[m.conn])
    BY <1>1, TowardType DEF Reached
  <2>2. asked[m.conn] \in Seq(Request) /\ Len(asked[m.conn]) \in Nat
    BY <2>1 DEF ChatInv, TypeOK
  <2>3. asked'[m.conn] = asked[m.conn] \/ \E r : asked'[m.conn] = Append(asked[m.conn], r)
    BY <2>1, AskedEffect
  <2>4. ASSUME NEW r, asked'[m.conn] = Append(asked[m.conn], r)
        PROVE  Len(asked'[m.conn]) = Len(asked[m.conn]) + 1
    BY <2>2, <2>4
  <2> QED
    BY <2>1, <2>2, <2>3, <2>4, ChatAssumption
<1>2. CASE Die
  <2>1. outbox' = outbox /\ (\A w \in Workers : pipe'[w] = <<>>) /\ \A v \in Workers : pc'[v] = "idle"
    BY <1>2 DEF Die, Crash, ioVars
  <2>2. Toward(m, c)
    BY <2>1 DEF Toward, PushedTo, WaitsFor
  <2>3. \A v \in Workers : ~ Current(v, m)'
    BY <2>1 DEF Current, TalkSteps, PrivateSteps, GroupSteps
  <2> QED
    BY <1>1, <2>2, <2>3
<1>3. CASE ~Die
  <2>1. CASE Toward(m, c)
    BY <1>1, <1>3, <2>1, TurnsStayOver
  <2>2. CASE ~Toward(m, c)
    <3>1. \/ \E y \in Workers : Writes(y, m, c)
          \/ \E y, w \in Workers, note \in Note :
               Sends(y, w, note) /\ note.msg = m /\ sock[note.fd] = c
      <4>1. ASSUME NEW i, PushedTo(m, c, i)' PROVE \E y \in Workers : Writes(y, m, c)
        <5>1. \A w \in Workers : ~ Passes(w, m, c)
          BY <2>2 DEF Passes, Toward
        <5> QED
          BY <2>2, <4>1, <5>1, PushMoves DEF Toward
      <4>2. ASSUME NEW w \in Workers, NEW i, WaitsFor(m, c, w, i)'
            PROVE  \E y \in Workers, note \in Note :
                     Sends(y, w, note) /\ note.msg = m /\ sock[note.fd] = c
        <5>1. PICK s \in {0, 1} : \A x \in Conns : \A q, k : Alone(x) /\ WaitsFor(q, x, w, k)' =>
                 \/ WaitsFor(q, x, w, k + s)
                 \/ /\ s = 0 /\ k = Len(pipe[w]) + 1
                    /\ \E v \in Workers, note \in Note :
                         Sends(v, w, note) /\ note.msg = q /\ sock[note.fd] = x
          BY <1>3, WaitingMoves
        <5> QED
          BY <2>2, <4>2, <5>1 DEF Toward
      <4> QED
        BY <4>1, <4>2 DEF Toward
    <3> QED
      BY <1>3, <3>1, TurnIsOver
  <2> QED
    BY <2>1, <2>2
<1> QED
  BY <1>2, <1>3

LEMMA FifoInit == Init => FifoInv
<1> SUFFICES ASSUME Init PROVE FifoInv
  OBVIOUS
<1>1. /\ \A c \in Conns : asked[c] = <<>> /\ outbox[c] = <<>>
      /\ \A w \in Workers : pipe[w] = <<>> /\ pc[w] = "idle"
      /\ \A fd \in Fds : fdToWorker[fd] = NoWorker
      /\ main.fd = NoFd /\ NoFd \notin Fds
  BY ConnAssumption DEF Init, ConnInit, IdleMain
<1>2. \A c \in Conns : \A m, i : ~ PushedTo(m, c, i)
  BY <1>1 DEF PushedTo
<1>3. \A c \in Conns, w \in Workers : \A m, i : ~ WaitsFor(m, c, w, i)
  BY <1>1 DEF WaitsFor
<1>4. AskedServed /\ RoutedOnce
  BY <1>1 DEF AskedServed, RoutedOnce
<1>5. OnRoute /\ AimsElsewhere
  BY <1>1 DEF OnRoute, AimsElsewhere, AimSteps
<1>6. FromElsewhere /\ Reached /\ SentOrder
  BY <1>2, <1>3 DEF FromElsewhere, Reached, Toward, SentOrder
<1> QED
  BY <1>4, <1>5, <1>6 DEF FifoInv

LEMMA FifoStep ==
    ASSUME ChatInv, AuthInv, FifoInv, [Next]_vars
    PROVE  FifoInv'
<1>1. ChatInv'
  BY ChatStep
<1> QED
  BY <1>1, ServedKept, RouteKept, OnRouteKept, AimsKept, FromElsewhereKept, ReachedKept, OrderKept
     DEF FifoInv

\* What a client sends, another receives in the order in which it was sent and each thing
\* once, whether it is written directly or passed through a socketpair (sendToClient,
\* notifySendMessage, handleNotify).
THEOREM PushFifoHolds == Spec => []PushFifo
<1>1. ChatInv /\ FifoInv => PushFifo
  <2> SUFFICES ASSUME ChatInv, FifoInv, NEW c \in Conns, Alone(c), NEW i \in DOMAIN outbox[c],
                      NEW j \in DOMAIN outbox[c],
                      outbox[c][i].type = "push", outbox[c][j].type = "push", i < j,
                      outbox[c][i].msg.conn = outbox[c][j].msg.conn
               PROVE  outbox[c][i].msg.n < outbox[c][j].msg.n
    BY DEF PushFifo
  <2>1. DOMAIN outbox[c] = 1 .. Len(outbox[c])
    BY DEF ChatInv, TypeOK
  <2>2. PushedTo(outbox[c][i].msg, c, i) /\ PushedTo(outbox[c][j].msg, c, j)
    BY <2>1 DEF PushedTo
  <2> QED
    BY <2>2 DEF FifoInv, SentOrder
<1>2. ChatInv /\ AuthInv /\ FifoInv /\ [Next]_vars => FifoInv'
  BY FifoStep
<1> QED
  BY <1>1, <1>2, FifoInit, AuthHolds, PTL DEF Spec
=============================================================================
