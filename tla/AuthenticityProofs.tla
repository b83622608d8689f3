------------------------- MODULE AuthenticityProofs -------------------------
(***************************************************************************)
(* Nobody acts as a user without that user's password, and messages reach  *)
(* whoever they are for, or the next holder of the descriptor that one had *)
(* before it went: for any number of workers, clients and users, whatever  *)
(* descriptors accept reuses, through crashes, disconnects and failing     *)
(* queries.                                                                *)
(***************************************************************************)
EXTENDS ChatProperties, ChatServerProofs

USE ConnAssumption, ChatAssumption

-----------------------------------------------------------------------------
(* What a step does to each table and history. *)

\* A row of users is never replaced (registerUser).
LEMMA UsersEffect ==
    ASSUME ChatInv, [Next]_vars, NEW u \in Users, users[u] # NoPw
    PROVE  users'[u] = users[u]
<1>0. users \in [Users -> Passwords \cup {NoPw}]
  BY DEF ChatInv, TypeOK
<1>1. ASSUME NEW w \in Workers, InsertUser(w) PROVE users'[u] = users[u]
  BY <1>0, <1>1 DEF InsertUser, Runs, UserRow
<1>2. ASSUME NEW w \in Workers, HandlerStep(w), ~InsertUser(w) PROVE users' = users
  BY <1>2 DEF HandlerStep, IsUserExists, VerifyLogin, DeleteOnline, InsertOnline,
       GetOfflineMessages, ClearOfflineMessages, GetAllUsers, GetOnlineUsers, GetUserSocketFd,
       RoutePrivate, SendPrivate, StoreOfflineMessage, ListGroup, LookupMember, RouteMember,
       SendMember, GroupDone, SetUserOffline, SendReply, dbVars
<1>3. ASSUME NEW w \in Workers, Take(w) PROVE users' = users
  BY <1>3 DEF Take, HandleRegister, HandleLogin, HandleGetFriends, HandlePrivateChat,
              HandleGroupChat, HandleLogout, dbVars
<1>4. CASE MainStep \/ Die \/ UNCHANGED vars
  BY <1>4 DEF MainStep, Die, vars, dbVars
<1>5. ASSUME NEW w \in Workers,
             \/ AddClient(w) \/ RefuseClient(w) \/ DeliverNote(w)
             \/ \E fd \in Fds : Disconnect(w, fd)
      PROVE  users' = users
  BY <1>5 DEF AddClient, RefuseClient, DeliverNote, Disconnect, dbVars
<1> QED
  BY <1>1, <1>2, <1>3, <1>4, <1>5 DEF Next

\* What has been read from a connection is what its client asked (readCallback).
LEMMA AskedEffect ==
    ASSUME ChatInv, [Next]_vars, NEW c \in Conns
    PROVE  asked'[c] = asked[c] \/ \E r \in Requests[c] : asked'[c] = Append(asked[c], r)
<1>0. asked \in [Conns -> Seq(Request)]
  BY DEF ChatInv, TypeOK
<1>1. ASSUME NEW w \in Workers, NEW fd \in clients[w], NEW r \in Requests[sock[fd]],
             asked' = [asked EXCEPT ![sock[fd]] = Append(@, r)]
      PROVE  asked'[c] = asked[c] \/ \E q \in Requests[c] : asked'[c] = Append(asked[c], q)
  BY <1>0, <1>1, OwnedIsOpen
<1>2. ASSUME NEW w \in Workers, Take(w)
      PROVE  \E fd \in clients[w] : \E r \in Requests[sock[fd]] :
               asked' = [asked EXCEPT ![sock[fd]] = Append(@, r)]
  BY <1>2 DEF Take, HandleRegister, HandleLogin, HandleGetFriends, HandlePrivateChat,
              HandleGroupChat, HandleLogout, Begin
<1>3. ASSUME NEW w \in Workers, HandlerStep(w) PROVE asked' = asked
  BY <1>3 DEF HandlerStep, IsUserExists, InsertUser, VerifyLogin, DeleteOnline, InsertOnline,
       GetOfflineMessages, ClearOfflineMessages, GetAllUsers, GetOnlineUsers, GetUserSocketFd,
       RoutePrivate, SendPrivate, StoreOfflineMessage, ListGroup, LookupMember, RouteMember,
       SendMember, GroupDone, SetUserOffline, SendReply, ioVars
<1>4. CASE MainStep \/ Die \/ UNCHANGED vars
  BY <1>4 DEF MainStep, Die, vars, ioVars
<1>5. ASSUME NEW w \in Workers,
             \/ AddClient(w) \/ RefuseClient(w) \/ DeliverNote(w)
             \/ \E fd \in Fds : Disconnect(w, fd)
      PROVE  asked' = asked
  BY <1>5 DEF AddClient, RefuseClient, DeliverNote, Disconnect, ioVars
<1> QED
  BY <1>1, <1>2, <1>3, <1>4, <1>5 DEF Next

\* The connection layer's share: accepted grows, and a descriptor is given to a new
\* connection, one of those it may have (accept).
LEMMA SockEffect ==
    ASSUME ChatInv, [Next]_vars
    PROVE  /\ accepted \subseteq accepted'
           /\ \A fd \in Fds : sock'[fd] # NoConn =>
                \/ sock'[fd] = sock[fd]
                \/ fd \in FdsFor[sock'[fd]] /\ sock'[fd] \notin accepted
<1> DEFINE Goal == /\ accepted \subseteq accepted'
                   /\ \A fd \in Fds : sock'[fd] # NoConn =>
                        \/ sock'[fd] = sock[fd]
                        \/ fd \in FdsFor[sock'[fd]] /\ sock'[fd] \notin accepted
<1>0. [ConnNext]_connVars /\ sock \in [Fds -> Conns \cup {NoConn}]
  BY ChatRefinesStep DEF ChatInv, TypeOK, ConnTypeOK
<1>1. ASSUME NEW c \in Conns, Accept(c) PROVE Goal
  BY <1>0, <1>1 DEF Accept
<1>2. ASSUME NEW w \in Workers, NEW fd \in Fds, RemoveClient(w, fd) PROVE Goal
  BY <1>0, <1>2 DEF RemoveClient
<1>3. CASE RegisterFd \/ Start \/ UNCHANGED connVars
  BY <1>3 DEF RegisterFd, Start, connVars
<1>4. ASSUME NEW w \in Workers, HandleAdd(w) \/ RefuseAdd(w) \/ HandleSend(w) PROVE Goal
  BY <1>0, <1>4 DEF HandleAdd, RefuseAdd, HandleSend
<1>5. ASSUME NEW w \in Workers, NEW fd \in Fds, NEW msg \in Msgs, NotifySendMessage(w, fd, msg)
      PROVE  Goal
  BY <1>5 DEF NotifySendMessage
<1>6. CASE Crash
  BY <1>6 DEF Crash
<1> QED
  BY <1>0, <1>1, <1>2, <1>3, <1>4, <1>5, <1>6 DEF ConnNext

\* What a connection has shown the password of is not taken back: requests are only
\* added, and rows of users are not replaced.
LEMMA EarnedGrows ==
    ASSUME ChatInv, [Next]_vars, AskedByClient, NEW c \in Conns
    PROVE  Earned(c) \subseteq Earned(c)'
<1> SUFFICES ASSUME NEW u \in Users, u \in Earned(c) PROVE u \in Earned(c)'
  BY DEF Earned
<1>1. PICK i \in DOMAIN asked[c] :
        asked[c][i].op = "login" /\ asked[c][i].user = u /\ asked[c][i].pw = users[u]
  BY DEF Earned
<1>2. asked[c][i].pw \in Passwords
  BY <1>1 DEF AskedByClient
<1>3. users'[u] = users[u]
  BY <1>1, <1>2, UsersEffect
<1>4. asked[c] \in Seq(Request)
  BY DEF ChatInv, TypeOK
<1>5. i \in DOMAIN asked'[c] /\ asked'[c][i] = asked[c][i]
  BY <1>4, AskedEffect
<1> QED
  BY <1>1, <1>3, <1>5 DEF Earned

\* A closed connection stays closed, and an open one keeps its descriptor until then.
LEMMA HolderStays ==
    ASSUME ChatInv, [Next]_vars, NEW c \in accepted
    PROVE  /\ c \in accepted'
           /\ Gone(c) => Gone(c)'
           /\ \A fd \in Fds : sock[fd] = c => sock'[fd] = c \/ Gone(c)'
<1>1. c \in accepted' /\ c # NoConn
  BY SockEffect DEF ChatInv, TypeOK, ConnTypeOK
<1>2. \A fd \in Fds : sock'[fd] = c => sock[fd] = c
  BY <1>1, SockEffect
<1>3. \A e, fd \in Fds : sock[e] = c /\ sock[fd] = c => e = fd
  BY <1>1 DEF ChatInv, ConnInv, Ownership, OneDescriptor
<1> QED
  BY <1>1, <1>2, <1>3 DEF Gone

\* Who will speak with descriptor fd after this step, for a descriptor and a user known now.
SpeaksNext(fd, u) ==
    \E c \in accepted' : fd \in FdsFor[c] /\ u \in Earned(c)' /\ (sock'[fd] = c \/ Gone(c)')

\* So neither is what a descriptor has earned.
LEMMA SpeaksGrows ==
    ASSUME ChatInv, [Next]_vars, AskedByClient
    PROVE  \A fd, u : Speaks(fd, u) => SpeaksNext(fd, u)
<1> SUFFICES ASSUME NEW fd, NEW u, Speaks(fd, u) PROVE SpeaksNext(fd, u)
  OBVIOUS
<1>1. PICK c \in accepted :
        fd \in FdsFor[c] /\ u \in Earned(c) /\ (sock[fd] = c \/ Gone(c))
  BY DEF Speaks
<1>2. c \in Conns /\ fd \in Fds
  BY <1>1 DEF ChatInv, TypeOK, ConnTypeOK
<1>3. u \in Earned(c)'
  BY <1>1, <1>2, EarnedGrows
<1>4. c \in accepted' /\ (sock'[fd] = c \/ Gone(c)')
  BY <1>1, <1>2, HolderStays
<1> QED
  BY <1>1, <1>3, <1>4 DEF SpeaksNext

\* Nor whom a connection stands for.
LEMMA StandsGrows ==
    ASSUME ChatInv, [Next]_vars, AskedByClient, NEW c \in Conns, NEW u \in Users, Stands(c, u)
    PROVE  Stands(c, u)'
<1>1. PICK d \in accepted :
        u \in Earned(d) /\ (d = c \/ (Gone(d) /\ FdsFor[c] \cap FdsFor[d] # {}))
  BY DEF Stands
<1>2. d \in Conns
  BY DEF ChatInv, TypeOK, ConnTypeOK
<1>3. u \in Earned(d)' /\ d \in accepted' /\ (Gone(d) => Gone(d)')
  BY <1>1, <1>2, EarnedGrows, HolderStays
<1> QED
  BY <1>1, <1>3 DEF Stands

\* An open connection speaks with its descriptor for the users it has earned.
LEMMA OpenSpeaks ==
    ASSUME ChatInv, OwnDescriptor, NEW fd \in Fds, sock[fd] \in Conns, NEW u,
           u \in Earned(sock[fd])
    PROVE  Speaks(fd, u)
<1>1. sock[fd] \in accepted /\ fd \in FdsFor[sock[fd]]
  BY DEF ChatInv, ConnInv, OpenAccepted, OwnDescriptor
<1> QED
  BY <1>1 DEF Speaks

\* The users of a descriptor are those that the connection which has it stands for.
LEMMA SpeakerStands ==
    ASSUME ChatInv, OwnDescriptor, NEW fd \in Fds, sock[fd] \in Conns, NEW u, Speaks(fd, u)
    PROVE  Stands(sock[fd], u)
<1>1. PICK c \in accepted :
        fd \in FdsFor[c] /\ u \in Earned(c) /\ (sock[fd] = c \/ Gone(c))
  BY DEF Speaks
<1>2. fd \in FdsFor[sock[fd]]
  BY DEF OwnDescriptor
<1> QED
  BY <1>1, <1>2 DEF Stands

\* A session is opened by a login for the name it gave, and otherwise only closed
\* (clientUsers_).
LEMMA SessionsEffect ==
    ASSUME ChatInv, [Next]_vars, NEW w \in Workers, NEW fd \in Fds, clientUsers'[w][fd] # NoUser
    PROVE  \/ clientUsers'[w][fd] = clientUsers[w][fd]
           \/ /\ pc[w] \in LoggedIn /\ fd = job[w].fd
              /\ clientUsers'[w][fd] = job[w].req.user
<1>0. clientUsers \in [Workers -> [Fds -> Users \cup {NoUser}]]
  BY DEF ChatInv, TypeOK
<1>1. ASSUME NEW v \in Workers, DeleteOnline(v) \/ InsertOnline(v)
      PROVE  /\ pc[v] \in LoggedIn
             /\ \/ clientUsers' = clientUsers
                \/ clientUsers' = [clientUsers EXCEPT ![v][job[v].fd] = job[v].req.user]
  BY <1>1 DEF DeleteOnline, InsertOnline, Runs, OpenSession, LoggedIn
<1>2. ASSUME NEW v \in Workers, HandlerStep(v), ~DeleteOnline(v), ~InsertOnline(v)
      PROVE  clientUsers' = clientUsers
  BY <1>2 DEF HandlerStep, IsUserExists, InsertUser, VerifyLogin,
       GetOfflineMessages, ClearOfflineMessages, GetAllUsers, GetOnlineUsers, GetUserSocketFd,
       RoutePrivate, SendPrivate, StoreOfflineMessage, ListGroup, LookupMember, RouteMember,
       SendMember, GroupDone, SetUserOffline, SendReply
<1>3. ASSUME NEW v \in Workers, Take(v)
      PROVE  clientUsers' = clientUsers \/ \E e \in clients[v] : clientUsers' = ClosedSession(v, e)
  BY <1>3 DEF Take, HandleRegister, HandleLogin, HandleGetFriends, HandlePrivateChat,
              HandleGroupChat, HandleLogout
<1>4. CASE MainStep \/ UNCHANGED vars
  BY <1>4 DEF MainStep, vars
<1>5. CASE Die
  BY <1>5 DEF Die, NoSessions
<1>6. ASSUME NEW v \in Workers,
             \/ AddClient(v) \/ RefuseClient(v) \/ DeliverNote(v)
             \/ \E e \in Fds : Disconnect(v, e)
      PROVE  clientUsers' = clientUsers
  BY <1>6 DEF AddClient, RefuseClient, DeliverNote, Disconnect
<1>7. ASSUME NEW v \in Workers, NEW e \in clients[v], clientUsers' = ClosedSession(v, e)
      PROVE  clientUsers'[w][fd] = clientUsers[w][fd]
  BY <1>0, <1>7, OwnedIsOpen DEF ClosedSession
<1>8. ASSUME NEW v \in Workers,
             clientUsers' = [clientUsers EXCEPT ![v][job[v].fd] = job[v].req.user]
      PROVE  \/ clientUsers'[w][fd] = clientUsers[w][fd]
             \/ w = v /\ fd = job[v].fd /\ clientUsers'[w][fd] = job[w].req.user
  BY <1>0, <1>8
<1> QED
  BY <1>1, <1>2, <1>3, <1>4, <1>5, <1>6, <1>7, <1>8 DEF Next

\* A row of online_users is written by a login for the name and descriptor it has.
LEMMA OnlineEffect ==
    ASSUME ChatInv, [Next]_vars, NEW u \in Users, online'[u] # NoFd
    PROVE  \/ online'[u] = online[u]
           \/ \E w \in Workers : /\ pc[w] \in LoggedIn /\ u = job[w].req.user
                                 /\ online'[u] = job[w].fd
<1>0. online \in [Users -> Fds \cup {NoFd}]
  BY DEF ChatInv, TypeOK
<1>1. ASSUME NEW w \in Workers, InsertOnline(w)
      PROVE  /\ pc[w] \in LoggedIn
             /\ online' = online \/ online' = [online EXCEPT ![job[w].req.user] = job[w].fd]
  BY <1>1 DEF InsertOnline, Runs, LoggedIn
<1>2. ASSUME NEW w \in Workers, DeleteOnline(w) \/ SetUserOffline(w)
      PROVE  online' = online \/ \E x : online' = [online EXCEPT ![x] = NoFd]
  BY <1>2 DEF DeleteOnline, SetUserOffline, RowDropped
<1>3. ASSUME NEW w \in Workers, HandlerStep(w),
             ~InsertOnline(w), ~DeleteOnline(w), ~SetUserOffline(w)
      PROVE  online' = online
  BY <1>3 DEF HandlerStep, IsUserExists, InsertUser, VerifyLogin,
       GetOfflineMessages, ClearOfflineMessages, GetAllUsers, GetOnlineUsers, GetUserSocketFd,
       RoutePrivate, SendPrivate, StoreOfflineMessage, ListGroup, LookupMember, RouteMember,
       SendMember, GroupDone, SendReply, dbVars
<1>4. ASSUME NEW w \in Workers, Take(w) PROVE online' = online
  BY <1>4 DEF Take, HandleRegister, HandleLogin, HandleGetFriends, HandlePrivateChat,
              HandleGroupChat, HandleLogout, dbVars
<1>5. CASE MainStep \/ Die \/ UNCHANGED vars
  BY <1>5 DEF MainStep, Die, vars, dbVars
<1>6. ASSUME NEW w \in Workers,
             \/ AddClient(w) \/ RefuseClient(w) \/ DeliverNote(w)
             \/ \E fd \in Fds : Disconnect(w, fd)
      PROVE  online' = online
  BY <1>6 DEF AddClient, RefuseClient, DeliverNote, Disconnect, dbVars
<1>7. ASSUME NEW w \in Workers, online' = [online EXCEPT ![job[w].req.user] = job[w].fd]
      PROVE  online'[u] = online[u] \/ (u = job[w].req.user /\ online'[u] = job[w].fd)
  BY <1>0, <1>7
<1>8. ASSUME NEW x, online' = [online EXCEPT ![x] = NoFd] PROVE online'[u] = online[u]
  BY <1>0, <1>8
<1> QED
  BY <1>1, <1>2, <1>3, <1>4, <1>5, <1>6, <1>7, <1>8 DEF Next

\* What is stored is a message for the user it is stored under.
LEMMA OfflineEffect ==
    ASSUME ChatInv, [Next]_vars, NEW u \in Users
    PROVE  \/ offline'[u] = offline[u] \/ offline'[u] = <<>>
           \/ \E w \in Workers :
                /\ pc[w] = "storeOfflineMessage" /\ job[w].req.user = u
                /\ Forward(w, "private", u) \in Message
                /\ offline'[u] = Append(offline[u], Forward(w, "private", u))
<1>0. offline \in [Users -> Seq(Message)]
  BY DEF ChatInv, TypeOK
<1> DEFINE Goal == \/ offline'[u] = offline[u] \/ offline'[u] = <<>>
                   \/ \E w \in Workers :
                        /\ pc[w] = "storeOfflineMessage" /\ job[w].req.user = u
                        /\ Forward(w, "private", u) \in Message
                        /\ offline'[u] = Append(offline[u], Forward(w, "private", u))
<1>1. ASSUME NEW w \in Workers, StoreOfflineMessage(w) PROVE Goal
  <2> DEFINE v == job[w].req.user
             m == Forward(w, "private", v)
  <2>1. m \in Message /\ pc[w] = "storeOfflineMessage"
    BY <1>1, AtWork, ForwardType DEF StoreOfflineMessage, Runs, Serving, LocalsOf, PrivateSteps,
                                     SessionSteps
  <2>2. offline' = offline \/ offline' = [offline EXCEPT ![v] = Append(@, m)]
    BY <1>1 DEF StoreOfflineMessage, Stored
  <2>3. v # u => offline'[u] = offline[u]
    <3> HIDE DEF v, m
    <3> QED
      BY <1>0, <2>2
  <2>4. v = u => offline'[u] = offline[u] \/ offline'[u] = Append(offline[u], m)
    <3> HIDE DEF v, m
    <3> QED
      BY <1>0, <2>2
  <2> QED
    BY <2>1, <2>3, <2>4
<1>2. ASSUME NEW w \in Workers, ClearOfflineMessages(w) PROVE Goal
  <2>1. offline' = offline \/ \E v : offline' = [offline EXCEPT ![v] = <<>>]
    BY <1>2 DEF ClearOfflineMessages, Cleared
  <2> QED
    BY <1>0, <2>1
<1>3. ASSUME NEW w \in Workers, HandlerStep(w), ~StoreOfflineMessage(w), ~ClearOfflineMessages(w)
      PROVE  offline' = offline
  BY <1>3 DEF HandlerStep, IsUserExists, InsertUser, VerifyLogin, DeleteOnline, InsertOnline,
       GetOfflineMessages, GetAllUsers, GetOnlineUsers, GetUserSocketFd,
       RoutePrivate, SendPrivate, ListGroup, LookupMember, RouteMember,
       SendMember, GroupDone, SetUserOffline, SendReply, dbVars
<1>4. ASSUME NEW w \in Workers, Take(w) PROVE offline' = offline
  BY <1>4 DEF Take, HandleRegister, HandleLogin, HandleGetFriends, HandlePrivateChat,
              HandleGroupChat, HandleLogout, dbVars
<1>5. CASE MainStep \/ Die \/ UNCHANGED vars
  BY <1>5 DEF MainStep, Die, vars, dbVars
<1>6. ASSUME NEW w \in Workers,
             \/ AddClient(w) \/ RefuseClient(w) \/ DeliverNote(w)
             \/ \E fd \in Fds : Disconnect(w, fd)
      PROVE  offline' = offline
  BY <1>6 DEF AddClient, RefuseClient, DeliverNote, Disconnect, dbVars
<1> QED
  BY <1>1, <1>2, <1>3, <1>4, <1>5, <1>6 DEF Next
-----------------------------------------------------------------------------
(* What a step does to a worker's control point and locals. *)

\* A query of one worker's handler is none of the other workers' business.
LEMMA StepIsOwn ==
    ASSUME ChatInv, NEW v \in Workers, HandlerStep(v), NEW w \in Workers, v # w
    PROVE  pc'[w] = pc[w] /\ job'[w] = job[w]
<1>0. pc \in [Workers -> Labels] /\ job \in [Workers -> Job]
  BY DEF ChatInv, TypeOK
<1>1. pc'[w] = pc[w]
  BY <1>0 DEF HandlerStep, IsUserExists, InsertUser, VerifyLogin, DeleteOnline,
     InsertOnline, GetOfflineMessages, ClearOfflineMessages, GetAllUsers, GetOnlineUsers,
     GetUserSocketFd, RoutePrivate, SendPrivate, StoreOfflineMessage, ListGroup, LookupMember,
     RouteMember, SendMember, GroupDone, SetUserOffline, SendReply, Goto, Finish, OpenSession
<1>2. job'[w] = job[w]
  BY <1>0 DEF HandlerStep, IsUserExists, InsertUser, VerifyLogin, DeleteOnline,
     InsertOnline, GetOfflineMessages, ClearOfflineMessages, GetAllUsers, GetOnlineUsers,
     GetUserSocketFd, RoutePrivate, SendPrivate, StoreOfflineMessage, ListGroup, LookupMember,
     RouteMember, SendMember, GroupDone, SetUserOffline, SendReply, Finish, OpenSession
<1> QED
  BY <1>1, <1>2

\* They are the worker's own.
LEMMA WhoMoves ==
    ASSUME ChatInv, [Next]_vars, ~Die, NEW w \in Workers
    PROVE  \/ pc'[w] = pc[w] /\ job'[w] = job[w]
           \/ Take(w)
           \/ HandlerStep(w)
<1>0. pc \in [Workers -> Labels] /\ job \in [Workers -> Job]
  BY DEF ChatInv, TypeOK
<1>1. ASSUME NEW v \in Workers, v # w, HandlerStep(v) PROVE pc'[w] = pc[w] /\ job'[w] = job[w]
  BY <1>1, StepIsOwn
<1>2. ASSUME NEW v \in Workers, v # w, Take(v) PROVE pc'[w] = pc[w] /\ job'[w] = job[w]
  BY <1>0, <1>2 DEF Take, HandleRegister, HandleLogin, HandleGetFriends, HandlePrivateChat,
              HandleGroupChat, HandleLogout, Begin, Goto
<1>3. CASE MainStep \/ UNCHANGED vars
  BY <1>3 DEF MainStep, vars, ctlVars
<1>4. ASSUME NEW v \in Workers,
             \/ AddClient(v) \/ RefuseClient(v) \/ DeliverNote(v)
             \/ \E fd \in Fds : Disconnect(v, fd)
      PROVE  pc' = pc /\ job' = job
  BY <1>4 DEF AddClient, RefuseClient, DeliverNote, Disconnect, ctlVars
<1> QED
  BY <1>1, <1>2, <1>3, <1>4 DEF Next

\* A handler begins with fresh locals (processMessage).
LEMMA TakeEffect ==
    ASSUME ChatInv, NEW w \in Workers, Take(w)
    PROVE  /\ pc'[w] \notin LoggedIn \cup {"routePrivate", "sendPrivate"}
           /\ pc'[w] = "verifyLogin" => job'[w].req.op = "login"
           /\ job'[w].off = <<>>
<1>0. pc \in [Workers -> Labels] /\ job \in [Workers -> Job]
  BY DEF ChatInv, TypeOK
<1>1. CASE HandleLogin(w)
  <2>0. PICK fd \in clients[w] : \E r \in Requests[sock[fd]] :
          /\ r.op = "login"
          /\ Begin(w, fd, r, "verifyLogin", FALSE)
    BY <1>1 DEF HandleLogin
  <2>1. PICK r \in Requests[sock[fd]] : r.op = "login" /\ Begin(w, fd, r, "verifyLogin", FALSE)
    BY <2>0
  <2>2. pc'[w] = "verifyLogin" /\ job'[w].req = r /\ job'[w].off = <<>>
    BY <1>0, <2>1 DEF Begin, Goto, IdleJob
  <2> QED
    BY <2>1, <2>2 DEF LoggedIn
<1>2. CASE HandleRegister(w)
  <2>0. PICK fd \in clients[w] : \E r \in Requests[sock[fd]] :
          /\ r.op = "register"
          /\ Begin(w, fd, r, "isUserExists", FALSE)
    BY <1>2 DEF HandleRegister
  <2>1. PICK r \in Requests[sock[fd]] : r.op = "register" /\ Begin(w, fd, r, "isUserExists", FALSE)
    BY <2>0
  <2>2. pc'[w] = "isUserExists" /\ job'[w].req = r /\ job'[w].off = <<>>
    BY <1>0, <2>1 DEF Begin, Goto, IdleJob
  <2> QED
    BY <2>1, <2>2 DEF LoggedIn
<1>3. CASE HandleGetFriends(w)
  <2>0. PICK fd \in clients[w] : \E r \in Requests[sock[fd]] :
          /\ r.op = "friends"
          /\ Begin(w, fd, r, "getAllUsers", FALSE)
    BY <1>3 DEF HandleGetFriends
  <2>1. PICK r \in Requests[sock[fd]] : r.op = "friends" /\ Begin(w, fd, r, "getAllUsers", FALSE)
    BY <2>0
  <2>2. pc'[w] = "getAllUsers" /\ job'[w].req = r /\ job'[w].off = <<>>
    BY <1>0, <2>1 DEF Begin, Goto, IdleJob
  <2> QED
    BY <2>1, <2>2 DEF LoggedIn
<1>4. CASE HandlePrivateChat(w)
  <2>0. PICK fd \in clients[w] : \E r \in Requests[sock[fd]] :
          /\ r.op = "private"
          /\ Begin(w, fd, r, ChatStart(clientUsers[w][fd], "getUserSocketFd"), FALSE)
    BY <1>4 DEF HandlePrivateChat
  <2>1. PICK r \in Requests[sock[fd]] :
          /\ r.op = "private"
          /\ Begin(w, fd, r, ChatStart(clientUsers[w][fd], "getUserSocketFd"), FALSE)
    BY <2>0
  <2>2. pc'[w] \in {"reply", "getUserSocketFd"} /\ job'[w].req = r /\ job'[w].off = <<>>
    BY <1>0, <2>1 DEF Begin, Goto, IdleJob, ChatStart
  <2> QED
    BY <2>1, <2>2 DEF LoggedIn
<1>5. CASE HandleGroupChat(w)
  <2>0. PICK fd \in clients[w] : \E r \in Requests[sock[fd]] :
          /\ r.op = "group"
          /\ Begin(w, fd, r, ChatStart(clientUsers[w][fd], "listGroup"), FALSE)
    BY <1>5 DEF HandleGroupChat
  <2>1. PICK r \in Requests[sock[fd]] :
          /\ r.op = "group"
          /\ Begin(w, fd, r, ChatStart(clientUsers[w][fd], "listGroup"), FALSE)
    BY <2>0
  <2>2. pc'[w] \in {"reply", "listGroup"} /\ job'[w].req = r /\ job'[w].off = <<>>
    BY <1>0, <2>1 DEF Begin, Goto, IdleJob, ChatStart
  <2> QED
    BY <2>1, <2>2 DEF LoggedIn
<1>6. CASE HandleLogout(w)
  <2>0. PICK fd \in clients[w] : \E r \in Requests[sock[fd]] :
          /\ r.op = "logout"
          /\ Begin(w, fd, r, IF clientUsers[w][fd] = NoUser THEN "reply"
                                                            ELSE "setUserOffline", TRUE)
    BY <1>6 DEF HandleLogout
  <2>1. PICK r \in Requests[sock[fd]] :
          /\ r.op = "logout"
          /\ Begin(w, fd, r, IF clientUsers[w][fd] = NoUser THEN "reply"
                                                            ELSE "setUserOffline", TRUE)
    BY <2>0
  <2>2. pc'[w] \in {"reply", "setUserOffline"} /\ job'[w].req = r /\ job'[w].off = <<>>
    BY <1>0, <2>1 DEF Begin, Goto, IdleJob
  <2> QED
    BY <2>1, <2>2 DEF LoggedIn
<1> QED
  BY <1>1, <1>2, <1>3, <1>4, <1>5, <1>6 DEF Take

\* Only the queries of a login lead to the steps that open a session, only the lookup
\* of an addressee to those that send, and only getOfflineMessages reads messages.
LEMMA StepEffect ==
    ASSUME ChatInv, NEW w \in Workers, HandlerStep(w), pc'[w] # "idle"
    PROVE  /\ pc[w] # "idle" /\ job'[w].fd = job[w].fd /\ job'[w].req = job[w].req
           /\ pc'[w] # "verifyLogin"
           /\ pc'[w] \in LoggedIn => \/ pc[w] \in LoggedIn
                                     \/ pc[w] = "verifyLogin" /\ Verified(job[w].req)
           /\ job'[w].off # job[w].off =>
                pc[w] \in LoggedIn /\ job'[w].off = offline[job[w].req.user]
           /\ pc'[w] \in {"routePrivate", "sendPrivate"} =>
                \/ pc[w] = "routePrivate" /\ job'[w].to = job[w].to
                \/ pc[w] = "getUserSocketFd" /\ job'[w].to \in {NoFd, online[job[w].req.user]}
<1>0. pc \in [Workers -> Labels] /\ job \in [Workers -> Job] /\ job[w] \in Job
  BY DEF ChatInv, TypeOK
<1> USE DEF LoggedIn, Goto, Runs
<1>1. CASE \E ok : Finish(w, ok)
  <2>1. pc[w] # "idle"
    BY DEF HandlerStep, IsUserExists, InsertUser, VerifyLogin, DeleteOnline,
       InsertOnline, GetOfflineMessages, ClearOfflineMessages, GetAllUsers, GetOnlineUsers,
       GetUserSocketFd, RoutePrivate, SendPrivate, StoreOfflineMessage, ListGroup, LookupMember,
       RouteMember, SendMember, GroupDone, SetUserOffline, SendReply
  <2> QED
    BY <1>0, <1>1, <2>1 DEF Finish, Job
<1>2. CASE IsUserExists(w)
  BY <1>0, <1>1, <1>2 DEF IsUserExists
<1>3. CASE VerifyLogin(w)
  BY <1>0, <1>1, <1>3 DEF VerifyLogin
<1>4. CASE DeleteOnline(w) \/ InsertOnline(w)
  BY <1>0, <1>4 DEF DeleteOnline, InsertOnline, OpenSession
<1>5. CASE GetOfflineMessages(w)
  <2>1. pc[w] = "getOfflineMessages"
    BY <1>5 DEF GetOfflineMessages
  <2>2. CASE /\ job' = [job EXCEPT ![w].off = offline[job[w].req.user]]
             /\ Goto(w, "clearOfflineMessages")
    <3>1. /\ job'[w].fd = job[w].fd /\ job'[w].req = job[w].req
          /\ job'[w].off = offline[job[w].req.user]
      BY <1>0, <2>2 DEF Job
    <3>2. pc'[w] = "clearOfflineMessages"
      BY <1>0, <2>2
    <3> QED
      BY <2>1, <3>1, <3>2
  <2> QED
    BY <1>1, <1>5, <2>2 DEF GetOfflineMessages
<1>6. CASE GetAllUsers(w)
  <2>1. PICK S : job' = [job EXCEPT ![w] = [job[w] EXCEPT !.all = S]]
    BY <1>0, <1>6 DEF GetAllUsers
  <2>2. /\ job'[w].fd = job[w].fd /\ job'[w].req = job[w].req /\ job'[w].off = job[w].off
    BY <1>0, <2>1 DEF Job
  <2>3. pc[w] = "getAllUsers" /\ pc'[w] = "getOnlineUsers"
    BY <1>0, <1>6 DEF GetAllUsers
  <2> QED
    BY <2>2, <2>3
<1>7. CASE GetOnlineUsers(w)
  <2>1. PICK S : job' = [job EXCEPT ![w] = [job[w] EXCEPT !.users = S, !.ok = TRUE]]
    BY <1>0, <1>7 DEF GetOnlineUsers, OnlineUsers
  <2>2. /\ job'[w].fd = job[w].fd /\ job'[w].req = job[w].req /\ job'[w].off = job[w].off
    BY <1>0, <2>1 DEF Job
  <2>3. pc[w] = "getOnlineUsers" /\ pc'[w] = "reply"
    BY <1>0, <1>7 DEF GetOnlineUsers
  <2> QED
    BY <2>2, <2>3
<1>8. CASE ListGroup(w)
  <2>1. PICK S : job' = [job EXCEPT ![w] = [job[w] EXCEPT !.users = S]]
    BY <1>0, <1>8 DEF ListGroup, Recipients
  <2>2. /\ job'[w].fd = job[w].fd /\ job'[w].req = job[w].req /\ job'[w].off = job[w].off
    BY <1>0, <2>1 DEF Job
  <2>3. pc[w] = "listGroup" /\ pc'[w] = "lookupMember"
    BY <1>0, <1>8 DEF ListGroup
  <2> QED
    BY <2>2, <2>3
<1>9. CASE GetUserSocketFd(w)
  <2>1. PICK to \in {NoFd, online[job[w].req.user]} : job' = [job EXCEPT ![w].to = to]
    BY <1>9 DEF GetUserSocketFd
  <2>2. /\ job'[w].fd = job[w].fd /\ job'[w].req = job[w].req /\ job'[w].off = job[w].off
        /\ job'[w].to = to
    BY <1>0, <2>1 DEF Job
  <2>3. pc[w] = "getUserSocketFd" /\ pc'[w] \in {"hung", "routePrivate"}
    BY <1>0, <1>9 DEF GetUserSocketFd
  <2> QED
    BY <2>1, <2>2, <2>3
<1>10. CASE RoutePrivate(w) \/ RouteMember(w)
  <2>1. PICK v : job' = [job EXCEPT ![w].via = v]
    BY <1>10 DEF RoutePrivate, RouteMember
  <2>2. /\ job'[w].fd = job[w].fd /\ job'[w].req = job[w].req /\ job'[w].off = job[w].off
        /\ job'[w].to = job[w].to
    BY <1>0, <2>1 DEF Job
  <2>3. \/ pc[w] = "routePrivate" /\ pc'[w] \in {"storeOfflineMessage", "sendPrivate"}
        \/ pc[w] = "routeMember" /\ pc'[w] \in {"lookupMember", "sendMember"}
    BY <1>0, <1>10 DEF RoutePrivate, RouteMember
  <2> QED
    BY <2>2, <2>3
<1>11. CASE LookupMember(w)
  <2>1. \E S, to : job' = [job EXCEPT ![w] = [job[w] EXCEPT !.users = S, !.to = to]]
    BY <1>0, <1>11 DEF LookupMember
  <2>2. /\ job'[w].fd = job[w].fd /\ job'[w].req = job[w].req /\ job'[w].off = job[w].off
    BY <1>0, <2>1 DEF Job
  <2>3. pc[w] = "lookupMember" /\ pc'[w] \in {"lookupMember", "routeMember"}
    BY <1>0, <1>11 DEF LookupMember
  <2> QED
    BY <2>2, <2>3
<1>12. CASE SendMember(w)
  BY <1>0, <1>12 DEF SendMember
<1>13. CASE \/ InsertUser(w) \/ ClearOfflineMessages(w) \/ SendPrivate(w)
            \/ StoreOfflineMessage(w) \/ GroupDone(w) \/ SetUserOffline(w)
  BY <1>1, <1>13 DEF InsertUser, ClearOfflineMessages, SendPrivate, StoreOfflineMessage,
                     GroupDone, SetUserOffline
<1>14. CASE SendReply(w)
  BY <1>0, <1>14 DEF SendReply
<1> QED
  BY <1>2, <1>3, <1>4, <1>5, <1>6, <1>7, <1>8, <1>9, <1>10, <1>11, <1>12, <1>13, <1>14
     DEF HandlerStep
-----------------------------------------------------------------------------
(* What a step sends, to a socketpair or to a client. *)

\* A notification in a socketpair is the connection layer's own, or was sent by the
\* handler of a chat request (notifySendMessage).
LEMMA PipeEffect ==
    ASSUME ChatInv, [Next]_vars, NEW w \in Workers, NEW i \in DOMAIN pipe'[w]
    PROVE  \/ \E j \in DOMAIN pipe[w] : pipe'[w][i] = pipe[w][j]
           \/ pipe'[w][i].type = "c"
           \/ \E v \in Workers :
                /\ pipe'[w][i].fd = job[v].to
                /\ \/ /\ SendPrivate(v)
                      /\ pipe'[w][i].msg = Forward(v, "private", job[v].req.user)
                   \/ SendMember(v) /\ pipe'[w][i].msg = Forward(v, "group", NoUser)
<1> DEFINE Old == \E j \in DOMAIN pipe[w] : pipe'[w][i] = pipe[w][j]
<1>0. pipe \in [Workers -> Seq(Note)]
  BY DEF ChatInv, TypeOK, ConnTypeOK
<1>1. ASSUME NEW v, NEW note, pipe' = Enqueue(v, note), pipe'[w][i] # note PROVE Old
  BY <1>0, <1>1 DEF Enqueue
<1>2. ASSUME NEW v \in Workers, pipe[v] # <<>>, pipe' = [pipe EXCEPT ![v] = Tail(@)] PROVE Old
  <2>1. CASE v = w
    <3>1. pipe'[w] = Tail(pipe[w]) /\ pipe[w] \in Seq(Note) /\ pipe[w] # <<>>
      BY <1>0, <1>2, <2>1
    <3>2. i \in 1 .. Len(pipe[w]) - 1
      <4>1. i \in DOMAIN Tail(pipe[w])
        BY <3>1
      <4> QED
        BY <3>1, <4>1
    <3>3. i + 1 \in DOMAIN pipe[w] /\ pipe'[w][i] = pipe[w][i + 1]
      BY <3>1, <3>2
    <3> QED
      BY <3>3
  <2>2. CASE v # w
    BY <1>0, <1>2, <2>2
  <2> QED
    BY <2>1, <2>2
<1>3. ASSUME NEW c \in Conns, Accept(c) PROVE Old \/ pipe'[w][i].type = "c"
  <2>1. PICK fd : pipe' = Enqueue(nextWorkerIndex, [type |-> "c", fd |-> fd])
    BY <1>3 DEF Accept
  <2> QED
    BY <1>1, <2>1
<1>4. ASSUME NEW v \in Workers, SendPrivate(v)
      PROVE  Old \/ (/\ pipe'[w][i].fd = job[v].to
                     /\ pipe'[w][i].msg = Forward(v, "private", job[v].req.user))
  <2> DEFINE msg == Forward(v, "private", job[v].req.user)
  <2> HIDE DEF msg
  <2>1. pipe' = Enqueue(job[v].via, [type |-> "s", fd |-> job[v].to, msg |-> msg])
    BY <1>4 DEF SendPrivate, NotifySendMessage, msg
  <2>2. Old \/ (pipe'[w][i].fd = job[v].to /\ pipe'[w][i].msg = msg)
    BY <1>1, <2>1
  <2> QED
    BY <2>2 DEF msg
<1>5. ASSUME NEW v \in Workers, SendMember(v)
      PROVE  Old \/ (/\ pipe'[w][i].fd = job[v].to
                     /\ pipe'[w][i].msg = Forward(v, "group", NoUser))
  <2> DEFINE msg == Forward(v, "group", NoUser)
  <2> HIDE DEF msg
  <2>1. pipe' = Enqueue(job[v].via, [type |-> "s", fd |-> job[v].to, msg |-> msg])
    BY <1>5 DEF SendMember, NotifySendMessage, msg
  <2>2. Old \/ (pipe'[w][i].fd = job[v].to /\ pipe'[w][i].msg = msg)
    BY <1>1, <2>1
  <2> QED
    BY <2>2 DEF msg
<1>6. ASSUME NEW v \in Workers, HandlerStep(v), ~SendPrivate(v), ~SendMember(v)
      PROVE  pipe' = pipe
  BY <1>6 DEF HandlerStep, IsUserExists, InsertUser, VerifyLogin, DeleteOnline, InsertOnline,
       GetOfflineMessages, ClearOfflineMessages, GetAllUsers, GetOnlineUsers, GetUserSocketFd,
       RoutePrivate, StoreOfflineMessage, ListGroup, LookupMember, RouteMember, GroupDone,
       SetUserOffline, SendReply, connVars
<1>7. ASSUME NEW v \in Workers, Take(v) PROVE pipe' = pipe
  BY <1>7 DEF Take, HandleRegister, HandleLogin, HandleGetFriends, HandlePrivateChat,
              HandleGroupChat, HandleLogout, connVars
<1>8. ASSUME NEW v \in Workers, AddClient(v) \/ RefuseClient(v) \/ DeliverNote(v) PROVE Old
  BY <1>2, <1>8 DEF AddClient, RefuseClient, DeliverNote, HandleAdd, RefuseAdd, HandleSend
<1>9. ASSUME NEW v \in Workers, NEW fd \in Fds, Disconnect(v, fd) PROVE pipe' = pipe
  BY <1>9 DEF Disconnect, RemoveClient
<1>10. CASE Die
  <2>1. pipe'[w] = <<>>
    BY <1>10 DEF Die, Crash
  <2> QED
    BY <2>1
<1>11. CASE RegisterFd \/ Start \/ UNCHANGED vars
  BY <1>11 DEF RegisterFd, Start, vars, connVars
<1> QED
  BY <1>3, <1>4, <1>5, <1>6, <1>7, <1>8, <1>9, <1>10, <1>11 DEF Next, MainStep

\* What is appended to c's output buffer is the answer to c, a group message, or a
\* notification for c's descriptor (sendToClient, handleNotify).
LEMMA OutboxEffect ==
    ASSUME ChatInv, [Next]_vars, NEW c \in Conns, NEW i \in DOMAIN outbox'[c]
    PROVE  \/ i \in DOMAIN outbox[c] /\ outbox'[c][i] = outbox[c][i]
           \/ \E w \in Workers : /\ pc[w] # "idle" /\ ConnOf(w) = c
                                 /\ outbox'[c][i].type = "reply"
                                 /\ outbox'[c][i].off = job[w].off
           \/ \E w \in Workers : \E u \in job[w].users :
                /\ pc[w] = "lookupMember" /\ online[u] \in clients[w] /\ c = sock[online[u]]
                /\ outbox'[c][i].type = "push"
                /\ outbox'[c][i].msg = Forward(w, "group", NoUser)
           \/ \E w \in Workers : \E j \in DOMAIN pipe[w] :
                /\ pipe[w][j].type = "s" /\ pipe[w][j].fd \in clients[w] /\ c = sock[pipe[w][j].fd]
                /\ outbox'[c][i].type = "push" /\ outbox'[c][i].msg = pipe[w][j].msg
<1> DEFINE Old == i \in DOMAIN outbox[c] /\ outbox'[c][i] = outbox[c][i]
<1>0. outbox \in [Conns -> Seq(Reply \cup Push)] /\ pipe \in [Workers -> Seq(Note)]
  BY DEF ChatInv, TypeOK, ConnTypeOK
<1>1. ASSUME NEW d, NEW packet, outbox' = Write(d, packet), ~Old
      PROVE  c = d /\ outbox'[c][i] = packet
  <2>1. outbox[c] \in Seq(Reply \cup Push)
    BY <1>0
  <2>2. c = d
    BY <1>0, <1>1 DEF Write
  <2>3. outbox'[c] = Append(outbox[c], packet)
    BY <1>0, <1>1, <2>2 DEF Write
  <2> QED
    BY <1>1, <2>1, <2>2, <2>3
<1>2. ASSUME NEW w \in Workers, SendReply(w), ~Old
      PROVE  /\ pc[w] # "idle" /\ ConnOf(w) = c
             /\ outbox'[c][i].type = "reply" /\ outbox'[c][i].off = job[w].off
  <2>1. pc[w] # "idle" /\ (outbox' = outbox \/ outbox' = Write(ConnOf(w), ReplyOf(w)))
    BY <1>2 DEF SendReply, Runs
  <2>2. ReplyOf(w).type = "reply" /\ ReplyOf(w).off = job[w].off
    BY DEF ReplyOf
  <2> QED
    BY <1>1, <1>2, <2>1, <2>2
<1>3. ASSUME NEW w \in Workers, LookupMember(w), ~Old
      PROVE  \E u \in job[w].users :
                /\ pc[w] = "lookupMember" /\ online[u] \in clients[w] /\ c = sock[online[u]]
                /\ outbox'[c][i].type = "push"
                /\ outbox'[c][i].msg = Forward(w, "group", NoUser)
  <2> DEFINE packet == PushOf(Forward(w, "group", NoUser))
  <2>1. PICK u \in job[w].users, done \in Outcomes("lookupMember") :
          outbox' = IF (IF done THEN online[u] ELSE NoFd) \in clients[w]
                    THEN Write(sock[IF done THEN online[u] ELSE NoFd], packet)
                    ELSE outbox
    BY <1>3 DEF LookupMember
  <2>2. NoFd \notin clients[w] /\ pc[w] = "lookupMember"
    BY <1>3, OwnedIsOpen DEF LookupMember, Runs
  <2>3. packet.type = "push" /\ packet.msg = Forward(w, "group", NoUser)
    BY DEF PushOf
  <2> HIDE DEF packet
  <2>4. online[u] \in clients[w] /\ outbox' = Write(sock[online[u]], packet)
    BY <1>3, <2>1, <2>2
  <2> QED
    BY <1>1, <1>3, <2>2, <2>3, <2>4
<1>4. ASSUME NEW w \in Workers, DeliverNote(w), ~Old
      PROVE  \E j \in DOMAIN pipe[w] :
                /\ pipe[w][j].type = "s" /\ pipe[w][j].fd \in clients[w] /\ c = sock[pipe[w][j].fd]
                /\ outbox'[c][i].type = "push" /\ outbox'[c][i].msg = pipe[w][j].msg
  <2> DEFINE note == pipe[w][1]
  <2>1. 1 \in DOMAIN pipe[w] /\ Head(pipe[w]) = note /\ note.type = "s"
    BY <1>0, <1>4, TailFacts DEF DeliverNote, HandleSend
  <2>2. \/ outbox' = outbox
        \/ note.fd \in clients[w] /\ outbox' = Write(sock[note.fd], PushOf(note.msg))
    BY <1>4, <2>1 DEF DeliverNote, Delivered
  <2>3. PushOf(note.msg).type = "push" /\ PushOf(note.msg).msg = note.msg
    BY DEF PushOf
  <2> QED
    BY <1>1, <1>4, <2>1, <2>2, <2>3
<1>5. ASSUME NEW w \in Workers, HandlerStep(w), ~SendReply(w), ~LookupMember(w)
      PROVE  outbox' = outbox
  BY <1>5 DEF HandlerStep, IsUserExists, InsertUser, VerifyLogin, DeleteOnline, InsertOnline,
       GetOfflineMessages, ClearOfflineMessages, GetAllUsers, GetOnlineUsers, GetUserSocketFd,
       RoutePrivate, SendPrivate, StoreOfflineMessage, ListGroup, RouteMember, SendMember,
       GroupDone, SetUserOffline, ioVars
<1>6. ASSUME NEW w \in Workers, Take(w) PROVE outbox' = outbox
  BY <1>6 DEF Take, HandleRegister, HandleLogin, HandleGetFriends, HandlePrivateChat,
              HandleGroupChat, HandleLogout
<1>7. ASSUME NEW w \in Workers,
             AddClient(w) \/ RefuseClient(w) \/ \E fd \in Fds : Disconnect(w, fd)
      PROVE  outbox' = outbox
  BY <1>7 DEF AddClient, RefuseClient, Disconnect, ioVars
<1>8. CASE MainStep \/ Die \/ UNCHANGED vars
  BY <1>8 DEF MainStep, Die, vars, ioVars
<1> QED
  BY <1>2, <1>3, <1>4, <1>5, <1>6, <1>7, <1>8 DEF Next
\* A chat handler begins for the user of its connection's session (handlePrivateChat,
\* handleGroupChat, handleLogout).
LEMMA TakeSpeaks ==
    ASSUME ChatInv, NEW w \in Workers, Take(w)
    PROVE  \E fd \in clients[w] : \E r \in Requests[sock[fd]] :
             /\ job'[w].fd = fd /\ job'[w].req = r /\ job'[w].from = clientUsers[w][fd]
             /\ pc'[w] \in SessionSteps => clientUsers[w][fd] # NoUser
             /\ pc'[w] \in PrivateSteps => r.op = "private"
             /\ pc'[w] \notin GroupSteps
             /\ sock' = sock
<1>0. pc \in [Workers -> Labels] /\ job \in [Workers -> Job]
  BY DEF ChatInv, TypeOK
<1>1. ASSUME NEW fd \in clients[w], NEW r \in Requests[sock[fd]], NEW label, NEW ok,
             Begin(w, fd, r, label, ok), sock' = sock, label \notin GroupSteps,
             label \in SessionSteps => clientUsers[w][fd] # NoUser,
             label \in PrivateSteps => r.op = "private"
      PROVE  /\ job'[w].fd = fd /\ job'[w].req = r /\ job'[w].from = clientUsers[w][fd]
             /\ pc'[w] \in SessionSteps => clientUsers[w][fd] # NoUser
             /\ pc'[w] \in PrivateSteps => r.op = "private"
             /\ pc'[w] \notin GroupSteps
             /\ sock' = sock
  <2>1. pc'[w] = label /\ job'[w].fd = fd /\ job'[w].req = r /\ job'[w].from = clientUsers[w][fd]
    BY <1>0, <1>1 DEF Begin, Goto, IdleJob
  <2> QED
    BY <1>1, <2>1
<1> USE DEF SessionSteps, PrivateSteps, GroupSteps
<1>2. CASE HandleRegister(w)
  BY <1>1, <1>2 DEF HandleRegister, connVars
<1>3. CASE HandleLogin(w)
  BY <1>1, <1>3 DEF HandleLogin, connVars
<1>4. CASE HandleGetFriends(w)
  BY <1>1, <1>4 DEF HandleGetFriends, connVars
<1>5. CASE HandlePrivateChat(w)
  BY <1>1, <1>5 DEF HandlePrivateChat, ChatStart, connVars
<1>6. CASE HandleGroupChat(w)
  BY <1>1, <1>6 DEF HandleGroupChat, ChatStart, connVars
<1>7. CASE HandleLogout(w)
  BY <1>1, <1>7 DEF HandleLogout, connVars
<1> QED
  BY <1>2, <1>3, <1>4, <1>5, <1>6, <1>7 DEF Take

\* It goes on for the same user, and a group message only to users other than that one
\* whose descriptors it has just read.
LEMMA StepSpeaks ==
    ASSUME ChatInv, NEW w \in Workers, HandlerStep(w), pc'[w] # "idle"
    PROVE  /\ job'[w].from = job[w].from
           /\ pc'[w] \in SessionSteps => pc[w] \in SessionSteps
           /\ pc'[w] \in PrivateSteps => pc[w] \in PrivateSteps
           /\ pc'[w] \in GroupSteps =>
                \/ pc'[w] = "lookupMember" /\ job'[w].from \notin job'[w].users
                \/ pc[w] \in GroupSteps /\ job'[w].users \subseteq job[w].users
           /\ pc'[w] = "routeMember" =>
                /\ pc[w] = "lookupMember"
                /\ \E u \in job[w].users : job'[w].to = online[u] /\ online[u] # NoFd
           /\ pc'[w] = "sendMember" => pc[w] = "routeMember" /\ job'[w].to = job[w].to
<1>0. pc \in [Workers -> Labels] /\ job \in [Workers -> Job] /\ job[w] \in Job
  BY DEF ChatInv, TypeOK
<1> USE DEF SessionSteps, PrivateSteps, GroupSteps, Goto, Runs
<1>1. ASSUME NEW ok, Finish(w, ok) PROVE pc'[w] = "reply" /\ job'[w].from = job[w].from
  BY <1>0, <1>1 DEF Finish, Job
<1>2. CASE \/ IsUserExists(w) \/ InsertUser(w) \/ VerifyLogin(w) \/ DeleteOnline(w)
           \/ InsertOnline(w) \/ ClearOfflineMessages(w)
  BY <1>0, <1>1, <1>2 DEF IsUserExists, InsertUser, VerifyLogin, DeleteOnline, InsertOnline,
                          ClearOfflineMessages, OpenSession
<1>3. CASE GetOfflineMessages(w)
  <2>1. CASE /\ job' = [job EXCEPT ![w].off = offline[job[w].req.user]]
             /\ Goto(w, "clearOfflineMessages")
    <3>1. job'[w].from = job[w].from
      BY <1>0, <2>1 DEF Job
    <3>2. pc'[w] = "clearOfflineMessages"
      BY <1>0, <2>1
    <3> QED
      BY <3>1, <3>2
  <2> QED
    BY <1>1, <1>3, <2>1 DEF GetOfflineMessages
<1>4. CASE GetAllUsers(w) \/ GetOnlineUsers(w)
  <2>1. pc'[w] \in {"getOnlineUsers", "reply"}
    BY <1>0, <1>4 DEF GetAllUsers, GetOnlineUsers
  <2>2. job'[w].from = job[w].from
    <3>1. CASE \E S : job' = [job EXCEPT ![w] = [job[w] EXCEPT !.all = S]]
      BY <1>0, <3>1 DEF Job
    <3>2. CASE \E S : job' = [job EXCEPT ![w] = [job[w] EXCEPT !.users = S, !.ok = TRUE]]
      BY <1>0, <3>2 DEF Job
    <3> QED
      BY <1>0, <1>4, <3>1, <3>2 DEF GetAllUsers, GetOnlineUsers
  <2> QED
    BY <2>1, <2>2
<1>5. CASE GetUserSocketFd(w)
  <2>1. \E to : job' = [job EXCEPT ![w].to = to]
    BY <1>5 DEF GetUserSocketFd
  <2>2. job'[w].from = job[w].from
    BY <1>0, <2>1 DEF Job
  <2>3. pc[w] = "getUserSocketFd" /\ pc'[w] \in {"hung", "routePrivate"}
    BY <1>0, <1>5 DEF GetUserSocketFd
  <2> QED
    BY <2>2, <2>3
<1>6. CASE RoutePrivate(w) \/ RouteMember(w)
  <2>1. \E v : job' = [job EXCEPT ![w].via = v]
    BY <1>6 DEF RoutePrivate, RouteMember
  <2>2. job'[w].from = job[w].from /\ job'[w].users = job[w].users /\ job'[w].to = job[w].to
    BY <1>0, <2>1 DEF Job
  <2>3. \/ pc[w] = "routePrivate" /\ pc'[w] \in {"storeOfflineMessage", "sendPrivate"}
        \/ pc[w] = "routeMember" /\ pc'[w] \in {"lookupMember", "sendMember"}
    BY <1>0, <1>6 DEF RoutePrivate, RouteMember
  <2> QED
    BY <2>2, <2>3
<1>7. CASE ListGroup(w)
  <2>1. \E S : job' = [job EXCEPT ![w] = [job[w] EXCEPT !.users = S \ {job[w].from}]]
    BY <1>0, <1>7 DEF ListGroup, Recipients
  <2>2. job'[w].from = job[w].from /\ job'[w].from \notin job'[w].users
    BY <1>0, <2>1 DEF Job
  <2>3. pc[w] = "listGroup" /\ pc'[w] = "lookupMember"
    BY <1>0, <1>7 DEF ListGroup
  <2> QED
    BY <2>2, <2>3
<1>8. CASE LookupMember(w)
  <2>1. PICK u \in job[w].users, done \in Outcomes("lookupMember") :
          LET toFd == IF done THEN online[u] ELSE NoFd IN
          /\ job' = [job EXCEPT ![w] = [job[w] EXCEPT !.users = job[w].users \ {u}, !.to = toFd]]
          /\ Goto(w, IF toFd = NoFd \/ toFd \in clients[w] THEN "lookupMember"
                                                           ELSE "routeMember")
    BY <1>0, <1>8 DEF LookupMember, Remaining
  <2> DEFINE toFd == IF done THEN online[u] ELSE NoFd
  <2>2. /\ job'[w].from = job[w].from /\ job'[w].users = job[w].users \ {u}
        /\ job'[w].to = toFd
    <3>1. job' = [job EXCEPT ![w] = [job[w] EXCEPT !.users = job[w].users \ {u}, !.to = toFd]]
      BY <2>1
    <3> HIDE DEF toFd
    <3> QED
      BY <1>0, <3>1 DEF Job
  <2>3. /\ pc[w] = "lookupMember" /\ pc'[w] \in {"lookupMember", "routeMember"}
        /\ pc'[w] = "routeMember" => toFd # NoFd
    BY <1>0, <1>8, <2>1 DEF LookupMember
  <2> QED
    BY <2>2, <2>3
<1>9. CASE SendMember(w)
  BY <1>0, <1>9 DEF SendMember
<1>10. CASE \/ SendPrivate(w) \/ StoreOfflineMessage(w) \/ GroupDone(w) \/ SetUserOffline(w)
  BY <1>1, <1>10 DEF SendPrivate, StoreOfflineMessage, GroupDone, SetUserOffline
<1>11. CASE SendReply(w)
  BY <1>0, <1>11 DEF SendReply
<1> QED
  BY <1>2, <1>3, <1>4, <1>5, <1>6, <1>7, <1>8, <1>9, <1>10, <1>11 DEF HandlerStep

\* A handler that has answered forgets its locals.
LEMMA StepEnds ==
    ASSUME ChatInv, NEW w \in Workers, HandlerStep(w), pc'[w] = "idle"
    PROVE  job'[w] = IdleJob
<1>0. pc \in [Workers -> Labels] /\ job \in [Workers -> Job]
  BY DEF ChatInv, TypeOK
<1>1. SendReply(w)
  BY <1>0 DEF HandlerStep, IsUserExists, InsertUser, VerifyLogin, DeleteOnline,
     InsertOnline, GetOfflineMessages, ClearOfflineMessages, GetAllUsers, GetOnlineUsers,
     GetUserSocketFd, RoutePrivate, SendPrivate, StoreOfflineMessage, ListGroup, LookupMember,
     RouteMember, SendMember, GroupDone, SetUserOffline, Goto, Finish, OpenSession
<1> QED
  BY <1>0, <1>1 DEF SendReply
-----------------------------------------------------------------------------
(* AuthInv is kept. *)

\* The connection a handler works for stays the same (readCallback's clientFd).
LEMMA SameConn ==
    ASSUME ChatInv, [Next]_vars, ~Die, NEW w \in Workers, pc[w] # "idle", job'[w].fd = job[w].fd
    PROVE  ConnOf(w)' = ConnOf(w)
BY ChatConnStep, KeepsConnection DEF ConnOf

\* Requests are those of the client, and descriptors the connection's own.
LEMMA SourcesKept ==
    ASSUME ChatInv, [Next]_vars, AskedByClient, OwnDescriptor
    PROVE  AskedByClient' /\ OwnDescriptor'
<1>1. OwnDescriptor'
  BY SockEffect DEF OwnDescriptor
<1>2. ASSUME NEW c \in Conns, NEW i \in DOMAIN asked'[c] PROVE asked'[c][i] \in Requests[c]
  <2>1. asked[c] \in Seq(Request)
    BY DEF ChatInv, TypeOK
  <2>2. CASE asked'[c] = asked[c]
    BY <1>2, <2>2 DEF AskedByClient
  <2>3. CASE \E r \in Requests[c] : asked'[c] = Append(asked[c], r)
    BY <1>2, <2>1, <2>3 DEF AskedByClient
  <2> QED
    BY <2>2, <2>3, AskedEffect
<1> QED
  BY <1>1, <1>2 DEF AskedByClient

\* A login that has verified its password speaks with its descriptor (handleLogin).
LEMMA LoginSpeaks ==
    ASSUME ChatInv, AuthInv, NEW w \in Workers, pc[w] \in LoggedIn
    PROVE  Speaks(job[w].fd, job[w].req.user)
<1>1. pc[w] # "idle" /\ job[w].req.user \in Earned(ConnOf(w))
  BY DEF AuthInv, LoginsEarn, LoggedIn
<1>2. job[w].fd \in Fds /\ ConnOf(w) \in Conns
  BY <1>1, AtWork
<1> QED
  BY <1>1, <1>2, OpenSpeaks DEF ConnOf, AuthInv

\* So sessions and rows are those of users who speak with the descriptor.
LEMMA SessionsKept ==
    ASSUME ChatInv, [Next]_vars, AuthInv
    PROVE  SessionsSpeak' /\ RowsSpeak'
<1>0. \A fd, u : Speaks(fd, u) => SpeaksNext(fd, u)
  BY SpeaksGrows DEF AuthInv
<1>1. ASSUME NEW w \in Workers, NEW fd \in Fds, clientUsers'[w][fd] # NoUser
      PROVE  SpeaksNext(fd, clientUsers'[w][fd])
  <2>1. CASE clientUsers'[w][fd] = clientUsers[w][fd]
    <3>1. Speaks(fd, clientUsers[w][fd])
      BY <1>1, <2>1 DEF AuthInv, SessionsSpeak
    <3> QED
      BY <1>0, <2>1, <3>1
  <2>2. CASE pc[w] \in LoggedIn /\ fd = job[w].fd /\ clientUsers'[w][fd] = job[w].req.user
    BY <1>0, <2>2, LoginSpeaks
  <2> QED
    BY <1>1, <2>1, <2>2, SessionsEffect
<1>2. ASSUME NEW u \in Users, online'[u] # NoFd PROVE SpeaksNext(online'[u], u)
  <2>1. CASE online'[u] = online[u]
    <3>1. Speaks(online[u], u)
      BY <1>2, <2>1 DEF AuthInv, RowsSpeak
    <3> QED
      BY <1>0, <2>1, <3>1
  <2>2. ASSUME NEW w \in Workers, pc[w] \in LoggedIn, u = job[w].req.user, online'[u] = job[w].fd
        PROVE  SpeaksNext(online'[u], u)
    BY <1>0, <2>2, LoginSpeaks
  <2> QED
    BY <1>2, <2>1, <2>2, OnlineEffect
<1> QED
  BY <1>1, <1>2 DEF SessionsSpeak, RowsSpeak, Speaks, SpeaksNext

\* Private messages are stored, under their addressee (storeOfflineMessage).
LEMMA StoredKept ==
    ASSUME ChatInv, [Next]_vars, StoredForUser
    PROVE  StoredForUser'
<1> DEFINE Fits(m, u) == m.kind = "private" /\ m.to = u
<1> SUFFICES ASSUME NEW u \in Users, NEW i \in DOMAIN offline'[u] PROVE Fits(offline'[u][i], u)
  BY DEF StoredForUser
<1>1. offline[u] \in Seq(Message)
  BY DEF ChatInv, TypeOK
<1>2. CASE offline'[u] = offline[u]
  BY <1>2 DEF StoredForUser
<1>3. CASE offline'[u] = <<>>
  BY <1>3
<1>4. ASSUME NEW m \in Message, Fits(m, u), offline'[u] = Append(offline[u], m)
      PROVE  Fits(offline'[u][i], u)
  BY <1>1, <1>4 DEF StoredForUser
<1>5. \A w : Fits(Forward(w, "private", u), u)
  BY DEF Forward
<1> HIDE DEF Fits
<1> QED
  BY <1>2, <1>3, <1>4, <1>5, OfflineEffect

\* For whom a message is meant that will be on its way to descriptor fd.
DirectedNext(fd, m) ==
    \E u \in Users : SpeaksNext(fd, u) /\ IF m.kind = "private" THEN u = m.to ELSE u # m.from

\* A message is sent to a descriptor with which its addressee speaks, and a group
\* message to that of somebody else than its sender.
LEMMA SentKept ==
    ASSUME ChatInv, [Next]_vars, AuthInv
    PROVE  SentToAddressee'
<1>0. /\ \A fd, u : Speaks(fd, u) => SpeaksNext(fd, u)
      /\ \A fd, m : Directed(fd, m) => DirectedNext(fd, m)
  BY SpeaksGrows DEF AuthInv, Directed, DirectedNext
<1>1. ASSUME NEW w \in Workers, NEW i \in DOMAIN pipe'[w], pipe'[w][i].type = "s"
      PROVE  DirectedNext(pipe'[w][i].fd, pipe'[w][i].msg)
  <2>1. ASSUME NEW j \in DOMAIN pipe[w], pipe'[w][i] = pipe[w][j]
        PROVE  DirectedNext(pipe'[w][i].fd, pipe'[w][i].msg)
    <3>1. Directed(pipe[w][j].fd, pipe[w][j].msg)
      BY <1>1, <2>1 DEF AuthInv, SentToAddressee
    <3> QED
      BY <1>0, <2>1, <3>1
  <2>2. ASSUME NEW v \in Workers, SendPrivate(v), pipe'[w][i].fd = job[v].to,
               pipe'[w][i].msg = Forward(v, "private", job[v].req.user)
        PROVE  DirectedNext(pipe'[w][i].fd, pipe'[w][i].msg)
    <3>1. pc[v] = "sendPrivate"
      BY <2>2 DEF SendPrivate, Runs
    <3>2. job[v].to # NoFd /\ job[v].req.user \in Users
      BY <3>1, AtWork DEF Serving, LocalsOf, PrivateSteps
    <3>3. Speaks(job[v].to, job[v].req.user)
      BY <3>1, <3>2 DEF AuthInv, LookupsSpeak
    <3>4. pipe'[w][i].msg.to = job[v].req.user /\ pipe'[w][i].msg.kind = "private"
      BY <2>2 DEF Forward
    <3> QED
      BY <1>0, <2>2, <3>2, <3>3, <3>4 DEF DirectedNext
  <2>3. ASSUME NEW v \in Workers, SendMember(v), pipe'[w][i].fd = job[v].to,
               pipe'[w][i].msg = Forward(v, "group", NoUser)
        PROVE  DirectedNext(pipe'[w][i].fd, pipe'[w][i].msg)
    <3>1. pc[v] = "sendMember"
      BY <2>3 DEF SendMember, Runs
    <3>2. PICK u \in Users : u # job[v].from /\ Speaks(job[v].to, u)
      BY <3>1 DEF AuthInv, LookupsSpeak
    <3>3. pipe'[w][i].msg.from = job[v].from /\ pipe'[w][i].msg.kind = "group"
      BY <2>3 DEF Forward
    <3> QED
      BY <1>0, <2>3, <3>2, <3>3 DEF DirectedNext
  <2> QED
    BY <1>1, <2>1, <2>2, <2>3, PipeEffect
<1> QED
  BY <1>1 DEF SentToAddressee, Directed, DirectedNext, Speaks, SpeaksNext

\* A login works for its own connection, with that connection's messages.
LEMMA LoginsKept ==
    ASSUME ChatInv, [Next]_vars, AuthInv
    PROVE  LoginsEarn'
<1> SUFFICES ASSUME NEW w \in Workers, pc'[w] # "idle"
             PROVE  /\ pc'[w] \in LoggedIn \cup {"verifyLogin"} => job'[w].req.op = "login"
                    /\ pc'[w] \in LoggedIn => job'[w].req.user \in Earned(ConnOf(w))'
                    /\ \A i \in DOMAIN job'[w].off : /\ job'[w].off[i].kind = "private"
                                                     /\ job'[w].off[i].to \in Earned(ConnOf(w))'
  BY DEF LoginsEarn, LoggedIn
<1>0. pc \in [Workers -> Labels] /\ ~Die
  BY DEF ChatInv, TypeOK, Die
<1>1. ASSUME pc[w] # "idle", job'[w].fd = job[w].fd, NEW u, u \in Earned(ConnOf(w))
      PROVE  u \in Earned(ConnOf(w))'
  <2>1. ConnOf(w)' = ConnOf(w) /\ ConnOf(w) \in Conns
    BY <1>0, <1>1, SameConn, AtWork
  <2> QED
    BY <1>1, <2>1, EarnedGrows DEF AuthInv, Earned
<1>2. CASE pc'[w] = pc[w] /\ job'[w] = job[w]
  BY <1>1, <1>2 DEF AuthInv, LoginsEarn
<1>3. CASE Take(w)
  BY <1>3, TakeEffect
<1>4. CASE HandlerStep(w)
  <2>1. /\ pc[w] # "idle" /\ job'[w].fd = job[w].fd /\ job'[w].req = job[w].req
        /\ pc'[w] # "verifyLogin"
        /\ pc'[w] \in LoggedIn => \/ pc[w] \in LoggedIn
                                  \/ pc[w] = "verifyLogin" /\ Verified(job[w].req)
        /\ job'[w].off # job[w].off =>
             pc[w] \in LoggedIn /\ job'[w].off = offline[job[w].req.user]
    BY <1>4, StepEffect
  <2>2. pc'[w] \in LoggedIn => job'[w].req.op = "login"
    BY <2>1 DEF AuthInv, LoginsEarn
  <2>3. pc'[w] \in LoggedIn => job[w].req.user \in Earned(ConnOf(w))
    <3>1. CASE pc[w] = "verifyLogin" /\ Verified(job[w].req)
      <4>1. /\ NumberOf(w) \in DOMAIN asked[ConnOf(w)]
            /\ asked[ConnOf(w)][NumberOf(w)] = job[w].req
            /\ job[w].req.user \in Users
        <5>1. Serving(w) /\ ConnOf(w) \in Conns /\ NumberOf(w) \in 1 .. MaxSent
          BY <3>1, AtWork
        <5>2. asked[ConnOf(w)] \in Seq(Request)
          BY <5>1 DEF ChatInv, TypeOK
        <5> QED
          BY <3>1, <5>1, <5>2 DEF Serving, LocalsOf, AccountSteps, NumberOf
      <4>2. job[w].req.op = "login" /\ job[w].req.pw = users[job[w].req.user]
        BY <3>1 DEF AuthInv, LoginsEarn, Verified
      <4> QED
        BY <4>1, <4>2 DEF Earned
    <3> QED
      BY <2>1, <3>1 DEF AuthInv, LoginsEarn
  <2>4. \A i \in DOMAIN job'[w].off : /\ job'[w].off[i].kind = "private"
                                      /\ job'[w].off[i].to \in Earned(ConnOf(w))
    <3>1. CASE job'[w].off = job[w].off
      BY <2>1, <3>1 DEF AuthInv, LoginsEarn
    <3>2. CASE pc[w] \in LoggedIn /\ job'[w].off = offline[job[w].req.user]
      <4>1. job[w].req.user \in Earned(ConnOf(w))
        BY <3>2 DEF AuthInv, LoginsEarn
      <4>2. job[w].req.user \in Users
        BY <4>1 DEF Earned
      <4> QED
        BY <3>2, <4>1, <4>2 DEF AuthInv, StoredForUser
    <3> QED
      BY <2>1, <3>1, <3>2
  <2> QED
    BY <1>1, <2>1, <2>2, <2>3, <2>4
<1> QED
  BY <1>0, <1>2, <1>3, <1>4, WhoMoves

\* What the chat handlers have looked up is a descriptor with which the addressee
\* speaks, or one of the users listed, the sender not among them.
LEMMA LookupsKept ==
    ASSUME ChatInv, [Next]_vars, AuthInv
    PROVE  LookupsSpeak'
<1>0. \A fd, u : Speaks(fd, u) => SpeaksNext(fd, u)
  BY SpeaksGrows DEF AuthInv
<1>1. ASSUME NEW w \in Workers, pc'[w] \in {"routePrivate", "sendPrivate"}, job'[w].to # NoFd
      PROVE  SpeaksNext(job'[w].to, job'[w].req.user)
  <2>1. ~Die /\ pc'[w] # "idle"
    BY <1>1 DEF Die
  <2>2. CASE pc'[w] = pc[w] /\ job'[w] = job[w]
    BY <1>0, <1>1, <2>2 DEF AuthInv, LookupsSpeak
  <2>3. CASE HandlerStep(w)
    <3>1. /\ job'[w].req = job[w].req
          /\ \/ pc[w] = "routePrivate" /\ job'[w].to = job[w].to
             \/ pc[w] = "getUserSocketFd" /\ job'[w].to \in {NoFd, online[job[w].req.user]}
      BY <1>1, <2>1, <2>3, StepEffect
    <3>2. CASE pc[w] = "routePrivate" /\ job'[w].to = job[w].to
      BY <1>0, <1>1, <3>1, <3>2 DEF AuthInv, LookupsSpeak
    <3>3. CASE pc[w] = "getUserSocketFd" /\ job'[w].to = online[job[w].req.user]
      <4>1. job[w].req.user \in Users
        BY <3>3, AtWork DEF Serving, LocalsOf, PrivateSteps
      <4> QED
        BY <1>0, <1>1, <3>1, <3>3, <4>1 DEF AuthInv, RowsSpeak
    <3> QED
      BY <1>1, <3>1, <3>2, <3>3
  <2> QED
    BY <1>1, <2>1, <2>2, <2>3, WhoMoves, TakeEffect
<1>2. ASSUME NEW w \in Workers, pc'[w] \in GroupSteps
      PROVE  /\ job'[w].from \notin job'[w].users
             /\ pc'[w] \in {"routeMember", "sendMember"} =>
                  \E u \in Users : u # job'[w].from /\ SpeaksNext(job'[w].to, u)
  <2>0. ~Die /\ pc'[w] # "idle" /\ job[w] \in Job
    BY <1>2 DEF Die, GroupSteps, ChatInv, TypeOK
  <2>1. CASE pc'[w] = pc[w] /\ job'[w] = job[w]
    BY <1>0, <1>2, <2>1 DEF AuthInv, LookupsSpeak
  <2>2. CASE HandlerStep(w)
    <3>1. /\ job'[w].from = job[w].from
          /\ \/ pc'[w] = "lookupMember" /\ job'[w].from \notin job'[w].users
             \/ pc[w] \in GroupSteps /\ job'[w].users \subseteq job[w].users
          /\ pc'[w] = "routeMember" =>
               /\ pc[w] = "lookupMember"
               /\ \E u \in job[w].users : job'[w].to = online[u] /\ online[u] # NoFd
          /\ pc'[w] = "sendMember" => pc[w] = "routeMember" /\ job'[w].to = job[w].to
      BY <1>2, <2>0, <2>2, StepSpeaks
    <3>2. job'[w].from \notin job'[w].users
      BY <3>1 DEF AuthInv, LookupsSpeak
    <3>3. ASSUME pc'[w] = "routeMember"
          PROVE  \E u \in Users : u # job'[w].from /\ SpeaksNext(job'[w].to, u)
      <4>1. PICK u \in job[w].users : job'[w].to = online[u] /\ online[u] # NoFd
        BY <3>1, <3>3
      <4>2. u # job[w].from /\ u \in Users
        BY <2>0, <3>1, <3>3 DEF AuthInv, LookupsSpeak, GroupSteps, Job
      <4>3. SpeaksNext(online[u], u)
        BY <1>0, <4>1, <4>2 DEF AuthInv, RowsSpeak
      <4> QED
        BY <3>1, <4>1, <4>2, <4>3
    <3>4. ASSUME pc'[w] = "sendMember"
          PROVE  \E u \in Users : u # job'[w].from /\ SpeaksNext(job'[w].to, u)
      BY <1>0, <3>1, <3>4 DEF AuthInv, LookupsSpeak
    <3> QED
      BY <3>2, <3>3, <3>4
  <2> QED
    BY <1>2, <2>0, <2>1, <2>2, WhoMoves, TakeSpeaks
<1> QED
  BY <1>1, <1>2 DEF LookupsSpeak, GroupSteps, Speaks, SpeaksNext

\* What a packet brings.
LEMMA PacketHolds ==
    ASSUME NEW p
    PROVE  ToSet(IF p.type = "push" THEN <<p.msg>> ELSE p.off)
             = IF p.type = "push" THEN {p.msg} ELSE ToSet(p.off)
<1>1. ASSUME NEW x PROVE ToSet(<<x>>) = {x}
  <2>1. DOMAIN <<x>> = {1} /\ <<x>>[1] = x
    OBVIOUS
  <2>2. ToSet(<<x>>) = {<<x>>[i] : i \in {1}}
    BY <2>1 DEF ToSet
  <2> QED
    BY <2>1, <2>2
<1> QED
  BY <1>1

\* Messages are given to connections that stand for whom they are meant for.
LEMMA DeliveryKept ==
    ASSUME ChatInv, [Next]_vars, AuthInv
    PROVE  AddressedToHolder'
<1> DEFINE For(m, u) == IF m.kind = "private" THEN u = m.to ELSE u # m.from
<1> SUFFICES ASSUME NEW c \in Conns, NEW m \in Received(c)'
             PROVE  \E u \in Users : Stands(c, u)' /\ For(m, u)
  BY DEF AddressedToHolder
<1>1. \A u \in Users : Stands(c, u) => Stands(c, u)'
  BY StandsGrows DEF AuthInv
<1>2. PICK i \in DOMAIN outbox'[c] :
        m \in IF outbox'[c][i].type = "push" THEN {outbox'[c][i].msg} ELSE ToSet(outbox'[c][i].off)
  <2>1. PICK i \in DOMAIN outbox'[c] :
          m \in ToSet(IF outbox'[c][i].type = "push" THEN <<outbox'[c][i].msg>>
                      ELSE outbox'[c][i].off)
    BY DEF Received, Given
  <2> QED
    BY <2>1, PacketHolds
<1>3. CASE i \in DOMAIN outbox[c] /\ outbox'[c][i] = outbox[c][i]
  <2>1. m \in Received(c)
    BY <1>2, <1>3, PacketHolds DEF Received, Given
  <2> QED
    BY <1>1, <2>1 DEF AuthInv, AddressedToHolder
<1>4. ASSUME NEW w \in Workers, pc[w] # "idle", ConnOf(w) = c, outbox'[c][i].type = "reply",
             outbox'[c][i].off = job[w].off
      PROVE  \E u \in Users : Stands(c, u) /\ For(m, u)
  <2>0. outbox'[c][i].type # "push" => m \in ToSet(job[w].off)
    BY <1>2, <1>4
  <2>1. m.kind = "private" /\ m.to \in Earned(c)
    BY <1>4, <2>0 DEF AuthInv, LoginsEarn, ToSet
  <2>2. c \in accepted
    BY <1>4, AtWork DEF ConnOf, ChatInv, ConnInv, OpenAccepted
  <2>3. m.to \in Users /\ Stands(c, m.to)
    BY <2>1, <2>2 DEF Stands, Earned
  <2> QED
    BY <2>1, <2>3
<1>5. ASSUME NEW w \in Workers, NEW u \in job[w].users, pc[w] = "lookupMember",
             online[u] \in clients[w], c = sock[online[u]],
             outbox'[c][i].type = "push", outbox'[c][i].msg = Forward(w, "group", NoUser)
      PROVE  \E x \in Users : Stands(c, x) /\ For(m, x)
  <2>1. u \in Users /\ u # job[w].from
    BY <1>5 DEF AuthInv, LookupsSpeak, GroupSteps, ChatInv, TypeOK, Job
  <2>2. online[u] \in Fds /\ sock[online[u]] \in Conns /\ online[u] # NoFd
    BY <1>5, OwnedIsOpen
  <2>3. Stands(c, u)
    BY <1>5, <2>1, <2>2, SpeakerStands DEF AuthInv, RowsSpeak
  <2>4. m.kind = "group" /\ m.from = job[w].from
    BY <1>2, <1>5 DEF Forward
  <2> QED
    BY <2>1, <2>3, <2>4
<1>6. ASSUME NEW w \in Workers, NEW j \in DOMAIN pipe[w], pipe[w][j].type = "s",
             pipe[w][j].fd \in clients[w], c = sock[pipe[w][j].fd],
             outbox'[c][i].type = "push", outbox'[c][i].msg = pipe[w][j].msg
      PROVE  \E u \in Users : Stands(c, u) /\ For(m, u)
  <2>1. m = pipe[w][j].msg
    BY <1>2, <1>6
  <2>2. PICK u \in Users : Speaks(pipe[w][j].fd, u) /\ For(m, u)
    BY <1>6, <2>1 DEF AuthInv, SentToAddressee, Directed
  <2>3. Stands(c, u)
    BY <1>6, <2>2, OwnedIsOpen, SpeakerStands DEF AuthInv
  <2> QED
    BY <2>2, <2>3
<1> HIDE DEF For
<1> QED
  BY <1>1, <1>3, <1>4, <1>5, <1>6, OutboxEffect
-----------------------------------------------------------------------------
(* The theorems. *)

\* On a fresh server nothing stands for a user.
LEMMA AuthInit == Init => AuthInv
<1> SUFFICES ASSUME Init PROVE AuthInv
  OBVIOUS
<1>1. AskedByClient /\ OwnDescriptor /\ SentToAddressee
  BY DEF Init, ConnInit, AskedByClient, OwnDescriptor, SentToAddressee
<1>2. SessionsSpeak /\ RowsSpeak /\ StoredForUser
  BY DEF Init, NoSessions, SessionsSpeak, RowsSpeak, StoredForUser
<1>3. LoginsEarn /\ LookupsSpeak
  BY DEF Init, LoginsEarn, LookupsSpeak, LoggedIn, GroupSteps
<1>4. \A c \in Conns : Received(c) = {}
  BY DEF Init, Received
<1> QED
  BY <1>1, <1>2, <1>3, <1>4 DEF AuthInv, AddressedToHolder

\* No step lets a descriptor stand for a user who has not logged in on it.
LEMMA AuthStep == ChatInv /\ AuthInv /\ [Next]_vars => AuthInv'
<1> SUFFICES ASSUME ChatInv, AuthInv, [Next]_vars PROVE AuthInv'
  OBVIOUS
<1>1. AskedByClient' /\ OwnDescriptor'
  BY SourcesKept DEF AuthInv
<1>2. StoredForUser'
  BY StoredKept DEF AuthInv
<1> QED
  BY <1>1, <1>2, SessionsKept, SentKept, LoginsKept, LookupsKept, DeliveryKept DEF AuthInv

\* AuthInv holds of every behaviour.
LEMMA AuthHolds == Spec => [](ChatInv /\ AuthInv)
BY ChatInit, ChatStep, AuthInit, AuthStep, PTL DEF Spec

\* Whatever descriptors accept reuses, whoever is named anywhere in the server, in a
\* session, a row of online_users, a handler's locals, an announced push or an output
\* buffer, has logged in on the connection that has the descriptor, or on one that
\* had it and is gone (server.cpp:264, 306, 342, 397).
THEOREM AuthenticityHolds == Spec => []AuthInv
BY AuthHolds, PTL

\* A chat message, pushed, stored or on its way while clients come and go, workers
\* fall behind, queries fail and the server is restarted, is given only to a
\* connection that has logged in as its addressee, or one that may have the descriptor
\* of such a connection that is gone (handlePrivateChat, handleGroupChat,
\* handleNotify, getOfflineMessages).
THEOREM AddressedToHolderHolds == Spec => []AddressedToHolder
<1>1. AuthInv => AddressedToHolder
  BY DEF AuthInv
<1> QED
  BY <1>1, AuthHolds, PTL
=============================================================================
