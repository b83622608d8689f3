----------------------------- MODULE ChatServer -----------------------------
(***************************************************************************)
(* The chat server: the connection layer of module Connections, the        *)
(* handlers the workers run on each request (server/server.cpp) and the    *)
(* MySQL tables they share (server/database.cpp).                          *)
(*                                                                         *)
(* A handler runs on its worker's thread, one at a time, and touches state *)
(* of other threads only in its SQL queries, in getWorkerForFd and in      *)
(* sends to a socketpair; each of these is one step, so the steps of two   *)
(* workers interleave as their queries do.  pc names the query or call the *)
(* worker does next, job holds the handler's local variables.              *)
(***************************************************************************)
EXTENDS Connections

CONSTANTS
    Users, NoUser,   \* user names; NoUser is the empty string
    Passwords, NoPw, \* NoPw: no such row in users
    Registered,      \* [Users -> Passwords \cup {NoPw}], users at first start
    Requests,        \* [Conns -> SUBSET Request], what each client may ask
    MaxSent,         \* bound: requests read from one connection
    Faults           \* the queries that may fail

Queries == {"isUserExists", "insertUser", "verifyLogin", "deleteOnline",
            "insertOnline", "getOfflineMessages", "clearOfflineMessages",
            "getAllUsers", "getOnlineUsers", "getUserSocketFd",
            "storeOfflineMessage", "listGroup", "lookupMember", "setUserOffline"}

Labels == Queries \cup {"idle", "reply", "hung", "routePrivate", "sendPrivate",
                        "routeMember", "sendMember"}

Request == [op : {"register", "login", "friends", "private", "group", "logout"},
            user : Users \cup {NoUser}, pw : Passwords \cup {NoPw}]

\* A forwarded chat message: who it is from and to, and the request (the n-th
\* of connection conn) that caused it.
Message == [kind : {"private", "group"}, from : Users, to : Users \cup {NoUser},
            conn : Conns, n : 1 .. MaxSent]

\* What clients receive: answers to their n-th request, and forwarded messages.
Reply == [type : {"reply"}, n : 1 .. MaxSent, ok : BOOLEAN, off : Seq(Message),
          all : SUBSET Users, users : SUBSET Users]
Push  == [type : {"push"}, msg : Message]

NoRequest == [op |-> "none", user |-> NoUser, pw |-> NoPw]

ASSUME ChatAssumption ==
    /\ NoUser \notin Users
    /\ NoPw \notin Passwords
    /\ MaxSent \in Nat
    /\ Registered \in [Users -> Passwords \cup {NoPw}]
    /\ Requests \in [Conns -> SUBSET Request]
    /\ \A c \in Conns : \A r \in Requests[c] :
         r.op \in {"register", "login"} => r.user \in Users /\ r.pw \in Passwords
    /\ \A c \in Conns : \A r \in Requests[c] : r.op = "private" => r.user \in Users
    /\ Faults \subseteq Queries
    /\ Msgs = Message

VARIABLES
    users,       \* table users: name -> password
    online,      \* table online_users: name -> socket_fd
    offline,     \* table offline_messages: to_user -> messages by id
    clientUsers, \* each worker's clientUsers_: descriptor -> user
    pc, job,     \* each worker's control point and handler locals
    asked,       \* the requests read from each connection, oldest first
    outbox       \* what has been sent to each connection, oldest first

dbVars   == <<users, online, offline>>
ctlVars  == <<pc, job>>
ioVars   == <<asked, outbox>>
vars     == <<connVars, dbVars, clientUsers, ctlVars, ioVars>>

IdleJob == [fd |-> NoFd, req |-> NoRequest, from |-> NoUser, ok |-> FALSE,
            to |-> NoFd, via |-> NoWorker, all |-> {}, users |-> {}, off |-> <<>>]

Job == [fd : Fds \cup {NoFd}, req : Request \cup {NoRequest},
        from : Users \cup {NoUser}, ok : BOOLEAN, to : Fds \cup {NoFd},
        via : Workers \cup {NoWorker}, all : SUBSET Users, users : SUBSET Users,
        off : Seq(Message)]

TypeOK ==
    /\ ConnTypeOK
    /\ users \in [Users -> Passwords \cup {NoPw}]
    /\ online \in [Users -> Fds \cup {NoFd}]
    /\ offline \in [Users -> Seq(Message)]
    /\ clientUsers \in [Workers -> [Fds -> Users \cup {NoUser}]]
    /\ pc \in [Workers -> Labels]
    /\ job \in [Workers -> Job]
    /\ asked \in [Conns -> Seq(Request)]
    /\ outbox \in [Conns -> Seq(Reply \cup Push)]

NoSessions == [w \in Workers |-> [fd \in Fds |-> NoUser]]

Init ==
    /\ ConnInit
    /\ users = Registered
    /\ online = [u \in Users |-> NoFd]
    /\ offline = [u \in Users |-> <<>>]
    /\ clientUsers = NoSessions
    /\ pc = [w \in Workers |-> "idle"]
    /\ job = [w \in Workers |-> IdleJob]
    /\ asked = [c \in Conns |-> <<>>]
    /\ outbox = [c \in Conns |-> <<>>]
-----------------------------------------------------------------------------
(* Control and locals of a worker. *)

\* Worker w is about to run query q, which succeeds (done) or, where the run
\* lets it, fails with "MySQL query error".
Runs(w, q)  == pc[w] = q
Outcomes(q) == IF q \in Faults THEN BOOLEAN ELSE {TRUE}

Goto(w, label) == pc' = [pc EXCEPT ![w] = label]

(* A return as soon as a result is there, without the answer when it is a refusal. *)
FinishUnanswered(w, ok) ==
    /\ Goto(w, IF ok THEN "reply" ELSE "idle")
    /\ job' = [job EXCEPT ![w] = IF ok THEN [@ EXCEPT !.ok = TRUE] ELSE IdleJob]

\* The handler has its result; what is left is the answer to the client.
Finish(w, ok) ==
    /\ Goto(w, "reply")
    /\ job' = [job EXCEPT ![w].ok = ok]

\* The connection and the number of the request that worker w is handling.
ConnOf(w)   == sock[job[w].fd]
NumberOf(w) == Len(asked[ConnOf(w)])

\* readCallback and processMessage: worker w takes request r from fd, one of its
\* own; control goes on at label, with the handler's result so far in ok.
Begin(w, fd, r, label, ok) ==
    /\ up
    /\ pc[w] = "idle"
    /\ Len(asked[sock[fd]]) < MaxSent
    /\ asked' = [asked EXCEPT ![sock[fd]] = Append(@, r)]
    /\ job' = [job EXCEPT ![w] = [IdleJob EXCEPT !.fd = fd, !.req = r, !.ok = ok,
                                                 !.from = clientUsers[w][fd]]]
    /\ Goto(w, label)

WriteOver(c, packet) == [outbox EXCEPT ![c] = <<packet>>]

\* The output buffer of a connection that this worker owns.
Write(c, packet)     == [outbox EXCEPT ![c] = Append(@, packet)]

\* The forwarded message of the request worker w is handling.
Forward(w, kind, to) ==
    [kind |-> kind, from |-> job[w].from, to |-> to,
     conn |-> ConnOf(w), n |-> NumberOf(w)]

PushOf(msg) == [type |-> "push", msg |-> msg]
-----------------------------------------------------------------------------
(* handleRegister and Database::registerUser. *)

HandleRegister(w) ==
    /\ \E fd \in clients[w] : \E r \in Requests[sock[fd]] :
         r.op = "register" /\ Begin(w, fd, r, "isUserExists", FALSE)
    /\ UNCHANGED <<connVars, dbVars, clientUsers, outbox>>

\* SELECT * FROM users; a query error reads as "does not exist".
IsUserExists(w) ==
    /\ Runs(w, "isUserExists")
    /\ \E done \in Outcomes("isUserExists") :
         IF done /\ users[job[w].req.user] # NoPw
         THEN Finish(w, FALSE)
         ELSE Goto(w, "insertUser") /\ UNCHANGED job
    /\ UNCHANGED <<connVars, dbVars, clientUsers, ioVars>>

UserRowReplace(u, pw) == pw

\* The row that INSERT INTO users leaves: name is the PRIMARY KEY.
UserRow(u, pw) == IF users[u] = NoPw THEN pw ELSE users[u]

InsertUser(w) ==
    LET u == job[w].req.user IN
    /\ Runs(w, "insertUser")
    /\ \E done \in Outcomes("insertUser") :
         /\ users' = IF done THEN [users EXCEPT ![u] = UserRow(u, job[w].req.pw)]
                             ELSE users
         /\ Finish(w, done /\ users[u] = NoPw)
    /\ UNCHANGED <<connVars, online, offline, clientUsers, ioVars>>
-----------------------------------------------------------------------------
(* handleLogin: verifyLogin, setUserOnline (DELETE, then INSERT), the local
   session, getOfflineMessages, clearOfflineMessages. *)

HandleLogin(w) ==
    /\ \E fd \in clients[w] : \E r \in Requests[sock[fd]] :
         r.op = "login" /\ Begin(w, fd, r, "verifyLogin", FALSE)
    /\ UNCHANGED <<connVars, dbVars, clientUsers, outbox>>

VerifiedByName(r) == users[r.user] # NoPw

\* SELECT * FROM users WHERE name AND password finds a row.
Verified(r) == users[r.user] = r.pw

VerifyLogin(w) ==
    /\ Runs(w, "verifyLogin")
    /\ \E done \in Outcomes("verifyLogin") :
         IF done /\ Verified(job[w].req)
         THEN Goto(w, "deleteOnline") /\ UNCHANGED job
         ELSE Finish(w, FALSE)
    /\ UNCHANGED <<connVars, dbVars, clientUsers, ioVars>>

\* clientUsers_[clientFd] = username.
OpenSession(w) ==
    /\ clientUsers' = [clientUsers EXCEPT ![w][job[w].fd] = job[w].req.user]
    /\ Goto(w, "getOfflineMessages")

\* If the DELETE fails setUserOnline returns false, which nobody looks at.
DeleteOnline(w) ==
    /\ Runs(w, "deleteOnline")
    /\ \E done \in Outcomes("deleteOnline") :
         IF done
         THEN /\ online' = [online EXCEPT ![job[w].req.user] = NoFd]
              /\ Goto(w, "insertOnline")
              /\ UNCHANGED clientUsers
         ELSE OpenSession(w) /\ UNCHANGED online
    /\ UNCHANGED <<connVars, users, offline, job, ioVars>>

\* name is the PRIMARY KEY: the INSERT fails when another login of the same
\* user has put its row there after our DELETE.
InsertOnline(w) ==
    LET u == job[w].req.user IN
    /\ Runs(w, "insertOnline")
    /\ \E done \in Outcomes("insertOnline") :
         online' = IF done /\ online[u] = NoFd
                   THEN [online EXCEPT ![u] = job[w].fd]
                   ELSE online
    /\ OpenSession(w)
    /\ UNCHANGED <<connVars, users, offline, job, ioVars>>

GetOfflineMessages(w) ==
    LET u == job[w].req.user IN
    /\ Runs(w, "getOfflineMessages")
    /\ \E done \in Outcomes("getOfflineMessages") :
         IF done /\ offline[u] # <<>>
         THEN /\ job' = [job EXCEPT ![w].off = offline[u]]
              /\ Goto(w, "clearOfflineMessages")
         ELSE Finish(w, TRUE)
    /\ UNCHANGED <<connVars, dbVars, clientUsers, ioVars>>

ClearedNone(u) == offline

\* DELETE FROM offline_messages WHERE to_user = u.
Cleared(u) == [offline EXCEPT ![u] = <<>>]

ClearOfflineMessages(w) ==
    /\ Runs(w, "clearOfflineMessages")
    /\ \E done \in Outcomes("clearOfflineMessages") :
         offline' = IF done THEN Cleared(job[w].req.user) ELSE offline
    /\ Finish(w, TRUE)
    /\ UNCHANGED <<connVars, users, online, clientUsers, ioVars>>
-----------------------------------------------------------------------------
(* handleGetFriends. *)

HandleGetFriends(w) ==
    /\ \E fd \in clients[w] : \E r \in Requests[sock[fd]] :
         r.op = "friends" /\ Begin(w, fd, r, "getAllUsers", FALSE)
    /\ UNCHANGED <<connVars, dbVars, clientUsers, outbox>>

GetAllUsers(w) ==
    /\ Runs(w, "getAllUsers")
    /\ \E done \in Outcomes("getAllUsers") :
         job' = [job EXCEPT ![w].all =
                   IF done THEN {u \in Users : users[u] # NoPw} ELSE {}]
    /\ Goto(w, "getOnlineUsers")
    /\ UNCHANGED <<connVars, dbVars, clientUsers, ioVars>>

OnlineUsers(done) == IF done THEN {u \in Users : online[u] # NoFd} ELSE {}

GetOnlineUsers(w) ==
    /\ Runs(w, "getOnlineUsers")
    /\ \E done \in Outcomes("getOnlineUsers") :
         job' = [job EXCEPT ![w] = [@ EXCEPT !.users = OnlineUsers(done), !.ok = TRUE]]
    /\ Goto(w, "reply")
    /\ UNCHANGED <<connVars, dbVars, clientUsers, ioVars>>
-----------------------------------------------------------------------------
(* handlePrivateChat. *)

ChatStartUnchecked(session, label) == label

\* Where a chat request goes on: without a session it is refused.
ChatStart(session, label) == IF session = NoUser THEN "reply" ELSE label

HandlePrivateChat(w) ==
    /\ \E fd \in clients[w] : \E r \in Requests[sock[fd]] :
         /\ r.op = "private"
         /\ Begin(w, fd, r, ChatStart(clientUsers[w][fd], "getUserSocketFd"), FALSE)
    /\ UNCHANGED <<connVars, dbVars, clientUsers, outbox>>

\* The addressee's descriptor; -1 without a row or on error.  If it is one of
\* this worker's, the handler calls sendToClient with clientsMutex_ held, and
\* sendToClient locks it again: the thread waits for itself.
GetUserSocketFd(w) ==
    /\ Runs(w, "getUserSocketFd")
    /\ \E done \in Outcomes("getUserSocketFd") :
         LET toFd == IF done THEN online[job[w].req.user] ELSE NoFd IN
         /\ job' = [job EXCEPT ![w].to = toFd]
         /\ Goto(w, IF toFd \in clients[w] THEN "hung" ELSE "routePrivate")
    /\ UNCHANGED <<connVars, dbVars, clientUsers, ioVars>>

RoutePrivate(w) ==
    LET v == GetWorkerForFd(job[w].to) IN
    /\ Runs(w, "routePrivate")
    /\ job' = [job EXCEPT ![w].via = v]
    /\ Goto(w, IF v = NoWorker THEN "storeOfflineMessage" ELSE "sendPrivate")
    /\ UNCHANGED <<connVars, dbVars, clientUsers, ioVars>>

\* The answer is "message sent" whatever became of the message.
SendPrivate(w) ==
    /\ Runs(w, "sendPrivate")
    /\ NotifySendMessage(job[w].via, job[w].to, Forward(w, "private", job[w].req.user))
    /\ Finish(w, TRUE)
    /\ UNCHANGED <<dbVars, clientUsers, ioVars>>

StoredReplace(u, msg) == [offline EXCEPT ![u] = <<msg>>]

\* INSERT INTO offline_messages; ids grow, and SELECT returns them in order.
Stored(u, msg) == [offline EXCEPT ![u] = Append(@, msg)]

\* to_user is a FOREIGN KEY: for a name that is not in users the INSERT fails.
StoreOfflineMessage(w) ==
    LET u == job[w].req.user IN
    /\ Runs(w, "storeOfflineMessage")
    /\ \E done \in Outcomes("storeOfflineMessage") :
         offline' = IF done /\ users[u] # NoPw
                    THEN Stored(u, Forward(w, "private", u))
                    ELSE offline
    /\ Finish(w, TRUE)
    /\ UNCHANGED <<connVars, users, online, clientUsers, ioVars>>
-----------------------------------------------------------------------------
(* handleGroupChat: each online user but the sender, one lookup at a time. *)

HandleGroupChat(w) ==
    /\ \E fd \in clients[w] : \E r \in Requests[sock[fd]] :
         /\ r.op = "group"
         /\ Begin(w, fd, r, ChatStart(clientUsers[w][fd], "listGroup"), FALSE)
    /\ UNCHANGED <<connVars, dbVars, clientUsers, outbox>>

RecipientsAll(w, listed) == listed

\* The users the message goes to.
Recipients(w, listed) == listed \ {job[w].from}

ListGroup(w) ==
    /\ Runs(w, "listGroup")
    /\ \E done \in Outcomes("listGroup") :
         job' = [job EXCEPT ![w].users = Recipients(w, OnlineUsers(done))]
    /\ Goto(w, "lookupMember")
    /\ UNCHANGED <<connVars, dbVars, clientUsers, ioVars>>

\* The recipients after u.
Remaining(w, u) == job[w].users \ {u}

\* The next recipient of the list: skipped when it has gone offline, written
\* to directly when it is this worker's, or else looked up in fdToWorker_.
LookupMember(w) ==
    /\ Runs(w, "lookupMember")
    /\ \E u \in job[w].users, done \in Outcomes("lookupMember") :
         LET toFd == IF done THEN online[u] ELSE NoFd IN
         /\ job' = [job EXCEPT ![w] = [@ EXCEPT !.users = Remaining(w, u), !.to = toFd]]
         /\ Goto(w, IF toFd = NoFd \/ toFd \in clients[w] THEN "lookupMember"
                                                          ELSE "routeMember")
         /\ outbox' = IF toFd \in clients[w]
                      THEN Write(sock[toFd], PushOf(Forward(w, "group", NoUser)))
                      ELSE outbox
    /\ UNCHANGED <<connVars, dbVars, clientUsers, asked>>

\* sendToClient gives up when the route is missing or leads back here.
RouteMember(w) ==
    LET v == GetWorkerForFd(job[w].to) IN
    /\ Runs(w, "routeMember")
    /\ job' = [job EXCEPT ![w].via = v]
    /\ Goto(w, IF v \in {NoWorker, w} THEN "lookupMember" ELSE "sendMember")
    /\ UNCHANGED <<connVars, dbVars, clientUsers, ioVars>>

SendMember(w) ==
    /\ Runs(w, "sendMember")
    /\ NotifySendMessage(job[w].via, job[w].to, Forward(w, "group", NoUser))
    /\ Goto(w, "lookupMember")
    /\ UNCHANGED <<dbVars, clientUsers, job, ioVars>>

GroupDone(w) ==
    /\ Runs(w, "lookupMember")
    /\ job[w].users = {}
    /\ Finish(w, TRUE)
    /\ UNCHANGED <<connVars, dbVars, clientUsers, ioVars>>
-----------------------------------------------------------------------------
(* handleLogout: the session first, then the row of its user. *)

ClosedSessionKept(w, fd) == clientUsers

\* clientUsers_.erase.
ClosedSession(w, fd) == [clientUsers EXCEPT ![w][fd] = NoUser]

HandleLogout(w) ==
    /\ \E fd \in clients[w] : \E r \in Requests[sock[fd]] :
         LET session == clientUsers[w][fd] IN
         /\ r.op = "logout"
         /\ Begin(w, fd, r, IF session = NoUser THEN "reply" ELSE "setUserOffline", TRUE)
         /\ clientUsers' = ClosedSession(w, fd)
    /\ UNCHANGED <<connVars, dbVars, outbox>>

RowDroppedLate(w) == [u \in Users |-> IF u = clientUsers[w][job[w].fd] THEN NoFd ELSE online[u]]

\* DELETE FROM online_users for the name that the session had.
RowDropped(w) == [online EXCEPT ![job[w].from] = NoFd]

SetUserOffline(w) ==
    /\ Runs(w, "setUserOffline")
    /\ \E done \in Outcomes("setUserOffline") :
         online' = IF done THEN RowDropped(w) ELSE online
    /\ Finish(w, TRUE)
    /\ UNCHANGED <<connVars, users, offline, clientUsers, ioVars>>
-----------------------------------------------------------------------------
(* The end of every handler: sendToClient(clientFd, resp), where clientFd is
   this worker's own. *)

ReplyOf(w) == [type |-> "reply", n |-> NumberOf(w), ok |-> job[w].ok,
               off |-> job[w].off, all |-> job[w].all, users |-> job[w].users]

SendReply(w) ==
    /\ Runs(w, "reply")
    /\ outbox' = IF job[w].fd \in clients[w] THEN Write(ConnOf(w), ReplyOf(w))
                                             ELSE outbox
    /\ Goto(w, "idle")
    /\ job' = [job EXCEPT ![w] = IdleJob]
    /\ UNCHANGED <<connVars, dbVars, clientUsers, asked>>
-----------------------------------------------------------------------------
(* The event loop between handlers. *)

AddClient(w) ==
    /\ pc[w] = "idle"
    /\ HandleAdd(w)
    /\ UNCHANGED <<dbVars, clientUsers, ctlVars, ioVars>>

\* handleNotify, 'c' record, without a bufferevent.
RefuseClient(w) ==
    /\ pc[w] = "idle"
    /\ RefuseAdd(w)
    /\ UNCHANGED <<dbVars, clientUsers, ctlVars, ioVars>>

DeliveredInverted(w, note) ==
    IF note.fd \notin clients[w] /\ sock[note.fd] # NoConn
    THEN Write(sock[note.fd], PushOf(note.msg))
    ELSE outbox

\* Written to the client that has the descriptor now, dropped if there is none.
Delivered(w, note) ==
    IF note.fd \in clients[w] THEN Write(sock[note.fd], PushOf(note.msg)) ELSE outbox

\* handleNotify, 's' record.
DeliverNote(w) ==
    /\ pc[w] = "idle"
    /\ HandleSend(w)
    /\ outbox' = Delivered(w, Head(pipe[w]))
    /\ UNCHANGED <<dbVars, clientUsers, ctlVars, asked>>

DisconnectAnyTime(w, fd) ==
    /\ RemoveClient(w, fd)
    /\ UNCHANGED <<dbVars, clientUsers, ctlVars, ioVars>>

\* eventCallback: neither clientUsers_ nor online_users is told.
Disconnect(w, fd) ==
    /\ pc[w] = "idle"
    /\ RemoveClient(w, fd)
    /\ UNCHANGED <<dbVars, clientUsers, ctlVars, ioVars>>

\* What a new process has in memory; the tables are what the old one left.
Die ==
    /\ Crash
    /\ clientUsers' = NoSessions
    /\ pc' = [w \in Workers |-> "idle"]
    /\ job' = [w \in Workers |-> IdleJob]
    /\ UNCHANGED <<dbVars, ioVars>>

MainStep ==
    /\ (\E c \in Conns : Accept(c)) \/ RegisterFd \/ Start
    /\ UNCHANGED <<dbVars, clientUsers, ctlVars, ioVars>>

Take(w) == \/ HandleRegister(w) \/ HandleLogin(w) \/ HandleGetFriends(w)
           \/ HandlePrivateChat(w) \/ HandleGroupChat(w) \/ HandleLogout(w)

HandlerStep(w) ==
    \/ IsUserExists(w) \/ InsertUser(w)
    \/ VerifyLogin(w) \/ DeleteOnline(w) \/ InsertOnline(w)
    \/ GetOfflineMessages(w) \/ ClearOfflineMessages(w)
    \/ GetAllUsers(w) \/ GetOnlineUsers(w)
    \/ GetUserSocketFd(w) \/ RoutePrivate(w) \/ SendPrivate(w) \/ StoreOfflineMessage(w)
    \/ ListGroup(w) \/ LookupMember(w) \/ RouteMember(w) \/ SendMember(w) \/ GroupDone(w)
    \/ SetUserOffline(w)
    \/ SendReply(w)

Next ==
    \/ MainStep
    \/ \E w \in Workers : \/ Take(w) \/ HandlerStep(w)
                           \/ AddClient(w) \/ RefuseClient(w) \/ DeliverNote(w)
    \/ \E w \in Workers, fd \in Fds : Disconnect(w, fd)
    \/ Die

Spec == Init /\ [][Next]_vars

\* Threads run: a handler that can go on does, an idle worker drains its
\* socketpair, the main thread finishes a dispatch.  Clients owe nothing.
FairSpec ==
    /\ Spec
    /\ WF_vars(RegisterFd /\ UNCHANGED <<dbVars, clientUsers, ctlVars, ioVars>>)
    /\ \A w \in Workers :
         /\ WF_vars(HandlerStep(w))
         /\ WF_vars(AddClient(w) \/ RefuseClient(w) \/ DeliverNote(w))
-----------------------------------------------------------------------------
(* What a handler may rely on while other workers run. *)

\* The queries in which handleRegister and handleLogin use a name and a password,
\* in which handlePrivateChat uses the addressee, and in which a handler acts for
\* the user of its session.
AccountSteps == {"isUserExists", "insertUser", "verifyLogin", "deleteOnline",
                 "insertOnline", "getOfflineMessages", "clearOfflineMessages"}
PrivateSteps == {"getUserSocketFd", "routePrivate", "sendPrivate", "storeOfflineMessage"}
SessionSteps == PrivateSteps \cup {"hung", "listGroup", "lookupMember", "routeMember",
                                   "sendMember", "setUserOffline"}

LocalsOf(w) ==
    /\ pc[w] \in AccountSteps => job[w].req.user \in Users /\ job[w].req.pw \in Passwords
    /\ pc[w] \in PrivateSteps => job[w].req.user \in Users
    /\ pc[w] \in SessionSteps => job[w].from # NoUser
    /\ pc[w] \in {"sendPrivate", "sendMember"} => job[w].via # NoWorker /\ job[w].to # NoFd

Serving(w) ==
    /\ job[w].fd \in clients[w]
    /\ sock[job[w].fd] # NoConn
    /\ NumberOf(w) \in 1 .. MaxSent
    /\ asked[ConnOf(w)][NumberOf(w)] = job[w].req
    /\ LocalsOf(w)

\* From its first query to its answer a handler keeps the connection it serves: the
\* descriptor stays in clients_, open, and the connection's; the request it works
\* on is the last one read from it.  Only logged-in users speak
\* (server.cpp:306, 342), and nothing is sent by way of a null worker or to
\* descriptor -1.  Closes, accepts and reuse by other threads change none of this.
HandlerInv == \A w \in Workers : pc[w] # "idle" => Serving(w)

\* The inductive strengthening of TypeOK and HandlerInv.
ChatInv == TypeOK /\ ConnInv /\ HandlerInv /\ \A c \in Conns : Len(asked[c]) <= MaxSent
=============================================================================
