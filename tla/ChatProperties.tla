--------------------------- MODULE ChatProperties ---------------------------
(***************************************************************************)
(* What the chat server of module ChatServer promises its clients.  Each   *)
(* property names the part of the code it depends on; the README says      *)
(* under which circumstances each one holds.                               *)
(***************************************************************************)
EXTENDS ChatServer, SequencesExt

Handling(w, c) == pc[w] # "idle" /\ ConnOf(w) = c

\* Who may speak on connection c: the users for whom it has shown the password.
Earned(c) == {u \in Users : \E i \in DOMAIN asked[c] :
                LET r == asked[c][i] IN r.op = "login" /\ r.user = u /\ r.pw = users[u]}

Replies(c) == SelectSeq(outbox[c], LAMBDA packet : packet.type = "reply")

\* Where in c's output the answers are, and the requests that they answer.
Answers(c) == {i \in DOMAIN outbox[c] : outbox[c][i].type = "reply"}
Told(c, n) == \E i \in Answers(c) : outbox[c][i].ok /\ outbox[c][i].n = n

\* The numbers of c's requests of kind op that were answered with success.
Succeeded(c, op) == {n \in 1 .. MaxSent : Told(c, n) /\ asked[c][n].op = op}

\* c has been closed, by its client or with the process.
Gone(c) == c \in accepted /\ \A fd \in Fds : sock[fd] # c

\* The chat messages in the i-th packet sent to c: the one it pushes, or those that a
\* login's answer brings.
Given(c, i) == IF outbox[c][i].type = "push" THEN <<outbox[c][i].msg>> ELSE outbox[c][i].off

\* Every chat message c has been given.
Received(c) == UNION {ToSet(Given(c, i)) : i \in DOMAIN outbox[c]}

\* Every message there still is, somewhere between its sender and its addressee.
Kept == UNION {Received(c) : c \in Conns}
        \cup UNION {ToSet(offline[u]) : u \in Users}
        \cup UNION {ToSet(job[w].off) : w \in Workers}
        \cup UNION {{pipe[w][i].msg : i \in {i \in DOMAIN pipe[w] : pipe[w][i].type = "s"}}
                       : w \in Workers}
-----------------------------------------------------------------------------
(* Safety. *)

\* The answers on a connection are in the order of its requests, each is given once,
\* and the only request of an open connection without one is the request being
\* handled: every handler ends in exactly one sendToClient(clientFd, resp),
\* whatever queries fail, and what other workers push takes no answer's place.
AnsweredInOrder ==
    \A c \in Conns :
      /\ \A i, j \in Answers(c) : i < j => outbox[c][i].n < outbox[c][j].n
      /\ \A i \in Answers(c) : /\ outbox[c][i].n <= Len(asked[c])
                               /\ \A w \in Workers : Handling(w, c) => outbox[c][i].n < NumberOf(w)
      /\ \A n \in 1 .. Len(asked[c]) :
           \/ \E i \in Answers(c) : outbox[c][i].n = n
           \/ n = Len(asked[c]) /\ ((\E w \in Workers : Handling(w, c)) \/ Gone(c))

\* A name is registered once: although registerUser checks and inserts in two
\* queries, of all the requests told that they registered u at most one was, only
\* if u was new, and the password it gave is the one that counts from then on.
RegisteredOnce ==
    \A c, d \in Conns : \A i \in Succeeded(c, "register"), j \in Succeeded(d, "register") :
      LET r == asked[c][i]
          q == asked[d][j]
      IN /\ r.user = q.user => c = d /\ i = j
         /\ Registered[r.user] = NoPw /\ users[r.user] = r.pw

\* Nobody logs in with a password other than the registered one, and a password
\* that once opened an account always does: rows of users are never replaced.
LoginsAuthentic ==
    \A c \in Conns : \A n \in Succeeded(c, "login") :
      users[asked[c][n].user] = asked[c][n].pw

\* A worker takes a connection for user u only if that connection itself has
\* logged in as u ("please log in first", server.cpp:308).
SessionEarned ==
    \A w \in Workers : \A fd \in clients[w] :
      clientUsers[w][fd] # NoUser => clientUsers[w][fd] \in Earned(sock[fd])

\* c has logged in as u, and since then neither asked to log out nor been told that
\* it is somebody else.
EndsAs(c, u) ==
    \E i \in DOMAIN asked[c] :
      /\ asked[c][i].op = "login" /\ asked[c][i].user = u /\ asked[c][i].pw = users[u]
      /\ \A j \in i + 1 .. Len(asked[c]) :
           /\ asked[c][j].op # "logout"
           /\ asked[c][j].op = "login" /\ asked[c][j].user # u => ~ Told(c, j)

\* Every entry of clientUsers_ is the latest login of the connection that its worker
\* serves with that descriptor, or of one that has gone and had the descriptor before:
\* eventCallback leaves entries behind (server.cpp:441), but whatever closes, hands on
\* or logs out meanwhile, no session ever comes from anybody else.  FdsFor[c] can be
\* read as the descriptor that accept will give c.
SessionOfHolder ==
    \A w \in Workers, fd \in Fds : clientUsers[w][fd] # NoUser =>
      \E c \in accepted :
        /\ fd \in FdsFor[c]
        /\ Gone(c) \/ (fd \in clients[w] /\ sock[fd] = c)
        /\ EndsAs(c, clientUsers[w][fd])

\* c itself has logged in as u, or another one has that may have had c's descriptor
\* and is gone.
Stands(c, u) ==
    \E d \in accepted : /\ u \in Earned(d)
                        /\ d = c \/ (Gone(d) /\ FdsFor[c] \cap FdsFor[d] # {})

\* A chat message is given to a connection that stands for its addressee, a group
\* message (message.h:159) to one that stands for somebody else than its sender:
\* descriptors in online_users, fdToWorker_ and the socketpairs are used long after
\* they were looked up, and the worst that comes of it is that the next holder of a
\* closed connection's descriptor gets what was meant for that one.
AddressedToHolder ==
    \A c \in Conns : \A m \in Received(c) :
      \E u \in Users : Stands(c, u) /\ IF m.kind = "private" THEN u = m.to ELSE u # m.from

\* Whoever has descriptor fd, or had it until it was closed, has logged in as u.
Speaks(fd, u) ==
    \E c \in accepted : fd \in FdsFor[c] /\ u \in Earned(c) /\ (sock[fd] = c \/ Gone(c))

\* The steps of handleLogin from the queries' results on, and those of
\* handleGroupChat's loop over the users it has listed.
LoggedIn   == {"deleteOnline", "insertOnline", "getOfflineMessages", "clearOfflineMessages"}
GroupSteps == {"lookupMember", "routeMember", "sendMember"}

AskedByClient   == \A c \in Conns : \A i \in DOMAIN asked[c] : asked[c][i] \in Requests[c]
OwnDescriptor   == \A fd \in Fds : sock[fd] # NoConn => fd \in FdsFor[sock[fd]]
SessionsSpeak   == \A w \in Workers, fd \in Fds :
                     clientUsers[w][fd] # NoUser => Speaks(fd, clientUsers[w][fd])
RowsSpeak       == \A u \in Users : online[u] # NoFd => Speaks(online[u], u)
StoredForUser   == \A u \in Users : \A i \in DOMAIN offline[u] :
                     offline[u][i].kind = "private" /\ offline[u][i].to = u

\* Messages on their way to a descriptor.
Directed(fd, m) ==
    \E u \in Users : Speaks(fd, u) /\ IF m.kind = "private" THEN u = m.to ELSE u # m.from
SentToAddressee == \A w \in Workers : \A i \in DOMAIN pipe[w] :
                     pipe[w][i].type = "s" => Directed(pipe[w][i].fd, pipe[w][i].msg)

LoginsEarn ==
    \A w \in Workers :
      /\ pc[w] \in LoggedIn \cup {"verifyLogin"} => job[w].req.op = "login"
      /\ pc[w] \in LoggedIn => job[w].req.user \in Earned(ConnOf(w))
      /\ pc[w] # "idle" => \A i \in DOMAIN job[w].off :
           job[w].off[i].kind = "private" /\ job[w].off[i].to \in Earned(ConnOf(w))

LookupsSpeak ==
    \A w \in Workers :
      /\ pc[w] \in {"routePrivate", "sendPrivate"} /\ job[w].to # NoFd
           => Speaks(job[w].to, job[w].req.user)
      /\ pc[w] \in GroupSteps => job[w].from \notin job[w].users
      /\ pc[w] \in {"routeMember", "sendMember"}
           => \E u \in Users : u # job[w].from /\ Speaks(job[w].to, u)

\* The inductive strengthening of AddressedToHolder: wherever a descriptor stands for
\* a user (a session, a row of online_users, the locals of the chat handlers, a
\* notification), the connection that has it, or one that had it and is gone, has
\* logged in as that user.
AuthInv ==
    /\ AskedByClient /\ OwnDescriptor
    /\ SessionsSpeak /\ RowsSpeak /\ StoredForUser /\ SentToAddressee
    /\ LoginsEarn /\ LookupsSpeak
    /\ AddressedToHolder

\* Connection c is the only one that may get its descriptors, and it gives one name in
\* all its logins.
Alone(c) ==
    /\ \A d \in Conns : d # c => FdsFor[c] \cap FdsFor[d] = {}
    /\ \A r, q \in Requests[c] : r.op = "login" /\ q.op = "login" => r.user = q.user

\* What one connection sends, another receives pushed in the order it was sent,
\* and each thing once: direct writes and socketpairs do not overtake. That is so of
\* every receiver that is alone, whatever becomes of the others and their descriptors.
\* Otherwise it is not: a row that a closed connection left sends a private message
\* to the new holder of its descriptor, through the socketpair of the sender's own
\* worker when that is about to serve it, and the next group message, written
\* directly, overtakes it; and who has two names gets each group message twice.
PushFifo ==
    \A c \in Conns : Alone(c) => \A i, j \in DOMAIN outbox[c] :
      LET p == outbox[c][i]
          q == outbox[c][j]
      IN i < j /\ p.type = "push" /\ q.type = "push" /\ p.msg.conn = q.msg.conn
           => p.msg.n < q.msg.n

\* A private message is given once, although it may be stored, read and deleted by
\* different workers: pushed, or in the answer to a login, never both and never twice.
\* Only where two connections of its addressee log in at the same time may the answer
\* to each bring it, or where the DELETE failed the answer to the next login.
AtMostOnce ==
    \A c, d \in Conns : \A i \in DOMAIN outbox[c], j \in DOMAIN outbox[d] :
      \A k \in DOMAIN Given(c, i), l \in DOMAIN Given(d, j) :
        Given(c, i)[k].kind = "private" /\ Given(c, i)[k] = Given(d, j)[l] =>
          \/ c = d /\ i = j /\ k = l
          \/ /\ i \in Answers(c) /\ j \in Answers(d)
             /\ c # d \/ (i # j /\ "clearOfflineMessages" \in Faults)

\* A private message whose sender was told "message sent" (server.cpp:334) has
\* arrived, is on its way, or is stored for its addressee (server.cpp:327).
AckedIsKept ==
    \A c \in Conns : \A n \in Succeeded(c, "private") :
      \E m \in Kept : m.conn = c /\ m.n = n

\* Nobody else has had descriptor fd, and c has named only u in its logins.
OnlyHolder(c, fd) == \A d \in accepted : fd \in FdsFor[d] => d = c
OnlyUser(c, u)    == \A i \in DOMAIN asked[c] :
                       asked[c][i].op = "login" => asked[c][i].user = u

\* A row of online_users that names the descriptor of an open connection leads to that
\* user's session there, whichever worker wrote the row: several connections may log
\* one user in and out, each writes and deletes the user's one row, and queries may
\* fail.  A logout ends the session first and then deletes the row (server.cpp:363);
\* only the row whose DELETE failed stays.
RowsLeadToSessions ==
    \A w \in Workers : \A fd \in clients[w] : \A u \in Users :
      LET c == sock[fd] IN
      online[u] = fd /\ OnlyHolder(c, fd) /\ OnlyUser(c, u) =>
        \/ clientUsers[w][fd] = u
        \/ pc[w] = "setUserOffline" /\ job[w].fd = fd /\ job[w].from = u
        \/ "setUserOffline" \in Faults /\ \E i \in DOMAIN asked[c] : asked[c][i].op = "logout"
-----------------------------------------------------------------------------
(* Liveness. *)

\* Every request of a connection that stays is answered: no handler waits for
\* another worker, and group's loop over the listed users ends.
EveryRequestAnswered ==
    \A c \in Conns : Len(Replies(c)) < Len(asked[c]) ~> Len(Replies(c)) = Len(asked[c])

\* What is handed to another worker is written to the addressee: the socketpair
\* is drained and the target worker knows the descriptor.
PushesArrive ==
    \A c \in Conns, n \in 1 .. MaxSent :
      (\E w \in Workers : \E i \in 1 .. Len(pipe[w]) :
         pipe[w][i].type = "s" /\ pipe[w][i].msg.conn = c /\ pipe[w][i].msg.n = n)
      ~> \E d \in Conns : \E m \in Received(d) : m.conn = c /\ m.n = n

\* A private message for a client of the same worker is sent directly
\* (server.cpp:318).
LocalIsDelivered ==
    \A c \in Conns, n \in 1 .. MaxSent :
      (\E w \in Workers : /\ Handling(w, c) /\ NumberOf(w) = n
                          /\ job[w].req.op = "private" /\ job[w].to \in clients[w])
      ~> \E d \in Conns : \E m \in Received(d) : m.conn = c /\ m.n = n
=============================================================================
