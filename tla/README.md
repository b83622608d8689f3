# CPP_Chat: a formal model

TLA+ modules, TLC runs and TLAPS proofs for the chat program in `CPP_Chat/`: a
server (libevent, MySQL, several worker threads) and a client library with a
console client. Paths below are relative to `CPP_Chat/src/`.

## 1. The system

| Component | State | Operations | Interacts with |
|---|---|---|---|
| **Connection layer** `server/server.cpp` 71-231, 369-444 | `nextWorkerIndex_`, each worker's notify socketpair and `clients_`, `fdToWorker_`, the kernel's descriptor table | `acceptCallback`, `dispatchClient`, `getLeastLoadedWorker`, `addClient`, `handleNotify`, `notifySendMessage`, `removeClient`, `eventCallback`, `getWorkerForFd` | the main thread and every worker write to every worker's socketpair; `fdToWorker_` is shared under a mutex |
| **Request handlers** `server/server.cpp` 233-399 | `clientUsers_`, output buffers, locals of the running handler | `handleRegister`, `handleLogin`, `handleGetFriends`, `handlePrivateChat`, `handleGroupChat`, `handleLogout`, `sendToClient` | the database; other workers' socketpairs |
| **Database** `server/database.cpp` | tables `users`, `online_users`, `offline_messages`; one `MYSQL*` for all threads | one method per query, two queries in `registerUser` and `setUserOnline` | called by all workers without a lock |
| **Server reader** `readCallback`, 416-430 | the input evbuffer | cut the stream into messages | TCP, libevent |
| **Client session** `client/client.cpp` 20-174, 228-303 | `connected_`, `running_`, `socketFd_`, `receiveThread_` | `connect`, `disconnect`, `sendMessage`, `~Client`, the receive thread | application thread and receive thread share everything |
| **Client reader** `receiveThreadFunc` 255-292 | `readingHeader`, `expectedLength`, `messageBuffer` | cut the chunks of `recv` into messages | TCP |
| **Notify records** `addClient`, `notifySendMessage`, `WorkerThread::stop`, `handleNotify` | the bytes in each socketpair | write a record, receive up to 1024 bytes, take them apart | the main thread and all workers |
| **JSON codec** `common/message.cpp` | none | `toJsonString`, `fromJsonString`, `createMessageFromJson` | both ends |
| **Server lifecycle** `Server::start/stop`, `WorkerThread::start/stop/threadMain`, `acceptErrorCallback`, `server/main.cpp` | `running_`, `workers_`, `base_`, `listener_`, the `std::thread`s | start, stop | all of the server |
| **Console client** `client/clientmain.cpp`, the request methods of `client/client.cpp` | `currentUsername_` | the commands, `messageCallback` | the client library, the server |
| build and editor files | none | | |

What is hard here, and so what the properties are about:

* *Interleavings.* The workers share three tables, `fdToWorker_` and each other's
  socketpairs. Every handler is a sequence of queries with other workers' queries
  in between: check-then-insert (`registerUser`), delete-then-insert
  (`setUserOnline`), select-then-delete (offline messages), list-then-look-up
  (group chat), two selects (friends).
* *Stale descriptors.* A socket descriptor is a user's address (`online_users`),
  a worker's key (`clients_`, `clientUsers_`), a route (`fdToWorker_`) and a field
  of a notification in flight. The kernel reuses it as soon as it is closed, and
  nobody removes it from `clientUsers_`, `online_users` or `fdToWorker_`.
* *Two threads in the client*, with a plain `bool`-and-`join` protocol.
* *Streams.* Both readers cut a TCP stream into messages, with different code; a
  third stream, the socketpair, carries records whose first byte is their type and
  whose sender does not look whether they were taken whole.
* *Going down.* `stop` runs inside the loop it stops, tells each worker by a record
  that may be lost, and then closes and frees what the worker and its fellows use.
* *Two uses of one reply stream.* Answers and pushed messages share it; the console
  tells them apart, and finds out about success, by looking at fields.
* *Failures.* Every query may fail and most results are ignored; socketpair sends
  may fail silently; the process may die and leave `online_users` behind.

What makes each component correct:

* connection layer: one socket, one worker; routes lead to the owner; every
  accepted socket gets served;
* handlers and database: one answer per request and in order; a name registers
  once; nobody acts as a user without that user's password; private messages
  reach their addressee only, at most once, in order, and are not lost once
  acknowledged; nothing hangs (what of this the code does not do is in section 3);
* readers: exactly the messages sent, in order;
* client session: no use of a closed socket, no leak, no hang and no termination of
  its own, a lost connection is noticed;
* notify records: taken out as they were put in, whatever bytes the bodies hold;
* lifecycle: nothing is closed or freed under a thread that uses it, nobody stops
  unasked, stop comes to its end;
* codec and console: each end understands the other, and what is shown about
  outcomes and speakers is true.

## 2. The modules

| Module | Models |
|---|---|
| `Connections` | the connection layer, as a specification of its own (`ConnSpec`) |
| `EventLoops` | EXTENDS `Connections`: the threads that run it, and hang in a handler |
| `ChatServer` | EXTENDS `Connections`: handlers, sessions, tables, output buffers |
| `ChatProperties` | EXTENDS `ChatServer`: what clients and users are promised |
| `NotifyPipe` | EXTENDS `Streams`: the socketpairs as bytes: what is written, `handleNotify` |
| `ServerLifecycle` | EXTENDS `NotifyPipe`: the main thread from start to stop, the workers' threads |
| `ClientSession` | the two threads of the client library |
| `Streams` | where the pieces written to a stream of bytes end (`Written`) |
| `Framing` | EXTENDS `Streams`: the wire format and `Client::sendMessage`'s writing of it |
| `ServerReader`, `ClientReader` | EXTEND `Framing`: the two readers |
| `MessageChannel` | the abstract FIFO channel both readers are to implement |
| `MCReaders` | the two readers side by side, and the mappings to `MessageChannel` |
| `MessageCodec` | the six message classes and their JSON objects |
| `Console` | EXTENDS `MessageCodec`: consoles, requests, handlers and answers, message by message |
| `ChatServerProofs`, `AuthenticityProofs`, `AnswerProofs`, `ClientSessionProofs`, `ReaderProofs`, `LifecycleProofs`, `ConsoleProofs` | the theorems and their proofs |
| `StreamProofs` | lemmas on sequences, recursive functions and streams that `ReaderProofs` and `LifecycleProofs` share |
| `MC...` | constants for TLC; every `.cfg` begins with a line on what it is about |

### Connections

Variables carry the source's names: `nextWorkerIndex`, `clients` (keys only),
`fdToWorker`, and `pipe`, the records in each worker's socketpair. `sock` is the
kernel's table from descriptors to connections: `Accept` takes a free descriptor
(`FdsFor` says which the kernel may choose), `RemoveClient` frees it.

`dispatchClient` sends the `'c'` record first and writes `fdToWorker_` after; so
it is two actions, `Accept` and `RegisterFd`, with `main` in between. All else on
the main thread is between those. `Enqueue` is the non-blocking `send`: with
`PipeCap` records waiting it fails, and nobody looks. A record is atomic here.
Of a `'c'` record comes a client (`HandleAdd`) or, if `bufferevent_socket_new` fails,
a closed descriptor of which `fdToWorker_` is not told (`RefuseAdd`, server.cpp:198).
`RemoveClient` is `eventCallback`: `removeClient` and then `bufferevent_free` a
second time. libevent (2.1 and later) closes the descriptor when the last
reference is finalized, after the callback, so the worker forgets a descriptor
before the kernel reuses it; `Ownership` rests on this. The second free takes the
reference count to zero within libevent's own callback; whether that aborts
depends on how libevent was built, so the process may die there (`Crash`) or not.

`EventLoops` adds who executes this: each step of a worker is a turn of its loop, and
a worker that runs a handler which waits for itself (`Hang`, server.cpp:319) takes no
further turn. It is where the connection layer's liveness is stated.

### ChatServer

A worker runs one handler at a time (`pc[w]`, `job[w]` are its control point and
locals). It touches what others can see only in a query, in `getWorkerForFd` or in
a `send` to a socketpair; each of these is one step. What lies between them is
merged with the step before: `clients_` and `clientUsers_` of a worker are changed
by that worker's thread only. `Take` is `readCallback` and `processMessage` up to
the handler's first query; several messages in one callback are the special case
where no other step of that worker comes between. `SendReply` is the
`sendToClient(clientFd, resp)` that ends every handler. `AddClient`, `RefuseClient`
and `DeliverNote` are the actions of `Connections` on a record, by an idle worker.

* `users[u]` is the password or `NoPw`, `online[u]` the descriptor or `NoFd`,
  `offline[u]` the messages in the order of their ids. Keys are enforced: the
  second `INSERT` of a name fails, an offline message needs an account.
* `Outcomes(q)`: in a run with `q \in Faults` the query may fail (the code's
  `MySQL query error` branch). This over-approximates what the unprotected
  `MYSQL*` can do to a query by making it fail; it does not model one worker
  taking the result of another's query.
* `handlePrivateChat` locks `clientsMutex_` and, for a client of its own, calls
  `sendToClient`, which locks it again. A `std::mutex` is not recursive: the
  worker goes to `hung` and takes no further step.
* The loop of `handleGroupChat` visits the listed users in any order (the table
  has no `ORDER BY`), one query each.
* `outbox[c]` is all that was given to the output evbuffer of connection `c`, in
  order; what of it TCP delivers before a close or crash is outside the model.
* Messages that are not valid JSON or have no known type get no answer and change
  nothing; they are not among the requests. Contents are left out: a message is
  who, to whom and which request caused it.
* `asked` and `outbox` are histories that only properties and `MaxSent` read.

### ClientSession

`app` and `reader` are the control points of the two threads; `reader = "none"`
is a `std::thread` without a thread. The steps of `disconnect` and `connect` are in
the order of their lines. `Spawn` (assignment to `receiveThread_`) and `Destroy`
terminate the process if the old thread is still joinable. `Send` on a connection
the server has closed may be buffered or raise SIGPIPE. `Handle`, the work on a chunk,
goes back to the loop or leaves the thread by the exception of `append`
(client.cpp:280), which nobody catches: the process ends (`reader = "thrown"`). When it
does is the subject of `ClientReader`. The callbacks return and do not call the client
back (the console client's do not).

### Framing and the readers

The unit is a byte in `0 .. Base-1` and a header has `HeaderSize` of them; the
runs use 4 digits in base 4, enough for a header whose digits differ in weight.
`Arrive` and `Recv` cut the stream anywhere. In `ServerReader` one turn of
`readCallback`'s loop is one action. In `ClientReader` one turn of the loop over
`buffer[0..bytesRead)` is one action, `chunk` is what is left, and the history
`cut` remembers whether a chunk has ended within a header: `InHeader` compares the
place on the stream where a chunk ends with those where packets begin (`Written` of
the packets sent). The cast to `int` of the
missing length is modelled (`Signed`): from half the header's range on it is
negative, `append` throws in a thread without a handler, and the process ends
(`AppendThrows`). Bodies are JSON text and never empty.

### NotifyPipe and ServerLifecycle

`Connections` has a queue of records where the code has a socketpair; `NotifyPipe`
has the bytes. A record is a type byte (`C`, `S`, `Q`, with the values of `'c'`,
`'s'`, `'q'`), a descriptor, for `S` a length and a body; descriptor and length take
one byte here and four in the code. `Write` is the non-blocking `send`: it takes the
record whole if there is room for it, else some of it or nothing, and no caller
looks. `Recv` takes at most `ReadSize` bytes, and each turn of `handleNotify`'s loop
is an action: `TakeAdd` (with the fault "bufferevent" it may also close the descriptor,
which `refused` remembers), `TakeSend`, `TakeQuit`, `GiveUp` (the body is not all
there: the rest of the buffer is dropped), `SkipByte`. The history `cut` remembers
whether a record was ever written in part or received in two parts; after that the
code reads bodies as types, and may meet a `'q'` that nobody sent. `EndsRecord` tells
from `sent`, the records written whole, and from what is still waiting, whether a
read ends where a record does (`Written` again).

`ServerLifecycle` runs the threads over these streams. The main thread: `Listen`,
one `StartWorker` per worker (a socketpair that cannot be made leaves a worker
without a thread, to which connections are still dispatched), `Dispatch`, `Accept`,
and `AcceptError`, the only way into `Server::stop` while the server runs. `stop`
is `StopWorker` (clear `running_`, write `'q'`), `JoinWorker`, or `SkipWorker` for
a worker that no longer runs, for each worker in turn; then `ClearWorkers`, which
destroys the `std::thread` objects, and `LeaveDispatch`: the callback returns into
a dispatch whose `event_base` is gone, so either the process dies or `main` sleeps
for ever. A worker: `MakeBase` (may fail; then the thread ends), `LoopTest`,
`Notified`, `NotifyTurn`, `PassDone`. Of handlers there is `Hang`, the one that waits
for itself, and the message to another worker's client, in the two steps of
`notifySendMessage`: `Forward` is its look at `notifySendFd_` (server.cpp:370),
`SendNote` its `send` (379). The main thread may close that descriptor in between
(151); `letter` holds the locals.

### MessageCodec and Console

A message is a function from the members of its class, a JSON object one from its
keys. `ToJson` leaves out empty lists, `FromJson` requires the fields of the class
and gives defaults for the rest, `CreateMessageFromJson` rejects what has no known
type or lacks a field.

`Console` is the whole program seen from the keyboard: a typed line (`Type`)
becomes the request the library makes of it with `currentUsername_`; `Serve` is
`processMessage` with one handler as one step over plain tables (the queries and
their failures are in `ChatServer`); `Deliver` is the `'s'` record; `Receive` is
`handleMessage` and `messageCallback`. What travels is JSON, packed with the message
it was made from so that properties can compare. `typed`, `decided` and `welcomed`
are histories. Every client is alone on its worker. `exit` is `ClientSession`'s
disconnect and is left to that module.

## 3. The runs

| Run | Checks | Bounds |
|---|---|---|
| `connections` | `Ownership Routing ConnInv AcceptedIsServed` | 2 workers, which may hang, 3 connections over 2 descriptors (reuse), closes, refusals, 2 records per socketpair (it fills), 1 crash |
| `chat_accounts` | `ChatInv RegisteredOnce LoginsAuthentic AnsweredInOrder EveryRequestAnswered PushesArrive` | 2 clients on 2 workers, one user registered and one not, 2 passwords, every kind of request, 2 requests each, any query may fail, fair threads |
| `chat_talk` | `PushFifo` | 2 users on 2 workers, 3 requests each of login, private, group, logout |
| `chat_reconnect` | `AuthInv SessionOfHolder AddressedToHolder HandlerInv RowsLeadToSessions AtMostOnce` | 3 connections, two of one user, of which one may close and leave its descriptor to the other, wrong passwords, logout, a crash, socketpairs of 1, 2 requests each |
| `client_session` | `ReadsOpenSocket ConnectedIsRead Released DiesOnlyOfPeer SessionInv LossNoticed DisconnectReturns` | 3 connects, 2 packets waiting, a server that talks, is silent or closes, connects that fail |
| `readers` | `NothingLeftBehind InStep NeverOverfull AbortsOnlyCut ServerImplementsChannel AllHandled` | 3 messages of 1, 2 or 5 bytes, every cut; the client's chunks of at most 8 bytes |
| `server_lifecycle` | `LifecycleInv PipeInOrder StopsOnlyAsked StopReturns AnnouncedServed` | 2 workers, 3 descriptors, 1 forwarded message, socketpairs of 6 bytes, reads of 5, anything may fail to start, clients refused |
| `console` | `Understood ShownInOrder OutcomesTrue SpeakersTrue` | 2 consoles, any 3 lines, 2 names and the empty one, 1 text and the empty one, 2 accounts from before |

Two workers and two users suffice for every race here: each involves two
handlers, or a handler and the main thread, and one user or one pair of users.
Three connections are there where one descriptor has to pass from one to another, or
one user to log in twice, while a third party speaks. One forwarded message is enough
for a sender to stand between its look and its `send` while the main thread goes
through `stop`. Two requests let two clients race for a name and one
of them log in; three let a client log in, act and log out or log in again.
In `chat_talk` and `chat_accounts` each worker has one client, so every
message between users takes a socketpair; in `chat_reconnect` some group messages are written directly.
`PipeCap` 1 and 2 make socketpairs overflow. The messages of the readers are
shorter than a header, equal to part of one and longer than one, so a chunk of 8
bytes holds a message and a half. A socketpair of 6 bytes takes three announcements,
or one message and one announcement, and then a part of the next record; reads of 5
bytes cut the third announcement. Two of the descriptors and the body have the values
of type bytes, so that a reader out of step mistakes one for a record. Three lines on
two consoles are a login each and a message, or a message before a login and the
login that collects it. `CHECK_DEADLOCK FALSE` is in every configuration
because requests, connections and messages are bounded and then nothing is left to
do; the liveness properties take its place.

**What holds only under circumstances.** Where a promise depends on what clients do,
on descriptors or on failing queries, the property says so itself, and section 4 proves
it as it stands, for every `FdsFor`, `Requests` and `Faults`:

* `SessionOfHolder`: an entry of `clientUsers_` is the latest login of the connection
  that has the descriptor, or of one that had it before and is gone. That the second
  case happens is `chat_reuse`.
* `AddressedToHolder`, with `AuthInv` as its inductive form: a message reaches a
  connection that has logged in as its addressee, or one that may have followed on the
  descriptor of such a connection that is gone (`Stands`).
* `RowsLeadToSessions`: about the rows of a user that name the descriptor of an open
  connection, if no other connection can have had it (`OnlyHolder`) and its logins name
  one user (`OnlyUser`); it excepts the moment between the two steps of a logout and the
  row whose `DELETE` failed.
* `AtMostOnce`: a private message may be brought twice by two logins of its addressee
  at the same time, or by a later one if the `DELETE` failed; it excepts these two and
  nothing else.
* `PushFifo`: about receivers that share no descriptor and log in under one name
  (`Alone`). Section 4 says what the others may see.

`FdsFor[c]`, the descriptors that `accept` may return for `c`, can be read as a
prophecy: every behaviour is one in which each set has the one member that `accept`
will return. Since these theorems are for every `FdsFor`, "may have had the descriptor"
is then "had it".

`AnsweredInOrder`, `RegisteredOnce` and `LoginsAuthentic` are proved without
circumstances. They are about the model's queries, where a name or a password is equal
to itself only: the code pastes both into the text of the query (server/database.cpp:135),
and what escaping and collation make of them is not modelled (section 5).

The liveness properties name theirs. `AcceptedIsServed` and `StopReturns` except a
worker that hangs in a handler, `AnnouncedServed` also one that has been stopped or is
out of step; in the run of `EveryRequestAnswered` users who write to each other are on
different workers, in that of `PushesArrive` nobody disconnects and the socketpairs
have room. `DisconnectReturns` excepts the receive thread that waits for a silent
server. `PipeInOrder`, `StopsOnlyAsked` and `AnnouncedServed` hold until a record is cut
(`cut` of `NotifyPipe`), `InStep` and `AllHandled` until a chunk ends within a header.
`DiesOnlyOfPeer` excepts a process that ends by `append`'s exception; `AbortsOnlyCut`
says when that is. `OutcomesTrue` excepts a group message without text, which is shown
as sent when it was refused (clientmain.cpp:73). The next table is what happens
otherwise.

### Where code and text disagree

Each of these runs checks one property and TLC finds it violated.

| Run | Property | The text | What happens |
|---|---|---|---|
| `chat_local` | `LocalIsDelivered` | server.cpp:318 | the worker locks `clientsMutex_` twice and hangs |
| `chat_reuse` | `SessionEarned` | server.cpp:308 | a reused descriptor inherits a session (with a libevent build that survives the second `bufferevent_free`, server.cpp:442) |
| `chat_login_race` | `AckedIsKept` | server.cpp:327 | a message stored during its addressee's login is deleted |
| `client_reader_split` | `ClientImplementsChannel` | client.cpp:272 | the bytes of a split header are lost |

Further divergences met in reading the code, which no run states:

* `unregisterClientFd` (server.h:35) has no caller, so `fdToWorker_` only grows;
* `getLeastLoadedWorker` (server.h:71) is a round robin and reads no load;
* with reused descriptors a message reaches whoever has its addressee's old one
  (message.h:144 names an addressee), the other side of `chat_reuse`;
* a message to a user who has just disconnected without logging out is forwarded
  to nobody rather than stored (server.cpp:327), and one to a name without account
  is acknowledged (server.cpp:334);
* after a second login on the same connection under another name, a group message
  comes back to its sender (server.cpp:354);
* the lists of all users and of online users may disagree (message.h:115);
* every failure to register is called a duplicate name (server.cpp:263);
* a record that a full socketpair takes in part, or that the 1024-byte read cuts,
  puts `handleNotify` out of step (server.cpp:187); a body byte taken for a `'q'`
  ends the worker, and a later `stop`, which skips a worker that does not run,
  destroys its joinable `std::thread`: `std::terminate`;
* after an accept error `main` sleeps for ever with a server that has stopped, if the
  return into the freed `event_base` does not end the process (server.cpp:82);
* `currentUsername_` is the name of the last login tried, not of the session
  (client.cpp:197); the server does not look at it (`SpeakersTrue`);
* the console sends an empty name when none is typed, and the server registers it: a
  user who can receive but whose session counts as none (server.cpp:306);
* `disconnect` hangs while the server is silent (client.cpp:109), which
  `DisconnectReturns` excludes by name;
* after a lost connection the socket is never closed: `receiveThreadFunc` only clears
  `connected_` (client.cpp:298), and then `disconnect` returns before its `close`
  (client.cpp:105); the next `connect` overwrites the descriptor, and terminates the
  process when it assigns to a `std::thread` that is still joinable.

### Fairness

* `FairLoopSpec` of `EventLoops` and `FairSpec` of `ChatServer`:
  `event_base_dispatch` and `threadMain`'s loop never stop by themselves, so the
  main thread finishes a dispatch, a handler that can go on does, and an idle
  worker drains its socketpair. Weak fairness suffices: each is one thread's next
  step, and no other thread disables it. Clients owe nothing: no fairness on
  requests, closes or connects. A hung worker has no
  enabled step in either module, so nothing is assumed of it.
* `FairSpec` of `ClientSession`: both threads are scheduled; the application need
  not call anything and the server need not speak. So `DisconnectReturns` excepts
  the thread that waits in `recv` for a silent server, and only that one.
* `BothSpec` of `MCReaders`: the network delivers what was sent and the callback or
  thread runs, at the end the behaviour is about.
* `FairSpec` of `ServerLifecycle`: the workers' threads are scheduled and so are the
  steps of `stop`. Accepts, accept errors and forwarded messages need not come. A
  thread that hangs has no step to be fair to.
* `Console` has no liveness property and no fairness.

## 4. The proofs

The first part of `ChatServerProofs` is about the connection layer alone. For every
number of workers, descriptors and connections, any `PipeCap` and any `FdsFor`
(assumption `ConnAssumption`) it proves:

* `ConnectionsHold`: `ConnSpec => []ConnInv`, and from it `ConnTypeCorrect`;
* `OwnershipHolds`: `ConnSpec => []Ownership`;
* `RoutingHolds`: `ConnSpec => []Routing`.

`Ownership` and `Routing` need each other's pieces. That no descriptor has two
owners depends on announcements in flight (`AnnouncedOnce`: an announced
descriptor is open, unowned and announced once), this on owned descriptors being
open (`OwnedOpen`, so a descriptor that `accept` returns has neither owner nor
announcement), and `OneDescriptor` on a new connection being none of the open
ones (`OpenAccepted`). `ConnInv` is their conjunction with the types; TLC checks
it in `connections`. The lemmas say what a send and a receive do to the pending
announcements; then there is one lemma per action that changes a claim.

Its second part proves, for any number of workers, clients, users and requests,
any reuse of descriptors, any set of failing queries and any number of crashes
(assumptions `ConnAssumption`, `ChatAssumption`):

* `ChatHolds`: `Spec => []ChatInv`, and from it `ChatTypeCorrect`;
* `HandlerHolds`: `Spec => []HandlerInv`: from its first query to its answer a
  handler serves one open connection of its own worker and the last request read
  from it, and acts for a logged-in user only;
* `ChatImplementsConnections`: `Spec => ConnSpec`, a refinement with the identity
  as mapping, and from it `ChatOwnership`.

The types alone are not inductive: that `Forward` builds a `Message` needs a sender
with a session and a request number in range, so `TypeOK` needs `HandlerInv`; that
another worker's close, or an `accept`, leaves a handler's connection alone needs
`Ownership`, so `HandlerInv` needs `ConnInv`; and that a forwarded message is a
notification of `ConnSpec` (a worker, a descriptor, a message) needs `HandlerInv`
again. `ChatInv` is the conjunction, with the bound on requests; TLC checks it in
`chat_accounts`. `ConnStep` sorts every step but a crash into what it does to the
connection layer, `KeepsConnection` says what that leaves to a running handler, and
each query or call of a handler then only has to be shown to advance its own worker
(`Advances`).

`AuthenticityProofs` proves, under the same assumptions and no other:

* `AuthenticityHolds`: `Spec => []AuthInv`, and from it
* `AddressedToHolderHolds`: `Spec => []AddressedToHolder`.

A descriptor stands for a user in many places: a session, a row of `online_users`, the
locals of `handlePrivateChat` and `handleGroupChat`, a notification in flight; a name
does in `offline_messages` and in the locals of a login. `AuthInv` says of each that
the connection that has that descriptor, or one that had it until it was closed, has
logged in as that user (`Speaks`), or that the message is for that name. These facts
survive everything, reuse included: requests are only added, rows of `users` are never
replaced (`EarnedGrows`), and who is gone stays gone (`SpeaksGrows`); so no place has to
be told when a user leaves, and none is. When a worker then writes to the connection
that has the descriptor now, that one stands for the addressee (`SpeakerStands`). The
lemmas `...Effect` say what a step may do to each table, to the locals of a handler and
to what is sent; the lemmas `...Kept` follow, one per conjunct of `AuthInv`. TLC checks
`AuthInv` in `chat_reconnect`.

`AnswerProofs` proves, under the assumptions of `ChatServerProofs` alone too:

* `AnsweredInOrderHolds`: `Spec => []AnsweredInOrder`;
* `RegisteredOnceHolds`: `Spec => []RegisteredOnce`;
* `LoginsAuthenticHolds`: `Spec => []LoginsAuthentic`;
* `SessionOfHolderHolds`: `Spec => []SessionOfHolder`;
* `RowsLeadToSessionsHolds`: `Spec => []RowsLeadToSessions`;
* `AtMostOnceHolds`: `Spec => []AtMostOnce`;
* `PushFifoHolds`: `Spec => []PushFifo`.

`AnsweredInOrder` is inductive together with `ChatInv`: a request is taken only by the
worker that owns the connection, `Ownership` makes it the only one (`OneHandler`), it
is idle then, so all earlier requests have their answers; a crash leaves a request
without one and its connection gone for good (`GoneStays`). For the next two
`AccountInv` is the strengthening: a request counts as successful from its last
query on, not only when the answer is out (`Settled`); such a register has made
the row of its name, which was not there before, such a login has seen it, and rows
stay. Two registers of one name cannot both succeed, because the second finds the row
of the first, and not in one step, because steps are one worker's. That a worker in
`insertUser` has a request to register (`RightHandler`) ties control point and
request together. TLC finds no violation of `AccountInv` in the instance of
`chat_accounts`.

`SessionInv`, for the next two, adds what sessions and rows rest on. A connection that
has asked for anything is its worker's or is gone (`AskedServed`), so a session whose
connection is not gone is where its descriptor is served. A login that has opened its
session keeps it until it is answered, and only a logout comes to the query that drops a
row (`LoginOpen`). Then `SessionOfHolder` follows: the session of a descriptor is
written by the worker that serves it only, at a login that shows the password or a
logout; what is asked later and refused leaves it; a close turns its connection into
one that is gone (`GoneEnds`). For `RowsLeadToSessions`, the row that a login writes
names its own descriptor, and its session is open by then; whoever else writes the
user's row, another connection, writes another descriptor; a worker that ends the
session while the row still stands is about to drop it.

`OnceInv`, for `AtMostOnce`, follows a private message through the places where it can
be: a socketpair, the table, the locals of a login, an output (`Lies`). It is in one
place only, except that the table, what logins have read and their answers may hold
copies of it (`Apart`), since a login reads first and deletes after; what a worker
pushes or stores is new (`PrivateCounted` bounds the numbers of the messages that
exist), so what was pushed is never among the copies. If `DELETE` does not fail,
what has been answered is no longer stored, and no connection has it, or is about to
get it, in a second answer (`Deleted`); so only another connection, whose login read it
before either deleted it, can bring it again.

`FifoInv`, for `PushFifo`, follows the messages that are on their way to a connection
that is alone with its descriptors (`Sole`). Such a descriptor gets its route once
(`RoutedOnce`), so each message is in the output or waits in the socketpair of that
connection's worker, and nowhere else (`OnRoute`). The danger is a direct write that
overtakes what waits. It cannot: a worker puts into a socketpair only what it cannot
write itself (`AimsElsewhere`), so what waits for its own connections was sent from
elsewhere (`FromElsewhere`), and two messages of one sender take the same way. A message
is newer than all earlier ones of its sender because those were sent during requests
that are over; within one request the receiver, whose logins name one user, is reached
once (`Reached`). `SentOrder` is then the conclusion, for output and socketpair together.

`Alone` cannot be dropped. With a reused descriptor, a row that a closed connection
left behind sends a private message to the descriptor's next holder, through the
socketpair of the sender's own worker if that worker is about to serve it; the next
group message finds the new holder in `clients_`, is written directly, and overtakes.
And a connection that has logged in under two names gets every group message twice.

`ClientSessionProofs` proves, for any number of connects and of waiting packets,
with or without a server that closes (assumption `ClientAssumption`):

* `SessionHolds`: `Spec => []SessionInv`, and from it `SessionTypeCorrect`,
  `ReadsOpenSocketHolds`, `ConnectedIsReadHolds`,
  `ReleasedHolds`, `DiesOnlyOfPeerHolds`: the invariants of `client_session`.

None of them is inductive: that a read hits an open socket depends on where the
application's thread is, and this on what the receive thread has done. The
strengthening `SessionInv` ties the two control points together. While a thread may
still call `recv`, `connected_` is set, the client holds exactly the socket it
dialed last (`Held`) and `disconnect` is not past its `join`; a thread that has
left its loop has taken `connected_` back; without a thread the client is not
connected outside `disconnect`, and holds no socket except between `join` and
`close` or between `socket()` and the start of the thread. TLC checks it in
`client_session`; the proof has a lemma per thread and a step per action.

`LifecycleProofs` proves, for any number of workers, descriptors and bodies, any sizes
of socketpairs and reads, and any faults (`PipeAssumption`, `LifecycleAssumption`):

* `LifecycleHolds`: `Spec => []LifecycleInv`, whose core is `OutlivesThread`;
* `RecordsInOrder`: `Spec => []PipeInOrder`;
* `WorkersStopOnlyAsked`: `Spec => []StopsOnlyAsked`.

`OutlivesThread` has two parts. A thread within its loop has its `event_base` and its own
socketpair (`OwnOutlives`): after a worker's step this needs that a thread that is about
to make its `event_base` has its socketpair (`PairFirst`) and that it was not there
before its turn in `start`'s loop (`Unstarted`). And the socketpair that a worker has
found open and is about to write to is closed only when its owner has been joined
(`FellowOutlives`), which needs that letters are addressed to workers (`Addressed`) and
that the worker joined is one of the array (`JoinsOne`). The descriptor may then be
closed all the same before the `send`: `stop` closes the socketpair of the first worker
it has joined while the others still run, and their `send` fails.

The other two rest on one invariant, `StreamInv`, because each needs the other's side.
While no record is cut, a worker has taken the first of the records written to it
(`Taken`); what it holds and what still waits are what remains of the stream of
records, from the end of those it took (`InPlace`); and what it holds ends where a
record ends (`WholeRecords`). So the record at the front of its buffer is there whole
(`NextIsWhole`), and its first byte, descriptor or length tells the loop to take
exactly that record (`TurnTakesRecord`): nothing is given up or skipped, and a quit is
taken only where one was written. One was written only to a worker that `stop` has
come to; until then its thread runs (`RunsUnasked`), and a worker that `stop` has
passed has no thread to be joined (`Passed`). A worker that took a quit throws away
the rest of its buffer and is out of place from then on, which is why `InPlace`
speaks of a worker that still reads (`Reads`).

`ReaderProofs` proves about the two readers of the wire format, for any bodies, any
base and header size that can hold their lengths, any number of messages, any way to
cut the stream and any size of the client's buffer (`FramingAssumption`,
`ClientReaderAssumption`):

* `NothingIsLeftBehind`: `BothSpec => []NothingLeftBehind`, about the server;
* `ServerIsChannel`: the server's reader implements `MessageChannel`, the safety part
  of `ServerImplementsChannel`;
* `ClientTypes`: `Spec => []TypeOK`; `ClientInStep`: `Spec => []InStep`;
  `ClientNeverOverfull`: `Spec => []NeverOverfull`;
* `ClientAbortsOnlyCut`: `Spec => []AbortsOnlyCut`, if no length is more than half of
  what a header can say, as in the code, where that half is the range of `int`;
* `ClientIsChannel`: a client none of whose chunks ends within a header implements
  `MessageChannel`.

The server's invariant `ServerInv` says that the bytes read but not processed and
those on the wire are what remains of the stream of packets, from the end of those
processed: the position is always the start of a packet. The client's, `ClientInv`,
says that its position is the start of a packet while it expects a header, and
otherwise within the body of the one it is reading, of which `messageBuffer` is the
beginning (`Located`); and that the next chunk does not begin within a header
(`WholeHeaders`), which the history `cut` guards. `NeverOverfull` holds even after the
place is lost, because the client appends no more than is missing. The subject of the
first lemmas of the module is `Length(Header(n)) = n` for every number that fits.

Lengths of headers and ends of packets are computed by recursive functions. That such
a definition denotes a function that satisfies its equation is not taken for granted:
`Recursion` of `StreamProofs` shows that there is one, from the least element of the
set of numbers for which there is none (`Least`, from `WFMin` of the library), and
what it computes follows by `Induction`, over membership in a set in place of a
predicate. The rest of `StreamProofs` is about a stream of pieces, packets or records,
of which some bytes have been consumed: what remains after an append or a read, and
what the next piece is.

`ConsoleProofs` proves, for any clients, texts, accounts and number of lines, and any
finite set of names (`ConsoleAssumption`; finite because `SetToSeq` of the list of
users is one of a finite set only):

* `RoundTrip`: `CreateMessageFromJson(ToJson(m)) = m` for every message;
* `AllUnderstood`: `Spec => []Understood`;
* `SpeakersHold`: `Spec => []SpeakersTrue`;
* `ShownInOrderHolds`: `Spec => []ShownInOrder`; `OutcomesTrueHolds`:
  `Spec => []OutcomesTrue`.

`AllUnderstood` needs that all that is on a wire, in a socketpair or stored was packed
from a message of one of the classes, which `RoundTrip` then takes care of. For
`SpeakersHold` the inductive invariant follows a message through all places in which it
can wait: a session is of a client that was welcomed under its name, a request holds
what was typed, and each pushed or stored message has a speaker and a text of which
`SpokenBy` is true; histories only grow, so it stays true.

For the last two, `OrderInv` looks at what a console has shown together with what it is
going to show of everything on the wire (`Screen`): receiving a message does not change
that, and each other step only adds to its end. Its answers, counted from the
beginning, are those to the first lines typed, with the outcomes decided on
(`AllAnswered`); the requests under way are the other lines (`Asked`), less one that a
worker has taken and hangs with (`Lost`); what comes through a socketpair is not an
answer, because it has a speaker. The lemmas about it speak of sequences and not of
variables; the steps of the model are their instances.

Model-checked only: every liveness property (liveness and `ENABLED` are outside the
prover's reach), and with them the liveness part of the two refinements of
`MessageChannel`. Every safety property that a passing run checks is proved.

## 5. Not modelled

* Results swapped between workers on the shared `MYSQL*`: what the C library does with
  two threads on one handle is undefined, so the model lets the queries fail and
  nothing more.
* SQL text: names, passwords and messages are pasted into the queries
  (server/database.cpp:135), which `RegisteredOnce`, `LoginsAuthentic` and all that rests
  on passwords presume to be harmless; collation (MySQL compares names case-insensitively
  by default), and the loss of backslashes of stored JSON.
* The text of JSON: quoting, `\u` escapes, numbers. `MessageCodec` begins with the
  object and its keys.
* `Connections` and `ChatServer` keep whole records in their socketpairs; what happens
  to records that are cut is in `NotifyPipe` and `ServerLifecycle` only.
* What is never released: `notifyReceiveFd_` is not closed, the bufferevents of clients
  are not freed by `stop`. Nothing runs afterwards that would notice.
* A `stop` from outside (`~Server` with a running server): `main` never gets there.
* Windows branches of the client, which differ in names only; the layout of what the
  console prints; build and editor files.

## 6. Plan

1. *(done)* `Connections`, `ChatServer`, `ChatProperties`; `ClientSession`; the
   readers and their channel; that `ChatServer` implements `Connections`.
2. *(done)* `NotifyPipe` and `ServerLifecycle`; `MessageCodec` and `Console`; the
   proofs of section 4.
3. That the byte streams of `NotifyPipe` implement the record queue of `Connections`
   while no record is cut. `PipeInOrder` is the safety part of it.
4. Abstract specifications: accounts (a name is given out once, a login needs the
   password) and mailboxes (a private message is waiting, delivered or lost), with
   `ChatServer` as refinement under the circumstances named in section 3.
