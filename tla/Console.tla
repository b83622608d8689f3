------------------------------ MODULE Console ------------------------------
(***************************************************************************)
(* The console program on top of the client library, against the server's  *)
(* handlers, message for message: what is typed (client/clientmain.cpp),   *)
(* the messages the library makes of it (client/client.cpp), what the      *)
(* handlers answer and push (server/server.cpp), each through the JSON of  *)
(* module MessageCodec, and what messageCallback then shows.               *)
(*                                                                         *)
(* A handler is one step here and the tables are plain sets: module        *)
(* ChatServer has the handlers' single steps, the failing queries, the     *)
(* lost pushes and the connections that end.  Every client is alone on its *)
(* worker.                                                                 *)
(***************************************************************************)
EXTENDS MessageCodec, Integers, SequencesExt, FiniteSetsExt

CONSTANTS
    Clients,
    Words,      \* words that are typed for names
    Texts,      \* what is typed for passwords and messages
    Accounts,   \* accounts from before: pairs of a name and a password
    MaxLines    \* bound: lines typed, on all consoles together

None == "none"    \* no client
Names == Words \cup {""}
Said  == Texts \cup {""}

ASSUME ConsoleAssumption ==
    /\ None \notin Clients
    /\ Words \subseteq STRING /\ Texts \subseteq STRING /\ "" \notin Words
    /\ IsFiniteSet(Words)
    /\ Accounts \subseteq Names \X Said
    /\ MaxLines \in Nat

VARIABLES
    current,    \* each client's currentUsername_
    requests,   \* JSON on its way to the server
    replies,    \* JSON on its way to the client
    notify,     \* JSON for a client in the socketpair of its worker
    shown,      \* what each console has shown
    users,      \* table users
    online,     \* table online_users
    offline,    \* table offline_messages
    session,    \* clientUsers_
    hung,       \* clients whose worker waits for a mutex it holds
    typed,      \* history: the lines typed on each console
    decided,    \* history: the outcomes the server has answered each client
    welcomed    \* history: the pairs of a client and a name it was logged in with

clientVars == <<current, shown, typed>>
wireVars   == <<requests, replies, notify>>
tableVars  == <<users, online, offline>>
serverVars == <<session, hung, decided, welcomed>>
vars       == <<clientVars, wireVars, tableVars, serverVars>>

\* A line is split at blanks: without a name there is no text or password either.
Lines ==
    {line \in [cmd : {"register", "login", "private"}, name : Names, text : Said] :
        line.name = "" => line.text = ""}
    \cup [cmd : {"group"}, name : {""}, text : Said]
    \cup [cmd : {"friends", "logout"}, name : {""}, text : {""}]

\* JSON on a wire, with the message it was made from.
Packed(m) == [made |-> m, text |-> ToJson(m)]

Init ==
    /\ current = [c \in Clients |-> ""]
    /\ requests = [c \in Clients |-> <<>>]
    /\ replies = [c \in Clients |-> <<>>]
    /\ notify = [c \in Clients |-> <<>>]
    /\ shown = [c \in Clients |-> <<>>]
    /\ users = Accounts
    /\ online = [name \in Names |-> None]
    /\ offline = [name \in Names |-> <<>>]
    /\ session = [c \in Clients |-> ""]
    /\ hung = {}
    /\ typed = [c \in Clients |-> <<>>]
    /\ decided = [c \in Clients |-> <<>>]
    /\ welcomed = {}
-----------------------------------------------------------------------------
(* The console and the client library. *)

\* currentUsername_ is set before the server has said anything, and never cleared.
CurrentAfter(c, line) == IF line.cmd = "login" THEN line.name ELSE current[c]

Request(me, line) ==
    CASE line.cmd = "register" -> New("REGISTER", [username |-> line.name, password |-> line.text])
      [] line.cmd = "login"    -> New("LOGIN", [username |-> line.name, password |-> line.text])
      [] line.cmd = "friends"  -> New("GET_FRIENDS", [username |-> me])
      [] line.cmd = "private"  -> New("PRIVATE_CHAT",
                                      [from_user |-> me, to_user |-> line.name, content |-> line.text])
      [] line.cmd = "group"    -> New("GROUP_CHAT", [from_user |-> me, content |-> line.text])
      [] line.cmd = "logout"   -> New("LOGOUT", [username |-> me])

Type(c, line) ==
    /\ MapThenSumSet(LAMBDA d : Len(typed[d]), Clients) < MaxLines
    /\ typed' = [typed EXCEPT ![c] = Append(@, line)]
    /\ current' = [current EXCEPT ![c] = CurrentAfter(c, line)]
    /\ requests' = [requests EXCEPT ![c] = Append(@, Packed(Request(CurrentAfter(c, line), line)))]
    /\ UNCHANGED <<shown, replies, notify, tableVars, serverVars>>

(* Taking every private message for an answer; turning the outcome round. *)
IsAnswerPrivate(m) == m.type = "GROUP_CHAT" => m.from_user = ""
OutcomeSwapped(m)  == IF m.type = "GROUP_CHAT" THEN m.content # "" ELSE m.success

\* What messageCallback makes of a message: who speaks, or what the outcome was.
IsAnswer(m) == m.type \in {"PRIVATE_CHAT", "GROUP_CHAT"} => m.from_user = ""
Outcome(m)  == IF m.type = "GROUP_CHAT" THEN m.content = "" ELSE m.success

Shown(m) ==
    IF IsAnswer(m)
    THEN [as |-> "answer", type |-> m.type, outcome |-> Outcome(m),
          list |-> IF m.type = "LOGIN" THEN m.offline_messages ELSE <<>>]
    ELSE [as |-> "push", type |-> m.type, speaker |-> m.from_user, content |-> m.content]

\* handleMessage: what is not understood is only logged.
Receive(c) ==
    /\ replies[c] # <<>>
    /\ replies' = [replies EXCEPT ![c] = Tail(@)]
    /\ LET m == CreateMessageFromJson(Head(replies[c]).text) IN
         shown' = IF m = NoMessage THEN shown
                                   ELSE [shown EXCEPT ![c] = Append(@, Shown(m))]
    /\ UNCHANGED <<current, typed, requests, notify, tableVars, serverVars>>
-----------------------------------------------------------------------------
(* The server's handlers. *)

\* Messages written to clients of this worker, in their order.
Sends(c, ms) ==
    replies' = [replies EXCEPT ![c] = @ \o [k \in DOMAIN ms |-> Packed(ms[k])]]

Word(ok) == IF ok THEN "done" ELSE "refused"

\* The answer to a request, after the messages `before` it on the same connection.
Answers(c, before, m) ==
    /\ Sends(c, Append(before, m))
    /\ decided' = [decided EXCEPT ![c] = Append(@, m.success)]

HandleRegister(c, m) ==
    LET ok == \A password \in Said : <<m.username, password>> \notin users IN
    /\ m.type = "REGISTER"
    /\ users' = IF ok THEN users \cup {<<m.username, m.password>>} ELSE users
    /\ Answers(c, <<>>, New("REGISTER", [username |-> m.username, password |-> m.password,
                                         success |-> ok, message |-> Word(ok)]))
    /\ UNCHANGED <<notify, online, offline, session, hung, welcomed>>

Verified(m) == <<m.username, m.password>> \in users

\* Stored messages go into the answer and out of the table.
HandleLogin(c, m) ==
    LET ok == Verified(m)
        stored == IF ok THEN offline[m.username] ELSE <<>>
    IN
    /\ m.type = "LOGIN"
    /\ IF ok THEN /\ online' = [online EXCEPT ![m.username] = c]
                  /\ session' = [session EXCEPT ![c] = m.username]
                  /\ offline' = [offline EXCEPT ![m.username] = <<>>]
                  /\ welcomed' = welcomed \cup {<<c, m.username>>}
             ELSE UNCHANGED <<online, session, offline, welcomed>>
    /\ Answers(c, <<>>, New("LOGIN", [username |-> m.username, password |-> m.password,
                                      success |-> ok, message |-> Word(ok),
                                      offline_messages |-> stored]))
    /\ UNCHANGED <<notify, users, hung>>

HandleGetFriends(c, m) ==
    /\ m.type = "GET_FRIENDS"
    /\ Answers(c, <<>>, New("GET_FRIENDS",
                            [success |-> TRUE, message |-> Word(TRUE),
                             all_users |-> SetToSeq({account[1] : account \in users}),
                             online_users |-> SetToSeq({n \in Names : online[n] # None})]))
    /\ UNCHANGED <<notify, tableVars, session, hung, welcomed>>

\* notifySendMessage, to the workers of ds.
Notifies(ds, m) ==
    notify' = [d \in Clients |-> IF d \in ds THEN Append(notify[d], Packed(m)) ELSE notify[d]]

(* Trusting the name in the request. *)
SpeakerOfRequest(c, m) == m.from_user

Speaker(c, m) == session[c]

HandlePrivateChat(c, m) ==
    LET speaker == Speaker(c, m)
        push == New("PRIVATE_CHAT", [from_user |-> speaker, to_user |-> m.to_user,
                                     content |-> m.content, success |-> TRUE,
                                     message |-> Word(TRUE)])
        target == online[m.to_user]
        refusal == New("PRIVATE_CHAT", [to_user |-> m.to_user, message |-> Word(FALSE)])
        ack == New("PRIVATE_CHAT", [to_user |-> m.to_user, success |-> TRUE,
                                    message |-> Word(TRUE)])
    IN
    /\ m.type = "PRIVATE_CHAT"
    /\ \/ /\ speaker = ""
          /\ Answers(c, <<>>, refusal)
          /\ UNCHANGED <<notify, offline, hung>>
       \/ /\ speaker # ""
          /\ target = c      \* sendToClient while clientsMutex_ is held
          /\ hung' = hung \cup {c}
          /\ UNCHANGED <<replies, notify, offline, decided>>
       \/ /\ speaker # ""
          /\ target \in Clients \ {c}
          /\ Notifies({target}, push)
          /\ Answers(c, <<>>, ack)
          /\ UNCHANGED <<offline, hung>>
       \/ /\ speaker # ""
          /\ target = None
          /\ offline' = IF \E account \in users : account[1] = m.to_user
                        THEN [offline EXCEPT ![m.to_user] = Append(@, ToJson(push))]
                        ELSE offline
          /\ Answers(c, <<>>, ack)
          /\ UNCHANGED <<notify, hung>>
    /\ UNCHANGED <<users, online, session, welcomed>>

\* Every online user but the speaker, who may be on this very connection.
HandleGroupChat(c, m) ==
    LET speaker == Speaker(c, m)
        push == New("GROUP_CHAT", [from_user |-> speaker, content |-> m.content,
                                   success |-> TRUE, message |-> Word(TRUE)])
        others == Names \ {speaker}
        own == {n \in others : online[n] = c}
        refusal == New("GROUP_CHAT", [content |-> m.content, message |-> Word(FALSE)])
        ack == New("GROUP_CHAT", [success |-> TRUE, message |-> Word(TRUE)])
    IN
    /\ m.type = "GROUP_CHAT"
    /\ \/ /\ speaker = ""
          /\ Answers(c, <<>>, refusal)
          /\ UNCHANGED notify
       \/ /\ speaker # ""
          /\ Answers(c, [k \in 1 .. Cardinality(own) |-> push], ack)
          /\ notify' = [d \in Clients |->
                          IF d = c THEN notify[d]
                          ELSE notify[d] \o [k \in 1 .. Cardinality({n \in others : online[n] = d})
                                               |-> Packed(push)]]
    /\ UNCHANGED <<tableVars, session, hung, welcomed>>

\* The row of the session's user goes, whoever it is on now.
HandleLogout(c, m) ==
    /\ m.type = "LOGOUT"
    /\ online' = IF session[c] = "" THEN online ELSE [online EXCEPT ![session[c]] = None]
    /\ session' = [session EXCEPT ![c] = ""]
    /\ Answers(c, <<>>, New("LOGOUT", [success |-> TRUE, message |-> Word(TRUE)]))
    /\ UNCHANGED <<notify, users, offline, hung, welcomed>>

\* processMessage
Serve(c) ==
    /\ c \notin hung
    /\ requests[c] # <<>>
    /\ requests' = [requests EXCEPT ![c] = Tail(@)]
    /\ LET m == CreateMessageFromJson(Head(requests[c]).text) IN
         IF m = NoMessage THEN UNCHANGED <<replies, notify, tableVars, serverVars>>
         ELSE \/ HandleRegister(c, m) \/ HandleLogin(c, m) \/ HandleGetFriends(c, m)
              \/ HandlePrivateChat(c, m) \/ HandleGroupChat(c, m) \/ HandleLogout(c, m)
    /\ UNCHANGED clientVars

\* handleNotify: an 's' record.
Deliver(c) ==
    /\ notify[c] # <<>> /\ c \notin hung
    /\ notify' = [notify EXCEPT ![c] = Tail(@)]
    /\ replies' = [replies EXCEPT ![c] = Append(@, Head(notify[c]))]
    /\ UNCHANGED <<clientVars, requests, tableVars, serverVars>>

Next ==
    \E c \in Clients :
        \/ \E line \in Lines : Type(c, line)
        \/ Receive(c) \/ Serve(c) \/ Deliver(c)

Spec == Init /\ [][Next]_vars
-----------------------------------------------------------------------------
(* Properties. *)

Wire(c) == Range(requests[c]) \cup Range(replies[c]) \cup Range(notify[c])

\* Whatever is on a wire is read back by the other end as the message it was made from,
\* with its type and every member: an answer with lists left out as well as one with.
Understood ==
    \A c \in Clients : \A e \in Wire(c) : CreateMessageFromJson(e.text) = e.made

\* The answers among the first i elements of s, counted.
Answered(s, i) == Cardinality({j \in 1 .. i : s[j].as = "answer"})

TypeOf(line) ==
    CASE line.cmd = "register" -> "REGISTER"
      [] line.cmd = "login"    -> "LOGIN"
      [] line.cmd = "friends"  -> "GET_FRIENDS"
      [] line.cmd = "private"  -> "PRIVATE_CHAT"
      [] line.cmd = "group"    -> "GROUP_CHAT"
      [] line.cmd = "logout"   -> "LOGOUT"

\* A console shows the outcomes of its lines in the order of the lines, one each: an
\* answer is never shown as a message from somebody, nor a message as an answer.
ShownInOrder ==
    \A c \in Clients : \A i \in DOMAIN shown[c] :
        LET k == Answered(shown[c], i) IN
        shown[c][i].as = "answer" =>
            /\ k <= Len(typed[c])
            /\ shown[c][i].type = TypeOf(typed[c][k])

\* The outcome shown for a line is the one the server decided on, except that a group
\* message without text is shown as sent when it was refused: messageCallback looks at
\* the text, GroupChatMessage has no getSuccess.
OutcomesTrue ==
    \A c \in Clients : \A i \in DOMAIN shown[c] :
        LET k == Answered(shown[c], i) IN
        shown[c][i].as = "answer" =>
            /\ k <= Len(decided[c])
            /\ \/ shown[c][i].outcome = decided[c][k]
               \/ typed[c][k].cmd = "group" /\ typed[c][k].text = ""

\* Whoever a console shows as the speaker of a message, there is a client that the
\* server logged in under that name and on whose console the message was typed,
\* whatever name its currentUsername_ has put into the request.
SpokenBy(speaker, cmd, text) ==
    \E d \in Clients :
        /\ <<d, speaker>> \in welcomed
        /\ \E k \in DOMAIN typed[d] : typed[d][k].cmd = cmd /\ typed[d][k].text = text

SpeakersTrue ==
    \A c \in Clients : \A k \in DOMAIN shown[c] :
        LET s == shown[c][k] IN
        IF s.as = "push"
        THEN SpokenBy(s.speaker, IF s.type = "GROUP_CHAT" THEN "group" ELSE "private", s.content)
        ELSE \A e \in Range(s.list) : SpokenBy(e.from_user, "private", e.content)
=============================================================================
