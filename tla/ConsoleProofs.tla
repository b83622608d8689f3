--------------------------- MODULE ConsoleProofs ---------------------------
(***************************************************************************)
(* Proofs about modules MessageCodec and Console: the JSON of a message is *)
(* read back as that message, for any values of its members; and so, for   *)
(* any clients, names, texts and accounts, is all that is on a wire.  Then *)
(* who speaks: SpeakersTrue.  Then what a console shows of its own lines:  *)
(* ShownInOrder and OutcomesTrue.                                          *)
(***************************************************************************)
EXTENDS Console, FiniteSetTheorems, TLAPS

-----------------------------------------------------------------------------
(* The codec. *)

\* The classes' keys are not lists, and every class has its "type".
LEMMA KeysAndLists ==
    ASSUME NEW type \in MessageTypes
    PROVE  /\ Fields[type] \cap ListFields = {}
           /\ Lists[type] \subseteq ListFields
           /\ "type" \notin ListFields /\ "success" \notin ListFields
           /\ "message" \notin ListFields
           /\ "type" \in Members(type)
           /\ Fields[type] \subseteq Members(type)
BY DEF MessageTypes, Fields, Lists, ListFields, Members, RegisterFields, LoginFields,
       LoginLists, GetFriendsFields, GetFriendsLists, PrivateFields, GroupFields, LogoutFields

\* A message survives toJsonString and createMessageFromJson, whatever its members hold:
\* a list that was left out because it was empty comes back empty.
THEOREM RoundTrip ==
    ASSUME NEW m, IsMessage(m)
    PROVE  CreateMessageFromJson(ToJson(m)) = m
<1>. DEFINE json == ToJson(m)
<1>1. PICK type \in MessageTypes : /\ m = [field \in Members(type) |-> m[field]]
                                   /\ m["type"] = type
  BY DEF IsMessage
<1>2. DOMAIN m = Members(type)
  BY <1>1
<1>3. /\ DOMAIN json = Members(type) \ {list \in ListFields \cap Members(type) : m[list] = <<>>}
      /\ \A field \in DOMAIN json : json[field] = m[field]
  BY <1>2 DEF ToJson
<1>. HIDE DEF json
<1>4. "type" \in DOMAIN json /\ json["type"] = type
  BY <1>1, <1>3, KeysAndLists
<1>5. Fields[type] \subseteq DOMAIN json
  BY <1>3, KeysAndLists
<1>6. Parses(json)
  BY <1>4, <1>5 DEF Parses, Required
<1>7. ASSUME NEW field \in Members(type), field \notin DOMAIN json
      PROVE  Default(field) = m[field]
  <2>1. field \in ListFields /\ m[field] = <<>>
    BY <1>3, <1>7
  <2>2. field # "success"
    BY <2>1, KeysAndLists
  <2>. QED
    BY <2>1, <2>2 DEF Default
<1>8. FromJson(type, json) = [field \in Members(type) |-> m[field]]
  BY <1>3, <1>7 DEF FromJson
<1>9. CreateMessageFromJson(json) = m
  BY <1>1, <1>4, <1>6, <1>8 DEF CreateMessageFromJson
<1>. QED
  BY <1>9 DEF json

\* A constructor makes a message of its class.
LEMMA NewIsMessage ==
    ASSUME NEW type \in MessageTypes, NEW given
    PROVE  IsMessage(New(type, given)) /\ New(type, given)["type"] = type
<1>. DEFINE m == New(type, given)
<1>1. m = [field \in Members(type) |-> m[field]]
  BY DEF New
<1>2. m["type"] = type
  BY KeysAndLists DEF New
<1>. QED
  BY <1>1, <1>2 DEF IsMessage
-----------------------------------------------------------------------------
(* The wires. *)

Good(e)    == IsMessage(e.made) /\ e.text = ToJson(e.made)
GoodSeq(s) == (\E X : s \in Seq(X)) /\ \A k \in 1 .. Len(s) : Good(s[k])

\* The inductive strengthening of Understood: the wires are queues of packed messages.
WiresInv ==
    /\ requests = [c \in Clients |-> requests[c]]
    /\ replies = [c \in Clients |-> replies[c]]
    /\ notify = [c \in Clients |-> notify[c]]
    /\ \A c \in Clients : GoodSeq(requests[c]) /\ GoodSeq(replies[c]) /\ GoodSeq(notify[c])

LEMMA PackedGood == ASSUME NEW m, IsMessage(m) PROVE Good(Packed(m))
BY DEF Good, Packed

LEMMA EmptyGood == GoodSeq(<<>>)
<1>1. <<>> \in Seq({})
  OBVIOUS
<1>. QED
  BY <1>1 DEF GoodSeq

LEMMA AppendGood ==
    ASSUME NEW s, NEW e, GoodSeq(s), Good(e)
    PROVE  GoodSeq(Append(s, e))
<1>1. PICK X : s \in Seq(X)
  BY DEF GoodSeq
<1>2. s \in Seq(X \cup {e}) /\ e \in X \cup {e}
  BY <1>1
<1>3. Append(s, e) \in Seq(X \cup {e})
  BY <1>2
<1>4. ASSUME NEW k \in 1 .. Len(Append(s, e)) PROVE Good(Append(s, e)[k])
  <2>1. (k \in 1 .. Len(s) /\ Append(s, e)[k] = s[k]) \/ Append(s, e)[k] = e
    BY <1>2
  <2>. QED
    BY <2>1 DEF GoodSeq
<1>. QED
  BY <1>3, <1>4 DEF GoodSeq

LEMMA TailGood ==
    ASSUME NEW s, GoodSeq(s), s # <<>>
    PROVE  GoodSeq(Tail(s)) /\ Good(Head(s))
<1>1. PICK X : s \in Seq(X)
  BY DEF GoodSeq
<1>2. Tail(s) \in Seq(X)
  BY <1>1
<1>3. ASSUME NEW k \in 1 .. Len(Tail(s)) PROVE Good(Tail(s)[k])
  <2>1. k + 1 \in 1 .. Len(s) /\ Tail(s)[k] = s[k + 1]
    BY <1>1
  <2>. QED
    BY <2>1 DEF GoodSeq
<1>4. 1 \in 1 .. Len(s) /\ Head(s) = s[1]
  BY <1>1
<1>. QED
  BY <1>2, <1>3, <1>4 DEF GoodSeq

LEMMA ConcatGood ==
    ASSUME NEW s, NEW t, GoodSeq(s), GoodSeq(t)
    PROVE  GoodSeq(s \o t)
<1>1. PICK X : s \in Seq(X)
  BY DEF GoodSeq
<1>2. PICK Y : t \in Seq(Y)
  BY DEF GoodSeq
<1>3. s \in Seq(X \cup Y) /\ t \in Seq(X \cup Y)
  BY <1>1, <1>2
<1>4. s \o t \in Seq(X \cup Y)
  BY <1>3
<1>5. ASSUME NEW k \in 1 .. Len(s \o t) PROVE Good((s \o t)[k])
  <2>1. \/ k \in 1 .. Len(s) /\ (s \o t)[k] = s[k]
        \/ k - Len(s) \in 1 .. Len(t) /\ (s \o t)[k] = t[k - Len(s)]
    BY <1>3
  <2>. QED
    BY <2>1 DEF GoodSeq
<1>. QED
  BY <1>4, <1>5 DEF GoodSeq

\* n times the same message.
LEMMA CopiesGood ==
    ASSUME NEW n \in Nat, NEW e, Good(e)
    PROVE  GoodSeq([k \in 1 .. n |-> e])
<1>1. [k \in 1 .. n |-> e] \in Seq({e})
  OBVIOUS
<1>2. ASSUME NEW k \in 1 .. n PROVE [i \in 1 .. n |-> e][k] = e
  OBVIOUS
<1>3. Len([k \in 1 .. n |-> e]) = n
  OBVIOUS
<1>. QED
  BY <1>1, <1>2, <1>3 DEF GoodSeq

LEMMA InitWires == Init => WiresInv
<1>. SUFFICES ASSUME Init PROVE WiresInv
  OBVIOUS
<1>1. /\ requests = [c \in Clients |-> <<>>]
      /\ replies = [c \in Clients |-> <<>>]
      /\ notify = [c \in Clients |-> <<>>]
  BY DEF Init
<1>. QED
  BY <1>1, EmptyGood DEF WiresInv

\* One queue of one client is replaced by another good one.
LEMMA ReplaceGood ==
    ASSUME NEW f, NEW g, NEW c \in Clients, NEW s,
           f = [d \in Clients |-> f[d]], \A d \in Clients : GoodSeq(f[d]),
           GoodSeq(s), g = [f EXCEPT ![c] = s]
    PROVE  g = [d \in Clients |-> g[d]] /\ \A d \in Clients : GoodSeq(g[d])
<1>1. g = [d \in Clients |-> IF d = c THEN s ELSE f[d]]
  OBVIOUS
<1>. QED
  BY <1>1

\* A line becomes a message of the library.
LEMMA RequestIsMessage ==
    ASSUME NEW me, NEW line \in Lines
    PROVE  IsMessage(Request(me, line))
<1>1. line.cmd \in {"register", "login", "private", "group", "friends", "logout"}
  BY DEF Lines
<1>2. {"REGISTER", "LOGIN", "GET_FRIENDS", "PRIVATE_CHAT", "GROUP_CHAT", "LOGOUT"}
        \subseteq MessageTypes
  BY DEF MessageTypes, Fields
<1>. QED
  BY <1>1, <1>2, NewIsMessage DEF Request

LEMMA TypeWires ==
    ASSUME WiresInv, NEW c \in Clients, NEW line \in Lines, Type(c, line)
    PROVE  WiresInv'
<1>1. PICK r : /\ IsMessage(r)
               /\ requests' = [requests EXCEPT ![c] = Append(requests[c], Packed(r))]
  BY RequestIsMessage DEF Type
<1>2. UNCHANGED <<replies, notify>>
  BY DEF Type
<1>3. GoodSeq(Append(requests[c], Packed(r)))
  BY <1>1, PackedGood, AppendGood DEF WiresInv
<1>4. /\ requests' = [d \in Clients |-> requests'[d]]
      /\ \A d \in Clients : GoodSeq(requests'[d])
  BY <1>1, <1>3, ReplaceGood DEF WiresInv
<1>. QED
  BY <1>2, <1>4 DEF WiresInv

LEMMA ReceiveWires ==
    ASSUME WiresInv, NEW c \in Clients, Receive(c)
    PROVE  WiresInv'
<1>1. /\ replies[c] # <<>>
      /\ replies' = [replies EXCEPT ![c] = Tail(replies[c])]
      /\ UNCHANGED <<requests, notify>>
  BY DEF Receive
<1>2. GoodSeq(Tail(replies[c]))
  BY <1>1, TailGood DEF WiresInv
<1>3. /\ replies' = [d \in Clients |-> replies'[d]]
      /\ \A d \in Clients : GoodSeq(replies'[d])
  BY <1>1, <1>2, ReplaceGood DEF WiresInv
<1>. QED
  BY <1>1, <1>3 DEF WiresInv

LEMMA DeliverWires ==
    ASSUME WiresInv, NEW c \in Clients, Deliver(c)
    PROVE  WiresInv'
<1>1. /\ notify[c] # <<>>
      /\ notify' = [notify EXCEPT ![c] = Tail(notify[c])]
      /\ replies' = [replies EXCEPT ![c] = Append(replies[c], Head(notify[c]))]
      /\ UNCHANGED requests
  BY DEF Deliver
<1>2. GoodSeq(Tail(notify[c])) /\ GoodSeq(Append(replies[c], Head(notify[c])))
  BY <1>1, TailGood, AppendGood DEF WiresInv
<1>3. /\ replies' = [d \in Clients |-> replies'[d]]
      /\ \A d \in Clients : GoodSeq(replies'[d])
  BY <1>1, <1>2, ReplaceGood DEF WiresInv
<1>4. /\ notify' = [d \in Clients |-> notify'[d]]
      /\ \A d \in Clients : GoodSeq(notify'[d])
  BY <1>1, <1>2, ReplaceGood DEF WiresInv
<1>. QED
  BY <1>1, <1>3, <1>4 DEF WiresInv
-----------------------------------------------------------------------------
(* The handlers. *)

QueuesGood(f) == f = [d \in Clients |-> f[d]] /\ \A d \in Clients : GoodSeq(f[d])

LEMMA PackedSeqGood ==
    ASSUME NEW X, NEW ms \in Seq(X), \A k \in 1 .. Len(ms) : IsMessage(ms[k])
    PROVE  GoodSeq([k \in DOMAIN ms |-> Packed(ms[k])])
<1>. DEFINE t == [k \in DOMAIN ms |-> Packed(ms[k])]
            Y == {Packed(ms[k]) : k \in 1 .. Len(ms)}
<1>1. DOMAIN ms = 1 .. Len(ms) /\ Len(ms) \in Nat
  OBVIOUS
<1>2. t \in Seq(Y) /\ Len(t) = Len(ms)
  BY <1>1
<1>3. ASSUME NEW k \in 1 .. Len(t) PROVE Good(t[k])
  BY <1>1, <1>2, PackedGood
<1>. QED
  BY <1>2, <1>3 DEF GoodSeq

\* An answer, after n pushes on the same connection.
LEMMA AnswersGood ==
    ASSUME WiresInv, NEW c \in Clients, NEW push, NEW m,
           NEW before \in Seq({push}), IsMessage(push), IsMessage(m),
           Answers(c, before, m)
    PROVE  QueuesGood(replies')
<1>. DEFINE ms == Append(before, m)
            t == [k \in DOMAIN ms |-> Packed(ms[k])]
<1>1. replies' = [replies EXCEPT ![c] = replies[c] \o t]
  BY DEF Answers, Sends
<1>2. before \in Seq({push, m})
  OBVIOUS
<1>3. ms \in Seq({push, m})
  BY <1>2
<1>4. \A k \in 1 .. Len(ms) : IsMessage(ms[k])
  <2>1. \A k \in 1 .. Len(ms) : ms[k] \in {push, m}
    BY <1>3
  <2>. QED
    BY <2>1
<1>5. GoodSeq(t)
  BY <1>3, <1>4, PackedSeqGood
<1>. HIDE DEF t
<1>6. GoodSeq(replies[c] \o t)
  BY <1>5, ConcatGood DEF WiresInv
<1>. QED
  BY <1>1, <1>6, ReplaceGood DEF WiresInv, QueuesGood

\* An answer alone.
LEMMA AnswerGood ==
    ASSUME WiresInv, NEW c \in Clients, NEW m, IsMessage(m), Answers(c, <<>>, m)
    PROVE  QueuesGood(replies')
<1>1. <<>> \in Seq({m})
  OBVIOUS
<1>. QED
  BY <1>1, AnswersGood

LEMMA UnchangedGood ==
    ASSUME WiresInv
    PROVE  /\ replies' = replies => QueuesGood(replies')
           /\ notify' = notify => QueuesGood(notify')
BY DEF WiresInv, QueuesGood

LEMMA Types == {"REGISTER", "LOGIN", "GET_FRIENDS", "PRIVATE_CHAT", "GROUP_CHAT", "LOGOUT"}
                 \subseteq MessageTypes
BY DEF MessageTypes, Fields

\* The handlers that answer and push nothing.
LEMMA AnswerHandlers ==
    ASSUME WiresInv, NEW c \in Clients, NEW m,
           \/ HandleRegister(c, m) \/ HandleLogin(c, m)
           \/ HandleGetFriends(c, m) \/ HandleLogout(c, m)
    PROVE  QueuesGood(replies') /\ QueuesGood(notify')
<1>1. notify' = notify
  BY DEF HandleRegister, HandleLogin, HandleGetFriends, HandleLogout
<1>2. \E type \in MessageTypes : \E given : Answers(c, <<>>, New(type, given))
  BY Types, Zenon DEF HandleRegister, HandleLogin, HandleGetFriends, HandleLogout
<1>. QED
  BY <1>1, <1>2, NewIsMessage, AnswerGood, UnchangedGood

\* A push to the worker of another client.
LEMMA NotifiesGood ==
    ASSUME WiresInv, NEW ds, NEW m, IsMessage(m), Notifies(ds, m)
    PROVE  QueuesGood(notify')
<1>1. notify' = [d \in Clients |-> IF d \in ds THEN Append(notify[d], Packed(m)) ELSE notify[d]]
  BY DEF Notifies
<1>2. ASSUME NEW d \in Clients
      PROVE  GoodSeq(notify[d]) /\ GoodSeq(Append(notify[d], Packed(m)))
  BY PackedGood, AppendGood DEF WiresInv
<1>. QED
  BY <1>1, <1>2 DEF QueuesGood

LEMMA PrivateHandler ==
    ASSUME WiresInv, NEW c \in Clients, NEW m, HandlePrivateChat(c, m)
    PROVE  QueuesGood(replies') /\ QueuesGood(notify')
<1>1. \/ \E given : Answers(c, <<>>, New("PRIVATE_CHAT", given))
      \/ replies' = replies
  BY Zenon DEF HandlePrivateChat
<1>2. \/ \E ds : \E given : Notifies(ds, New("PRIVATE_CHAT", given))
      \/ notify' = notify
  BY Zenon DEF HandlePrivateChat
<1>3. QueuesGood(replies')
  BY <1>1, Types, NewIsMessage, AnswerGood, UnchangedGood
<1>4. QueuesGood(notify')
  BY <1>2, Types, NewIsMessage, NotifiesGood, UnchangedGood
<1>. QED
  BY <1>3, <1>4

\* Finitely many users can be online.
LEMMA SomeNames ==
    ASSUME NEW ns, ns \subseteq Names
    PROVE  Cardinality(ns) \in Nat
<1>1. IsFiniteSet(Names)
  BY ConsoleAssumption, FS_Singleton, FS_Union DEF Names
<1>. QED
  BY <1>1, FS_Subset, FS_CardinalityType

LEMMA GroupHandler ==
    ASSUME WiresInv, NEW c \in Clients, NEW m, HandleGroupChat(c, m)
    PROVE  QueuesGood(replies') /\ QueuesGood(notify')
<1>. DEFINE others == Names \ {Speaker(c, m)}
            On(d) == 1 .. Cardinality({n \in others : online[n] = d})
            push == New("GROUP_CHAT", [from_user |-> Speaker(c, m), content |-> m.content,
                                       success |-> TRUE, message |-> Word(TRUE)])
            refusal == New("GROUP_CHAT", [content |-> m.content, message |-> Word(FALSE)])
            ack == New("GROUP_CHAT", [success |-> TRUE, message |-> Word(TRUE)])
<1>1. \/ Answers(c, <<>>, refusal) /\ notify' = notify
      \/ /\ Answers(c, [k \in On(c) |-> push], ack)
         /\ notify' = [d \in Clients |-> IF d = c THEN notify[d]
                                         ELSE notify[d] \o [k \in On(d) |-> Packed(push)]]
  BY DEF HandleGroupChat
<1>2. IsMessage(push) /\ IsMessage(refusal) /\ IsMessage(ack)
  BY Types, NewIsMessage
<1>3. ASSUME NEW d PROVE \E n \in Nat : On(d) = 1 .. n
  <2>1. {n \in others : online[n] = d} \subseteq Names
    OBVIOUS
  <2>2. Cardinality({n \in others : online[n] = d}) \in Nat
    BY <2>1, SomeNames
  <2>. QED
    BY <2>2
<1>. HIDE DEF On, push, refusal, ack
<1>4. CASE Answers(c, <<>>, refusal) /\ notify' = notify
  BY <1>2, <1>4, AnswerGood, UnchangedGood
<1>5. CASE /\ Answers(c, [k \in On(c) |-> push], ack)
           /\ notify' = [d \in Clients |-> IF d = c THEN notify[d]
                                           ELSE notify[d] \o [k \in On(d) |-> Packed(push)]]
  <2>1. [k \in On(c) |-> push] \in Seq({push})
    <3>1. PICK n \in Nat : On(c) = 1 .. n
      BY <1>3
    <3>. QED
      BY <3>1
  <2>2. QueuesGood(replies')
    BY <1>2, <1>5, <2>1, AnswersGood
  <2>3. ASSUME NEW d \in Clients
        PROVE  GoodSeq(notify[d]) /\ GoodSeq(notify[d] \o [k \in On(d) |-> Packed(push)])
    <3>1. PICK n \in Nat : On(d) = 1 .. n
      BY <1>3
    <3>2. GoodSeq([k \in 1 .. n |-> Packed(push)])
      BY <1>2, PackedGood, CopiesGood
    <3>3. GoodSeq([k \in On(d) |-> Packed(push)])
      BY <3>1, <3>2
    <3>. QED
      BY <3>3, ConcatGood DEF WiresInv
  <2>4. QueuesGood(notify')
    BY <1>5, <2>3 DEF QueuesGood
  <2>. QED
    BY <2>2, <2>4
<1>. QED
  BY <1>1, <1>4, <1>5

LEMMA ServeWires ==
    ASSUME WiresInv, NEW c \in Clients, Serve(c)
    PROVE  WiresInv'
<1>. DEFINE m == CreateMessageFromJson(Head(requests[c]).text)
<1>1. /\ requests[c] # <<>>
      /\ requests' = [requests EXCEPT ![c] = Tail(requests[c])]
      /\ \/ replies' = replies /\ notify' = notify
         \/ HandleRegister(c, m) \/ HandleLogin(c, m) \/ HandleGetFriends(c, m)
         \/ HandlePrivateChat(c, m) \/ HandleGroupChat(c, m) \/ HandleLogout(c, m)
  BY DEF Serve
<1>. HIDE DEF m
<1>2. GoodSeq(Tail(requests[c]))
  BY <1>1, TailGood DEF WiresInv
<1>3. QueuesGood(requests')
  BY <1>1, <1>2, ReplaceGood DEF WiresInv, QueuesGood
<1>4. QueuesGood(replies') /\ QueuesGood(notify')
  BY <1>1, AnswerHandlers, PrivateHandler, GroupHandler, UnchangedGood
<1>. QED
  BY <1>3, <1>4 DEF WiresInv, QueuesGood

LEMMA StepWires == WiresInv /\ [Next]_vars => WiresInv'
<1>. SUFFICES ASSUME WiresInv, [Next]_vars PROVE WiresInv'
  OBVIOUS
<1>1. CASE Next
  BY <1>1, TypeWires, ReceiveWires, ServeWires, DeliverWires DEF Next
<1>2. CASE UNCHANGED vars
  BY <1>2 DEF WiresInv, vars, wireVars
<1>. QED
  BY <1>1, <1>2

\* What is on a wire is read back, by the server or by the client, as the message that
\* was packed there (toJsonString, createMessageFromJson).
THEOREM AllUnderstood == Spec => []Understood
<1>1. WiresInv => Understood
  <2>. SUFFICES ASSUME WiresInv, NEW c \in Clients, NEW e \in Wire(c)
                PROVE  CreateMessageFromJson(e.text) = e.made
    BY DEF Understood
  <2>1. ASSUME NEW s, GoodSeq(s), NEW x \in Range(s) PROVE Good(x)
    <3>1. PICK X : s \in Seq(X)
      BY <2>1 DEF GoodSeq
    <3>2. PICK k \in 1 .. Len(s) : x = s[k]
      BY <3>1 DEF Range
    <3>. QED
      BY <2>1, <3>2 DEF GoodSeq
  <2>2. Good(e)
    BY <2>1 DEF WiresInv, Wire
  <2>. QED
    BY <2>2, RoundTrip DEF Good
<1>. QED
  BY <1>1, InitWires, StepWires, PTL DEF Spec
-----------------------------------------------------------------------------
(* What the ends of the wires have of each other. *)

IsSeq(s) == \E X : s \in Seq(X)

LEMMA AppendRange ==
    ASSUME NEW s, NEW e, IsSeq(s)
    PROVE  IsSeq(Append(s, e)) /\ Range(Append(s, e)) = Range(s) \cup {e}
<1>1. PICK X : s \in Seq(X)
  BY DEF IsSeq
<1>2. s \in Seq(X \cup {e}) /\ e \in X \cup {e}
  BY <1>1
<1>3. Append(s, e) \in Seq(X \cup {e})
  BY <1>2
<1>4. /\ DOMAIN s = 1 .. Len(s) /\ DOMAIN Append(s, e) = 1 .. Len(s) + 1 /\ Len(s) \in Nat
      /\ \A k \in 1 .. Len(s) : Append(s, e)[k] = s[k]
      /\ Append(s, e)[Len(s) + 1] = e
  BY <1>2
<1>5. Range(Append(s, e)) \subseteq Range(s) \cup {e}
  <2>. SUFFICES ASSUME NEW k \in 1 .. Len(s) + 1
                PROVE  Append(s, e)[k] \in Range(s) \cup {e}
    BY <1>4 DEF Range
  <2>1. k \in 1 .. Len(s) \/ k = Len(s) + 1
    BY <1>4
  <2>. QED
    BY <1>4, <2>1 DEF Range
<1>6. Range(s) \cup {e} \subseteq Range(Append(s, e))
  <2>1. \A k \in 1 .. Len(s) : k \in 1 .. Len(s) + 1
    BY <1>4
  <2>2. Len(s) + 1 \in 1 .. Len(s) + 1
    BY <1>4
  <2>. QED
    BY <1>4, <2>1, <2>2 DEF Range
<1>. QED
  BY <1>3, <1>5, <1>6 DEF IsSeq

LEMMA TailRange ==
    ASSUME NEW s, IsSeq(s), s # <<>>
    PROVE  Range(Tail(s)) \subseteq Range(s) /\ Head(s) \in Range(s)
<1>1. PICK X : s \in Seq(X)
  BY DEF IsSeq
<1>2. /\ DOMAIN s = 1 .. Len(s) /\ 1 \in 1 .. Len(s) /\ Head(s) = s[1]
      /\ Tail(s) \in Seq(X) /\ DOMAIN Tail(s) = 1 .. Len(s) - 1
      /\ \A k \in 1 .. Len(s) - 1 : k + 1 \in 1 .. Len(s) /\ Tail(s)[k] = s[k + 1]
  BY <1>1
<1>. QED
  BY <1>2 DEF Range

LEMMA ConcatRange ==
    ASSUME NEW s, NEW t, IsSeq(s), IsSeq(t)
    PROVE  Range(s \o t) \subseteq Range(s) \cup Range(t)
<1>1. PICK X : s \in Seq(X)
  BY DEF IsSeq
<1>2. PICK Y : t \in Seq(Y)
  BY DEF IsSeq
<1>3. s \in Seq(X \cup Y) /\ t \in Seq(X \cup Y)
  BY <1>1, <1>2
<1>4. s \o t \in Seq(X \cup Y) /\ DOMAIN (s \o t) = 1 .. Len(s \o t)
  BY <1>3
<1>5. DOMAIN s = 1 .. Len(s) /\ DOMAIN t = 1 .. Len(t)
  BY <1>3
<1>6. ASSUME NEW k \in 1 .. Len(s \o t) PROVE (s \o t)[k] \in Range(s) \cup Range(t)
  <2>1. \/ k \in 1 .. Len(s) /\ (s \o t)[k] = s[k]
        \/ k - Len(s) \in 1 .. Len(t) /\ (s \o t)[k] = t[k - Len(s)]
    BY <1>3
  <2>. QED
    BY <1>5, <2>1 DEF Range
<1>. QED
  BY <1>4, <1>6 DEF Range

LEMMA GoodIsSeq ==
    ASSUME WiresInv, NEW c \in Clients
    PROVE  IsSeq(requests[c]) /\ IsSeq(replies[c]) /\ IsSeq(notify[c])
BY DEF WiresInv, GoodSeq, IsSeq
-----------------------------------------------------------------------------
(* Who speaks. *)

\* A request has the text of a line of its client's console, and a name that can be typed.
TypedBy(c, m) ==
    /\ m.type \in {"REGISTER", "LOGIN"} => m.username \in Names
    /\ m.type = "PRIVATE_CHAT" =>
         \E k \in DOMAIN typed[c] : typed[c][k].cmd = "private" /\ typed[c][k].text = m.content
    /\ m.type = "GROUP_CHAT" =>
         \E k \in DOMAIN typed[c] : typed[c][k].cmd = "group" /\ typed[c][k].text = m.content

\* What the server has written is nobody's message or that of the one it names.
Truthful(m) ==
    /\ m.type = "PRIVATE_CHAT" /\ m.from_user # "" => SpokenBy(m.from_user, "private", m.content)
    /\ m.type = "GROUP_CHAT" /\ m.from_user # "" => SpokenBy(m.from_user, "group", m.content)
    /\ m.type = "LOGIN" =>
         \A e \in Range(m.offline_messages) : SpokenBy(e.from_user, "private", e.content)

ShownTrue(s) ==
    IF s.as = "push"
    THEN SpokenBy(s.speaker, IF s.type = "GROUP_CHAT" THEN "group" ELSE "private", s.content)
    ELSE \A e \in Range(s.list) : SpokenBy(e.from_user, "private", e.content)

HistoryTypes ==
    /\ typed = [c \in Clients |-> typed[c]]
    /\ shown = [c \in Clients |-> shown[c]]
    /\ session = [c \in Clients |-> session[c]]
    /\ offline = [name \in Names |-> offline[name]]
    /\ \A c \in Clients : IsSeq(typed[c]) /\ IsSeq(shown[c])
    /\ \A name \in Names : IsSeq(offline[name])

\* The inductive strengthening of SpeakersTrue: it holds of a message wherever it is,
\* in a request, an answer, a socketpair, the table of stored messages and on a console.
SpeakersInv ==
    /\ \A c \in Clients : session[c] # "" => <<c, session[c]>> \in welcomed
    /\ \A account \in users : account[1] \in Names
    /\ \A c \in Clients : \A e \in Range(requests[c]) : TypedBy(c, e.made)
    /\ \A c \in Clients : \A e \in Range(replies[c]) : Truthful(e.made)
    /\ \A c \in Clients : \A e \in Range(notify[c]) : Truthful(e.made)
    /\ \A name \in Names : \A e \in Range(offline[name]) :
         SpokenBy(e.from_user, "private", e.content)
    /\ \A c \in Clients : \A s \in Range(shown[c]) : ShownTrue(s)

ProofInv == WiresInv /\ HistoryTypes /\ SpeakersInv

\* What was said stays said: consoles only add lines, and welcomed only grows.
Grows ==
    /\ welcomed \subseteq welcomed'
    /\ \A d \in Clients : \A k \in DOMAIN typed[d] :
         k \in DOMAIN typed'[d] /\ typed'[d][k] = typed[d][k]

LEMMA SpokenStays ==
    ASSUME Grows, NEW speaker, NEW cmd, NEW text, SpokenBy(speaker, cmd, text)
    PROVE  SpokenBy(speaker, cmd, text)'
BY DEF Grows, SpokenBy

LEMMA TypedStays ==
    ASSUME Grows, NEW c \in Clients, NEW m, TypedBy(c, m)
    PROVE  TypedBy(c, m)'
<1>1. ASSUME NEW cmd,
             \E k \in DOMAIN typed[c] : typed[c][k].cmd = cmd /\ typed[c][k].text = m.content
      PROVE  \E k \in DOMAIN typed'[c] : typed'[c][k].cmd = cmd /\ typed'[c][k].text = m.content
  BY <1>1 DEF Grows
<1>. QED
  BY <1>1 DEF TypedBy

LEMMA TruthfulStays ==
    ASSUME Grows, NEW m, Truthful(m)
    PROVE  Truthful(m)'
BY SpokenStays DEF Truthful

LEMMA ShownStays ==
    ASSUME Grows, NEW s, ShownTrue(s)
    PROVE  ShownTrue(s)'
BY SpokenStays DEF ShownTrue

\* The parts of SpeakersInv after a step: what is new must be true, the rest stays.
LEMMA SpeakersStep ==
    ASSUME SpeakersInv, Grows,
           \A c \in Clients : session'[c] # "" => <<c, session'[c]>> \in welcomed',
           \A account \in users' : account \in users \/ account[1] \in Names,
           \A c \in Clients : \A e \in Range(requests'[c]) :
              e \in Range(requests[c]) \/ TypedBy(c, e.made)',
           \A c \in Clients : \A e \in Range(replies'[c]) :
              e \in Range(replies[c]) \/ e \in Range(notify[c]) \/ Truthful(e.made)',
           \A c \in Clients : \A e \in Range(notify'[c]) :
              e \in Range(notify[c]) \/ Truthful(e.made)',
           \A name \in Names : \A e \in Range(offline'[name]) :
              e \in Range(offline[name]) \/ SpokenBy(e.from_user, "private", e.content)',
           \A c \in Clients : \A s \in Range(shown'[c]) :
              s \in Range(shown[c]) \/ ShownTrue(s)'
    PROVE  SpeakersInv'
<1>1. ASSUME NEW c \in Clients, NEW e \in Range(requests'[c]) PROVE TypedBy(c, e.made)'
  BY TypedStays DEF SpeakersInv
<1>2. ASSUME NEW c \in Clients, NEW e \in Range(replies'[c]) PROVE Truthful(e.made)'
  BY TruthfulStays DEF SpeakersInv
<1>3. ASSUME NEW c \in Clients, NEW e \in Range(notify'[c]) PROVE Truthful(e.made)'
  BY TruthfulStays DEF SpeakersInv
<1>4. ASSUME NEW name \in Names, NEW e \in Range(offline'[name])
      PROVE  SpokenBy(e.from_user, "private", e.content)'
  BY SpokenStays DEF SpeakersInv
<1>5. ASSUME NEW c \in Clients, NEW s \in Range(shown'[c]) PROVE ShownTrue(s)'
  BY ShownStays DEF SpeakersInv
<1>6. \A account \in users' : account[1] \in Names
  BY DEF SpeakersInv
<1>. QED
  BY <1>1, <1>2, <1>3, <1>4, <1>5, <1>6 DEF SpeakersInv

\* What a constructor's message holds.
LEMMA NewMembers ==
    ASSUME NEW type \in MessageTypes, NEW given, NEW field \in Members(type), field # "type"
    PROVE  New(type, given)[field] = IF field \in DOMAIN given THEN given[field]
                                                              ELSE Default(field)
BY DEF New

LEMMA MembersOf ==
    /\ "username" \in Members("REGISTER") /\ "username" \in Members("LOGIN")
    /\ "offline_messages" \in Members("LOGIN")
    /\ {"from_user", "content"} \subseteq Members("PRIVATE_CHAT")
    /\ {"from_user", "content"} \subseteq Members("GROUP_CHAT")
    /\ Default("from_user") = ""
BY DEF Members, Fields, Lists, RegisterFields, LoginFields, LoginLists, PrivateFields,
       GroupFields, Default, ListFields, GetFriendsLists

LEMMA NewUsername ==
    ASSUME NEW type \in {"REGISTER", "LOGIN"}, NEW given, "username" \in DOMAIN given
    PROVE  New(type, given).type = type /\ New(type, given).username = given.username
<1>1. type \in MessageTypes
  BY Types
<1>2. "username" \in Members(type)
  BY MembersOf
<1>. QED
  BY <1>1, <1>2, NewIsMessage, NewMembers, MembersOf

LEMMA NewContent ==
    ASSUME NEW type \in {"PRIVATE_CHAT", "GROUP_CHAT"}, NEW given, "content" \in DOMAIN given
    PROVE  New(type, given).type = type /\ New(type, given).content = given.content
<1>1. type \in MessageTypes
  BY Types
<1>2. "content" \in Members(type)
  BY MembersOf
<1>. QED
  BY <1>1, <1>2, NewIsMessage, NewMembers, MembersOf

LEMMA NewSpeaker ==
    ASSUME NEW type \in {"PRIVATE_CHAT", "GROUP_CHAT"}, NEW given
    PROVE  New(type, given).from_user = IF "from_user" \in DOMAIN given THEN given.from_user
                                                                         ELSE ""
<1>1. type \in MessageTypes
  BY Types
<1>2. "from_user" \in Members(type)
  BY MembersOf
<1>. QED
  BY <1>1, <1>2, NewIsMessage, NewMembers, MembersOf

LEMMA NewList ==
    ASSUME NEW given, "offline_messages" \in DOMAIN given
    PROVE  New("LOGIN", given).type = "LOGIN"
           /\ New("LOGIN", given).offline_messages = given.offline_messages
BY Types, NewIsMessage, NewMembers, MembersOf

LEMMA InitProofInv == Init => ProofInv
<1>. SUFFICES ASSUME Init PROVE ProofInv
  OBVIOUS
<1>1. IsSeq(<<>>) /\ Range(<<>>) = {}
  <2>1. <<>> \in Seq({})
    OBVIOUS
  <2>. QED
    BY <2>1 DEF IsSeq, Range
<1>2. /\ typed = [c \in Clients |-> <<>>] /\ shown = [c \in Clients |-> <<>>]
      /\ session = [c \in Clients |-> ""] /\ offline = [name \in Names |-> <<>>]
      /\ requests = [c \in Clients |-> <<>>] /\ replies = [c \in Clients |-> <<>>]
      /\ notify = [c \in Clients |-> <<>>] /\ users = Accounts
  BY DEF Init
<1>3. HistoryTypes
  BY <1>1, <1>2 DEF HistoryTypes
<1>4. SpeakersInv
  BY <1>1, <1>2, ConsoleAssumption DEF SpeakersInv
<1>. QED
  BY <1>3, <1>4, InitWires DEF ProofInv

\* The request of a line carries its name and its text.
LEMMA RequestCarries ==
    ASSUME NEW me, NEW line \in Lines
    PROVE  LET r == Request(me, line) IN
           /\ r.type \in {"REGISTER", "LOGIN"} => r.username \in Names
           /\ r.type = "PRIVATE_CHAT" => line.cmd = "private" /\ r.content = line.text
           /\ r.type = "GROUP_CHAT" => line.cmd = "group" /\ r.content = line.text
<1>. DEFINE r == Request(me, line)
<1>0. line.name \in Names
  BY DEF Lines, Names
<1>1. CASE line.cmd = "register"
  <2>. DEFINE given == [username |-> line.name, password |-> line.text]
  <2>1. r = New("REGISTER", given)
    BY <1>1 DEF Request
  <2>2. "username" \in DOMAIN given /\ given.username = line.name
    OBVIOUS
  <2>. HIDE DEF given
  <2>3. r.type = "REGISTER" /\ r.username = line.name
    BY <2>1, <2>2, NewUsername
  <2>. QED
    BY <1>0, <2>3
<1>2. CASE line.cmd = "login"
  <2>. DEFINE given == [username |-> line.name, password |-> line.text]
  <2>1. r = New("LOGIN", given)
    BY <1>2 DEF Request
  <2>2. "username" \in DOMAIN given /\ given.username = line.name
    OBVIOUS
  <2>. HIDE DEF given
  <2>3. r.type = "LOGIN" /\ r.username = line.name
    BY <2>1, <2>2, NewUsername
  <2>. QED
    BY <1>0, <2>3
<1>3. CASE line.cmd = "friends" \/ line.cmd = "logout"
  <2>1. r.type \in {"GET_FRIENDS", "LOGOUT"}
    BY <1>3, Types, NewIsMessage DEF Request
  <2>. QED
    BY <2>1
<1>4. CASE line.cmd = "private"
  <2>. DEFINE given == [from_user |-> me, to_user |-> line.name, content |-> line.text]
  <2>1. r = New("PRIVATE_CHAT", given)
    BY <1>4 DEF Request
  <2>2. "content" \in DOMAIN given /\ given.content = line.text
    OBVIOUS
  <2>. HIDE DEF given
  <2>3. r.type = "PRIVATE_CHAT" /\ r.content = line.text
    BY <2>1, <2>2, NewContent
  <2>. QED
    BY <1>4, <2>3
<1>5. CASE line.cmd = "group"
  <2>. DEFINE given == [from_user |-> me, content |-> line.text]
  <2>1. r = New("GROUP_CHAT", given)
    BY <1>5 DEF Request
  <2>2. "content" \in DOMAIN given /\ given.content = line.text
    OBVIOUS
  <2>. HIDE DEF given
  <2>3. r.type = "GROUP_CHAT" /\ r.content = line.text
    BY <2>1, <2>2, NewContent
  <2>. QED
    BY <1>5, <2>3
<1>6. line.cmd \in {"register", "login", "private", "group", "friends", "logout"}
  BY DEF Lines
<1>. QED
  BY <1>1, <1>2, <1>3, <1>4, <1>5, <1>6

LEMMA TypeTrue ==
    ASSUME ProofInv, NEW c \in Clients, NEW line \in Lines, Type(c, line)
    PROVE  HistoryTypes' /\ SpeakersInv'
<1>0. WiresInv /\ HistoryTypes /\ SpeakersInv
  BY DEF ProofInv
<1>r. PICK r : r = Request(CurrentAfter(c, line), line)
  OBVIOUS
<1>1. /\ typed' = [typed EXCEPT ![c] = Append(typed[c], line)]
      /\ requests' = [requests EXCEPT ![c] = Append(requests[c], Packed(r))]
      /\ UNCHANGED <<replies, notify, users, offline, session, welcomed, shown>>
  BY <1>r DEF Type, tableVars, serverVars
<1>2. /\ r.type \in {"REGISTER", "LOGIN"} => r.username \in Names
      /\ r.type = "PRIVATE_CHAT" => line.cmd = "private" /\ r.content = line.text
      /\ r.type = "GROUP_CHAT" => line.cmd = "group" /\ r.content = line.text
  BY <1>r, RequestCarries
<1>3. /\ typed'[c] = Append(typed[c], line)
      /\ \A d \in Clients \ {c} : typed'[d] = typed[d]
      /\ typed' = [d \in Clients |-> typed'[d]]
      /\ IsSeq(typed[c])
  BY <1>0, <1>1 DEF HistoryTypes
<1>4. PICK X : typed[c] \in Seq(X)
  BY <1>3 DEF IsSeq
<1>5. /\ DOMAIN typed[c] = 1 .. Len(typed[c]) /\ Len(typed[c]) \in Nat
      /\ typed[c] \in Seq(X \cup {line})
  BY <1>4
<1>6. /\ DOMAIN typed'[c] = 1 .. Len(typed[c]) + 1
      /\ \A k \in 1 .. Len(typed[c]) : typed'[c][k] = typed[c][k]
      /\ typed'[c][Len(typed[c]) + 1] = line
  BY <1>3, <1>5
<1>7. Grows
  <2>1. \A k \in DOMAIN typed[c] : k \in DOMAIN typed'[c] /\ typed'[c][k] = typed[c][k]
    BY <1>5, <1>6
  <2>. QED
    BY <1>1, <1>3, <2>1 DEF Grows
<1>8. TypedBy(c, r)'
  <2>1. Len(typed[c]) + 1 \in DOMAIN typed'[c]
    BY <1>5, <1>6
  <2>. QED
    BY <1>2, <1>6, <2>1 DEF TypedBy
<1>9. ASSUME NEW d \in Clients, NEW e \in Range(requests'[d])
      PROVE  e \in Range(requests[d]) \/ TypedBy(d, e.made)'
  <2>1. CASE d # c
    BY <1>0, <1>1, <1>9, <2>1 DEF WiresInv
  <2>2. CASE d = c
    <3>1. requests'[c] = Append(requests[c], Packed(r))
      BY <1>0, <1>1 DEF WiresInv
    <3>2. e \in Range(requests[c]) \/ e = Packed(r)
      BY <1>0, <1>9, <2>2, <3>1, GoodIsSeq, AppendRange
    <3>3. Packed(r).made = r
      BY DEF Packed
    <3>4. e = Packed(r) => TypedBy(c, e.made)'
      BY <1>8, <3>3
    <3>. QED
      BY <2>2, <3>2, <3>4
  <2>. QED
    BY <2>1, <2>2
<1>10. SpeakersInv'
  <2>1. /\ \A d \in Clients : session'[d] # "" => <<d, session'[d]>> \in welcomed'
        /\ \A account \in users' : account \in users \/ account[1] \in Names
    BY <1>0, <1>1 DEF SpeakersInv
  <2>. QED
    BY <1>0, <1>1, <1>7, <1>9, <2>1, SpeakersStep
<1>11. HistoryTypes'
  <2>1. IsSeq(typed'[c])
    BY <1>3, AppendRange
  <2>2. \A d \in Clients : IsSeq(typed'[d])
    BY <1>0, <1>3, <2>1 DEF HistoryTypes
  <2>. QED
    BY <1>0, <1>1, <1>3, <2>2 DEF HistoryTypes
<1>. QED
  BY <1>10, <1>11

\* Only typing lines adds to what was typed, only logging in to what was welcomed.
LEMMA SteadyGrows ==
    ASSUME typed' = typed, welcomed \subseteq welcomed' PROVE Grows
BY DEF Grows

\* A console shows a message with the speaker the message names.
LEMMA ShownOfTruthful ==
    ASSUME NEW m, Truthful(m) PROVE ShownTrue(Shown(m))
<1>1. CASE IsAnswer(m)
  <2>1. /\ Shown(m).as = "answer"
        /\ Shown(m).list = IF m.type = "LOGIN" THEN m.offline_messages ELSE <<>>
    BY <1>1 DEF Shown
  <2>2. Range(<<>>) = {}
    BY DEF Range
  <2>. QED
    BY <2>1, <2>2 DEF ShownTrue, Truthful
<1>2. CASE ~ IsAnswer(m)
  <2>1. m.type \in {"PRIVATE_CHAT", "GROUP_CHAT"} /\ m.from_user # ""
    BY <1>2 DEF IsAnswer
  <2>2. /\ Shown(m).as = "push" /\ Shown(m).type = m.type
        /\ Shown(m).speaker = m.from_user /\ Shown(m).content = m.content
    BY <1>2 DEF Shown
  <2>. QED
    BY <2>1, <2>2 DEF ShownTrue, Truthful
<1>. QED
  BY <1>1, <1>2

\* What is read from a wire is what was packed there.
LEMMA ReadBack ==
    ASSUME NEW e, Good(e)
    PROVE  CreateMessageFromJson(e.text) = e.made
BY RoundTrip DEF Good

LEMMA GoodElements ==
    ASSUME NEW s, GoodSeq(s), NEW e \in Range(s)
    PROVE  Good(e)
<1>1. PICK X : s \in Seq(X)
  BY DEF GoodSeq
<1>2. PICK k \in 1 .. Len(s) : e = s[k]
  BY <1>1 DEF Range
<1>. QED
  BY <1>2 DEF GoodSeq

LEMMA ReceiveTrue ==
    ASSUME ProofInv, NEW c \in Clients, Receive(c)
    PROVE  HistoryTypes' /\ SpeakersInv'
<1>0. WiresInv /\ HistoryTypes /\ SpeakersInv
  BY DEF ProofInv
<1>1. /\ replies[c] # <<>>
      /\ replies' = [replies EXCEPT ![c] = Tail(replies[c])]
      /\ UNCHANGED <<typed, requests, notify, users, offline, session, welcomed>>
  BY DEF Receive, tableVars, serverVars
<1>2. IsSeq(replies[c]) /\ IsSeq(shown[c])
  BY <1>0, GoodIsSeq DEF HistoryTypes
<1>3. PICK e : e = Head(replies[c])
  OBVIOUS
<1>4. e \in Range(replies[c]) /\ Range(Tail(replies[c])) \subseteq Range(replies[c])
  BY <1>1, <1>2, <1>3, TailRange
<1>5. Good(e) /\ Truthful(e.made)
  BY <1>0, <1>4, GoodElements DEF WiresInv, SpeakersInv
<1>6. PICK x : x = Shown(e.made)
  OBVIOUS
<1>7. shown' = shown \/ shown' = [shown EXCEPT ![c] = Append(shown[c], x)]
  BY <1>3, <1>5, <1>6, ReadBack DEF Receive
<1>8. Grows
  BY <1>1, SteadyGrows
<1>9. ShownTrue(x)'
  <2>1. ShownTrue(x)
    BY <1>5, <1>6, ShownOfTruthful
  <2>. QED
    BY <1>8, <2>1, ShownStays
<1>10. /\ shown' = [d \in Clients |-> shown'[d]]
       /\ \A d \in Clients : \/ shown'[d] = shown[d]
                             \/ d = c /\ shown'[d] = Append(shown[d], x)
  BY <1>0, <1>7 DEF HistoryTypes
<1>11. ASSUME NEW d \in Clients
       PROVE  IsSeq(shown'[d]) /\ \A s \in Range(shown'[d]) : s \in Range(shown[d]) \/ s = x
  <2>1. IsSeq(shown[d])
    BY <1>0 DEF HistoryTypes
  <2>2. IsSeq(Append(shown[d], x)) /\ Range(Append(shown[d], x)) = Range(shown[d]) \cup {x}
    BY <2>1, AppendRange
  <2>3. CASE shown'[d] = shown[d]
    BY <2>1, <2>3
  <2>4. CASE shown'[d] = Append(shown[d], x)
    BY <2>2, <2>4
  <2>. QED
    BY <1>10, <2>3, <2>4
<1>12. \A d \in Clients : \A s \in Range(shown'[d]) : s \in Range(shown[d]) \/ ShownTrue(s)'
  BY <1>9, <1>11
<1>13. ASSUME NEW d \in Clients, NEW y \in Range(replies'[d]) PROVE y \in Range(replies[d])
  BY <1>0, <1>1, <1>4 DEF WiresInv
<1>14. HistoryTypes'
  BY <1>0, <1>1, <1>10, <1>11 DEF HistoryTypes
<1>15. /\ \A d \in Clients : session'[d] # "" => <<d, session'[d]>> \in welcomed'
       /\ \A account \in users' : account \in users \/ account[1] \in Names
  BY <1>0, <1>1 DEF SpeakersInv
<1>16. SpeakersInv'
  BY <1>0, <1>1, <1>8, <1>12, <1>13, <1>15, SpeakersStep
<1>. QED
  BY <1>14, <1>16

LEMMA DeliverTrue ==
    ASSUME ProofInv, NEW c \in Clients, Deliver(c)
    PROVE  HistoryTypes' /\ SpeakersInv'
<1>0. WiresInv /\ HistoryTypes /\ SpeakersInv
  BY DEF ProofInv
<1>1. /\ notify[c] # <<>>
      /\ notify' = [notify EXCEPT ![c] = Tail(notify[c])]
      /\ replies' = [replies EXCEPT ![c] = Append(replies[c], Head(notify[c]))]
      /\ UNCHANGED <<typed, shown, requests, users, offline, session, welcomed>>
  BY DEF Deliver, tableVars, serverVars, clientVars
<1>2. IsSeq(replies[c]) /\ IsSeq(notify[c])
  BY <1>0, GoodIsSeq
<1>3. /\ Range(Tail(notify[c])) \subseteq Range(notify[c])
      /\ Range(Append(replies[c], Head(notify[c]))) \subseteq Range(replies[c]) \cup Range(notify[c])
  <2>1. Head(notify[c]) \in Range(notify[c]) /\ Range(Tail(notify[c])) \subseteq Range(notify[c])
    BY <1>1, <1>2, TailRange
  <2>2. Range(Append(replies[c], Head(notify[c]))) = Range(replies[c]) \cup {Head(notify[c])}
    BY <1>2, AppendRange
  <2>. QED
    BY <2>1, <2>2
<1>4. ASSUME NEW d \in Clients, NEW y \in Range(notify'[d]) PROVE y \in Range(notify[d])
  BY <1>0, <1>1, <1>3 DEF WiresInv
<1>5. ASSUME NEW d \in Clients, NEW y \in Range(replies'[d])
      PROVE  y \in Range(replies[d]) \/ y \in Range(notify[d])
  BY <1>0, <1>1, <1>3 DEF WiresInv
<1>6. Grows
  BY <1>1, SteadyGrows
<1>7. HistoryTypes'
  BY <1>0, <1>1 DEF HistoryTypes
<1>8. /\ \A d \in Clients : session'[d] # "" => <<d, session'[d]>> \in welcomed'
      /\ \A account \in users' : account \in users \/ account[1] \in Names
  BY <1>0, <1>1 DEF SpeakersInv
<1>9. SpeakersInv'
  BY <1>0, <1>1, <1>4, <1>5, <1>6, <1>8, SpeakersStep
<1>. QED
  BY <1>7, <1>9
-----------------------------------------------------------------------------
(* The handlers, again. *)

\* What a handler may do to who is said to have spoken.
Effect ==
    /\ welcomed \subseteq welcomed'
    /\ session' = [c \in Clients |-> session'[c]]
    /\ \A c \in Clients : session'[c] # "" => <<c, session'[c]>> \in welcomed'
    /\ \A account \in users' : account \in users \/ account[1] \in Names
    /\ \A c \in Clients : \A e \in Range(replies'[c]) : e \in Range(replies[c]) \/ Truthful(e.made)
    /\ \A c \in Clients : \A e \in Range(notify'[c]) : e \in Range(notify[c]) \/ Truthful(e.made)
    /\ offline' = [name \in Names |-> offline'[name]]
    /\ \A name \in Names :
         /\ IsSeq(offline'[name])
         /\ \A e \in Range(offline'[name]) :
              e \in Range(offline[name]) \/ SpokenBy(e.from_user, "private", e.content)

\* An answer, after pushes on the same connection, is all that an answer adds.
LEMMA AnswersAdd ==
    ASSUME WiresInv, NEW c \in Clients, NEW push, NEW m, NEW before \in Seq({push}),
           Answers(c, before, m), Truthful(m), Truthful(push)
    PROVE  \A d \in Clients : \A e \in Range(replies'[d]) :
             e \in Range(replies[d]) \/ Truthful(e.made)
<1>. DEFINE ms == Append(before, m)
            t == [k \in DOMAIN ms |-> Packed(ms[k])]
<1>1. replies' = [replies EXCEPT ![c] = replies[c] \o t]
  BY DEF Answers, Sends
<1>2. before \in Seq({push, m})
  OBVIOUS
<1>3. ms \in Seq({push, m}) /\ DOMAIN ms = 1 .. Len(ms) /\ Len(ms) \in Nat
  BY <1>2
<1>4. \A k \in 1 .. Len(ms) : ms[k] \in {push, m}
  BY <1>3
<1>. HIDE DEF ms
<1>5. t \in Seq({Packed(push), Packed(m)})
  BY <1>3, <1>4
<1>6. IsSeq(t)
  BY <1>5 DEF IsSeq
<1>7. \A e \in Range(t) : e \in {Packed(push), Packed(m)}
  BY <1>5 DEF Range
<1>. HIDE DEF t
<1>8. \A e \in Range(t) : Truthful(e.made)
  <2>1. Packed(push).made = push /\ Packed(m).made = m
    BY DEF Packed
  <2>. QED
    BY <1>7, <2>1
<1>9. \A e \in Range(replies[c] \o t) : e \in Range(replies[c]) \/ e \in Range(t)
  BY <1>6, GoodIsSeq, ConcatRange
<1>10. \A d \in Clients : replies'[d] = IF d = c THEN replies[c] \o t ELSE replies[d]
  BY <1>1 DEF WiresInv
<1>. QED
  BY <1>8, <1>9, <1>10

LEMMA AnswerAdds ==
    ASSUME WiresInv, NEW c \in Clients, NEW m, Answers(c, <<>>, m), Truthful(m)
    PROVE  \A d \in Clients : \A e \in Range(replies'[d]) :
             e \in Range(replies[d]) \/ Truthful(e.made)
<1>1. <<>> \in Seq({m})
  OBVIOUS
<1>. QED
  BY <1>1, AnswersAdd

\* Answers without a speaker, and without stored messages, say nothing of anybody.
LEMMA PlainTruthful ==
    /\ \A type \in {"REGISTER", "GET_FRIENDS", "LOGOUT"} : \A given : Truthful(New(type, given))
    /\ \A type \in {"PRIVATE_CHAT", "GROUP_CHAT"} : \A given :
         "from_user" \notin DOMAIN given => Truthful(New(type, given))
<1>1. ASSUME NEW type \in {"REGISTER", "GET_FRIENDS", "LOGOUT"}, NEW given
      PROVE  Truthful(New(type, given))
  <2>1. type \in MessageTypes
    BY Types
  <2>2. New(type, given).type = type
    BY <2>1, NewIsMessage
  <2>. QED
    BY <2>2 DEF Truthful
<1>2. ASSUME NEW type \in {"PRIVATE_CHAT", "GROUP_CHAT"}, NEW given,
             "from_user" \notin DOMAIN given
      PROVE  Truthful(New(type, given))
  <2>1. type \in MessageTypes
    BY Types
  <2>2. New(type, given).type = type
    BY <2>1, NewIsMessage
  <2>3. New(type, given).from_user = ""
    BY <1>2, NewSpeaker
  <2>. QED
    BY <2>2, <2>3 DEF Truthful
<1>. QED
  BY <1>1, <1>2

\* A handler that leaves these alone does not touch the rest of Effect.
LEMMA SteadyTables ==
    ASSUME HistoryTypes, SpeakersInv
    PROVE  /\ session' = session /\ welcomed' = welcomed =>
                /\ session' = [c \in Clients |-> session'[c]]
                /\ \A c \in Clients : session'[c] # "" => <<c, session'[c]>> \in welcomed'
           /\ users' = users => \A account \in users' : account \in users \/ account[1] \in Names
           /\ offline' = offline =>
                /\ offline' = [name \in Names |-> offline'[name]]
                /\ \A name \in Names :
                     /\ IsSeq(offline'[name])
                     /\ \A e \in Range(offline'[name]) : e \in Range(offline[name])
BY DEF HistoryTypes, SpeakersInv

LEMMA RegisterEffect ==
    ASSUME ProofInv, NEW c \in Clients, NEW m, TypedBy(c, m), HandleRegister(c, m)
    PROVE  Effect
<1>0. WiresInv /\ HistoryTypes /\ SpeakersInv
  BY DEF ProofInv
<1>1. UNCHANGED <<notify, offline, session, welcomed>>
  BY DEF HandleRegister
<1>2. \E given : Answers(c, <<>>, New("REGISTER", given))
  BY Zenon DEF HandleRegister
<1>3. \A d \in Clients : \A e \in Range(replies'[d]) : e \in Range(replies[d]) \/ Truthful(e.made)
  BY <1>0, <1>2, PlainTruthful, AnswerAdds
<1>4. \A account \in users' : account \in users \/ account[1] \in Names
  <2>1. m.username \in Names
    BY DEF HandleRegister, TypedBy
  <2>2. users' \subseteq users \cup {<<m.username, m.password>>}
    BY DEF HandleRegister
  <2>. QED
    BY <2>1, <2>2
<1>. QED
  BY <1>0, <1>1, <1>3, <1>4, SteadyTables DEF Effect

\* The stored messages of the user go into the answer; the session is welcomed.
LEMMA LoginEffect ==
    ASSUME ProofInv, NEW c \in Clients, NEW m, TypedBy(c, m), HandleLogin(c, m)
    PROVE  Effect
<1>0. WiresInv /\ HistoryTypes /\ SpeakersInv
  BY DEF ProofInv
<1>1. UNCHANGED <<notify, users>> /\ m.username \in Names
  BY DEF HandleLogin, TypedBy
<1>2. \/ /\ session' = [session EXCEPT ![c] = m.username]
         /\ offline' = [offline EXCEPT ![m.username] = <<>>]
         /\ welcomed' = welcomed \cup {<<c, m.username>>}
      \/ UNCHANGED <<session, offline, welcomed>>
  BY DEF HandleLogin
<1>3. PICK stored : /\ stored = offline[m.username] \/ stored = <<>>
                    /\ \E given : /\ "offline_messages" \in DOMAIN given
                                  /\ given.offline_messages = stored
                                  /\ Answers(c, <<>>, New("LOGIN", given))
  <2>. DEFINE stored == IF Verified(m) THEN offline[m.username] ELSE <<>>
              given == [username |-> m.username, password |-> m.password,
                        success |-> Verified(m), message |-> Word(Verified(m)),
                        offline_messages |-> stored]
  <2>1. Answers(c, <<>>, New("LOGIN", given))
    BY DEF HandleLogin
  <2>2. "offline_messages" \in DOMAIN given /\ given.offline_messages = stored
    OBVIOUS
  <2>3. stored = offline[m.username] \/ stored = <<>>
    OBVIOUS
  <2>. QED
    BY <2>1, <2>2, <2>3
<1>4. PICK given : /\ "offline_messages" \in DOMAIN given
                   /\ given.offline_messages = stored
                   /\ Answers(c, <<>>, New("LOGIN", given))
  BY <1>3
<1>5. Truthful(New("LOGIN", given))
  <2>1. \A e \in Range(stored) : SpokenBy(e.from_user, "private", e.content)
    <3>1. Range(<<>>) = {}
      BY DEF Range
    <3>. QED
      BY <1>0, <1>1, <1>3, <3>1 DEF SpeakersInv
  <2>. QED
    BY <1>4, <2>1, NewList DEF Truthful
<1>6. \A d \in Clients : \A e \in Range(replies'[d]) : e \in Range(replies[d]) \/ Truthful(e.made)
  BY <1>0, <1>4, <1>5, AnswerAdds
<1>7. /\ welcomed \subseteq welcomed'
      /\ session' = [d \in Clients |-> session'[d]]
      /\ \A d \in Clients : session'[d] # "" => <<d, session'[d]>> \in welcomed'
  BY <1>0, <1>2 DEF HistoryTypes, SpeakersInv
<1>8. /\ offline' = [name \in Names |-> offline'[name]]
      /\ \A name \in Names : /\ IsSeq(offline'[name])
                             /\ \A e \in Range(offline'[name]) : e \in Range(offline[name])
  <2>1. IsSeq(<<>>) /\ Range(<<>>) = {}
    <3>1. <<>> \in Seq({})
      OBVIOUS
    <3>. QED
      BY <3>1 DEF IsSeq, Range
  <2>2. CASE offline' = [offline EXCEPT ![m.username] = <<>>]
    <3>1. \A name \in Names : offline'[name] = IF name = m.username THEN <<>> ELSE offline[name]
      BY <1>0, <2>2 DEF HistoryTypes
    <3>2. offline' = [name \in Names |-> offline'[name]]
      BY <1>0, <2>2 DEF HistoryTypes
    <3>. QED
      BY <1>0, <2>1, <3>1, <3>2 DEF HistoryTypes
  <2>. QED
    BY <1>0, <1>2, <2>2, SteadyTables
<1>. QED
  BY <1>0, <1>1, <1>6, <1>7, <1>8, SteadyTables DEF Effect

LEMMA PlainEffect ==
    ASSUME ProofInv, NEW c \in Clients, NEW m, HandleGetFriends(c, m) \/ HandleLogout(c, m)
    PROVE  Effect
<1>0. WiresInv /\ HistoryTypes /\ SpeakersInv
  BY DEF ProofInv
<1>1. UNCHANGED <<notify, users, offline, welcomed>>
  BY DEF HandleGetFriends, HandleLogout, tableVars
<1>2. session' = session \/ session' = [session EXCEPT ![c] = ""]
  BY DEF HandleGetFriends, HandleLogout
<1>3. /\ session' = [d \in Clients |-> session'[d]]
      /\ \A d \in Clients : session'[d] # "" => <<d, session'[d]>> \in welcomed'
  BY <1>0, <1>1, <1>2 DEF HistoryTypes, SpeakersInv
<1>4. \E type \in {"GET_FRIENDS", "LOGOUT"} : \E given : Answers(c, <<>>, New(type, given))
  BY Zenon DEF HandleGetFriends, HandleLogout
<1>5. \A d \in Clients : \A e \in Range(replies'[d]) : e \in Range(replies[d]) \/ Truthful(e.made)
  BY <1>0, <1>4, PlainTruthful, AnswerAdds
<1>. QED
  BY <1>0, <1>1, <1>3, <1>5, SteadyTables DEF Effect

\* The speaker of a push is the session's user, who was welcomed and has typed its text.
LEMMA PushTruthful ==
    ASSUME ProofInv, NEW c \in Clients, NEW m, TypedBy(c, m),
           NEW type \in {"PRIVATE_CHAT", "GROUP_CHAT"}, m.type = type,
           NEW given, {"from_user", "content"} \subseteq DOMAIN given,
           given.from_user = Speaker(c, m), given.content = m.content, Speaker(c, m) # ""
    PROVE  /\ Truthful(New(type, given))
           /\ type = "PRIVATE_CHAT" =>
                SpokenBy(New(type, given).from_user, "private", New(type, given).content)
<1>1. /\ New(type, given).type = type
      /\ New(type, given).from_user = session[c]
      /\ New(type, given).content = m.content
  BY NewContent, NewSpeaker DEF Speaker
<1>2. <<c, session[c]>> \in welcomed
  BY DEF ProofInv, SpeakersInv, Speaker
<1>3. SpokenBy(session[c], IF type = "GROUP_CHAT" THEN "group" ELSE "private", m.content)
  BY <1>2 DEF TypedBy, SpokenBy
<1>. QED
  BY <1>1, <1>3 DEF Truthful

\* What notifySendMessage adds to the socketpairs.
LEMMA NotifiesAdd ==
    ASSUME WiresInv, NEW ds, NEW push, Notifies(ds, push)
    PROVE  \A d \in Clients : \A e \in Range(notify'[d]) : e \in Range(notify[d]) \/ e = Packed(push)
<1>. SUFFICES ASSUME NEW d \in Clients, NEW e \in Range(notify'[d])
              PROVE  e \in Range(notify[d]) \/ e = Packed(push)
  OBVIOUS
<1>1. notify'[d] = notify[d] \/ notify'[d] = Append(notify[d], Packed(push))
  BY DEF Notifies
<1>2. Range(Append(notify[d], Packed(push))) = Range(notify[d]) \cup {Packed(push)}
  BY GoodIsSeq, AppendRange
<1>. QED
  BY <1>1, <1>2

\* What a group message adds to the socketpairs: as many copies as users are online there.
LEMMA CopiesAdd ==
    ASSUME WiresInv, NEW push,
           \A d \in Clients : \/ notify'[d] = notify[d]
                             \/ \E n \in Nat : notify'[d] = notify[d] \o [k \in 1 .. n |-> Packed(push)]
    PROVE  \A d \in Clients : \A e \in Range(notify'[d]) : e \in Range(notify[d]) \/ e = Packed(push)
<1>. SUFFICES ASSUME NEW d \in Clients, NEW e \in Range(notify'[d])
              PROVE  e \in Range(notify[d]) \/ e = Packed(push)
  OBVIOUS
<1>1. CASE notify'[d] = notify[d]
  BY <1>1
<1>2. CASE \E n \in Nat : notify'[d] = notify[d] \o [k \in 1 .. n |-> Packed(push)]
  <2>1. PICK n \in Nat : notify'[d] = notify[d] \o [k \in 1 .. n |-> Packed(push)]
    BY <1>2
  <2>2. PICK t : t = [k \in 1 .. n |-> Packed(push)]
    OBVIOUS
  <2>3. t \in Seq({Packed(push)})
    BY <2>2
  <2>4. IsSeq(t) /\ \A y \in Range(t) : y = Packed(push)
    BY <2>3 DEF IsSeq, Range
  <2>5. Range(notify[d] \o t) \subseteq Range(notify[d]) \cup Range(t)
    BY <2>4, GoodIsSeq, ConcatRange
  <2>. QED
    BY <2>1, <2>2, <2>4, <2>5
<1>. QED
  BY <1>1, <1>2

LEMMA PrivateEffect ==
    ASSUME ProofInv, NEW c \in Clients, NEW m, TypedBy(c, m), HandlePrivateChat(c, m)
    PROVE  Effect
<1>0. WiresInv /\ HistoryTypes /\ SpeakersInv
  BY DEF ProofInv
<1>. DEFINE given == [from_user |-> Speaker(c, m), to_user |-> m.to_user,
                      content |-> m.content, success |-> TRUE, message |-> Word(TRUE)]
<1>1. PICK push : push = New("PRIVATE_CHAT", given)
  OBVIOUS
<1>2. /\ {"from_user", "content"} \subseteq DOMAIN given
      /\ given.from_user = Speaker(c, m) /\ given.content = m.content
  OBVIOUS
<1>. HIDE DEF given
<1>3. UNCHANGED <<users, online, session, welcomed>> /\ m.type = "PRIVATE_CHAT"
  BY DEF HandlePrivateChat
<1>4. \/ replies' = replies
      \/ \E ack : "from_user" \notin DOMAIN ack /\ Answers(c, <<>>, New("PRIVATE_CHAT", ack))
  <2>. DEFINE refusal == [to_user |-> m.to_user, message |-> Word(FALSE)]
              ack == [to_user |-> m.to_user, success |-> TRUE, message |-> Word(TRUE)]
  <2>1. "from_user" \notin DOMAIN refusal /\ "from_user" \notin DOMAIN ack
    OBVIOUS
  <2>2. \/ replies' = replies
        \/ Answers(c, <<>>, New("PRIVATE_CHAT", refusal))
        \/ Answers(c, <<>>, New("PRIVATE_CHAT", ack))
    BY DEF HandlePrivateChat
  <2>. QED
    BY <2>1, <2>2, Zenon
<1>5. \A d \in Clients : \A e \in Range(replies'[d]) : e \in Range(replies[d]) \/ Truthful(e.made)
  BY <1>0, <1>4, PlainTruthful, AnswerAdds
<1>6. Speaker(c, m) # "" => /\ Truthful(push)
                            /\ SpokenBy(push.from_user, "private", push.content)
  BY <1>1, <1>2, <1>3, PushTruthful
<1>7. \/ notify' = notify
      \/ Speaker(c, m) # "" /\ \E ds : Notifies(ds, push)
  BY <1>1, Zenon DEF HandlePrivateChat, given
<1>8. \A d \in Clients : \A e \in Range(notify'[d]) : e \in Range(notify[d]) \/ Truthful(e.made)
  <2>1. CASE notify' = notify
    BY <2>1
  <2>2. CASE Speaker(c, m) # "" /\ \E ds : Notifies(ds, push)
    <3>1. Packed(push).made = push /\ Truthful(push)
      BY <1>6, <2>2 DEF Packed
    <3>. QED
      BY <1>0, <2>2, <3>1, NotifiesAdd
  <2>. QED
    BY <1>7, <2>1, <2>2
<1>9. \/ offline' = offline
      \/ /\ Speaker(c, m) # ""
         /\ offline' = [offline EXCEPT ![m.to_user] = Append(offline[m.to_user], ToJson(push))]
  BY <1>1 DEF HandlePrivateChat, given
<1>10. /\ offline' = [name \in Names |-> offline'[name]]
       /\ \A name \in Names :
            /\ IsSeq(offline'[name])
            /\ \A e \in Range(offline'[name]) :
                 e \in Range(offline[name]) \/ SpokenBy(e.from_user, "private", e.content)
  <2>1. CASE offline' = offline
    BY <1>0, <2>1, SteadyTables
  <2>2. CASE /\ Speaker(c, m) # ""
             /\ offline' = [offline EXCEPT ![m.to_user] = Append(offline[m.to_user], ToJson(push))]
    <3>1. PICK j : j = ToJson(push)
      OBVIOUS
    <3>2. j.from_user = push.from_user /\ j.content = push.content
      <4>1. {"from_user", "content"} \subseteq DOMAIN push
        BY <1>1, MembersOf DEF New
      <4>2. {"from_user", "content"} \cap ListFields = {}
        BY DEF ListFields, LoginLists, GetFriendsLists
      <4>. QED
        BY <3>1, <4>1, <4>2 DEF ToJson
    <3>3. SpokenBy(j.from_user, "private", j.content)
      BY <1>6, <2>2, <3>2
    <3>4. offline' = [name \in Names |-> offline'[name]]
      BY <1>0, <2>2 DEF HistoryTypes
    <3>5. ASSUME NEW name \in Names
          PROVE  /\ IsSeq(offline'[name])
                 /\ \A e \in Range(offline'[name]) : e \in Range(offline[name]) \/ e = j
      <4>1. IsSeq(offline[name])
        BY <1>0 DEF HistoryTypes
      <4>2. /\ IsSeq(Append(offline[name], j))
            /\ Range(Append(offline[name], j)) = Range(offline[name]) \cup {j}
        BY <4>1, AppendRange
      <4>3. offline'[name] = offline[name] \/ offline'[name] = Append(offline[name], j)
        BY <1>0, <2>2, <3>1 DEF HistoryTypes
      <4>. QED
        BY <4>1, <4>2, <4>3
    <3>. QED
      BY <3>3, <3>4, <3>5
  <2>. QED
    BY <1>9, <2>1, <2>2
<1>11. \A account \in users' : account \in users \/ account[1] \in Names
  BY <1>3
<1>. QED
  BY <1>0, <1>3, <1>5, <1>8, <1>10, <1>11, SteadyTables DEF Effect

LEMMA GroupEffect ==
    ASSUME ProofInv, NEW c \in Clients, NEW m, TypedBy(c, m), HandleGroupChat(c, m)
    PROVE  Effect
<1>0. WiresInv /\ HistoryTypes /\ SpeakersInv
  BY DEF ProofInv
<1>. DEFINE others == Names \ {Speaker(c, m)}
            On(d) == 1 .. Cardinality({n \in others : online[n] = d})
            said == [from_user |-> Speaker(c, m), content |-> m.content,
                     success |-> TRUE, message |-> Word(TRUE)]
            refusal == [content |-> m.content, message |-> Word(FALSE)]
            done == [success |-> TRUE, message |-> Word(TRUE)]
<1>1. PICK push : push = New("GROUP_CHAT", said)
  OBVIOUS
<1>2. UNCHANGED <<users, offline, session, welcomed>> /\ m.type = "GROUP_CHAT"
  BY DEF HandleGroupChat, tableVars
<1>3. \/ Answers(c, <<>>, New("GROUP_CHAT", refusal)) /\ notify' = notify
      \/ /\ Speaker(c, m) # ""
         /\ Answers(c, [k \in On(c) |-> push], New("GROUP_CHAT", done))
         /\ notify' = [d \in Clients |-> IF d = c THEN notify[d]
                                         ELSE notify[d] \o [k \in On(d) |-> Packed(push)]]
  BY <1>1 DEF HandleGroupChat
<1>4. Truthful(New("GROUP_CHAT", refusal)) /\ Truthful(New("GROUP_CHAT", done))
  <2>1. "from_user" \notin DOMAIN refusal /\ "from_user" \notin DOMAIN done
    OBVIOUS
  <2>. HIDE DEF refusal, done
  <2>. QED
    BY <2>1, PlainTruthful
<1>5. Speaker(c, m) # "" => Truthful(push)
  <2>1. /\ {"from_user", "content"} \subseteq DOMAIN said
        /\ said.from_user = Speaker(c, m) /\ said.content = m.content
    OBVIOUS
  <2>. HIDE DEF said
  <2>. QED
    BY <1>1, <1>2, <2>1, PushTruthful
<1>6. ASSUME NEW d PROVE \E n \in Nat : On(d) = 1 .. n
  <2>1. {n \in others : online[n] = d} \subseteq Names
    OBVIOUS
  <2>2. Cardinality({n \in others : online[n] = d}) \in Nat
    BY <2>1, SomeNames
  <2>. QED
    BY <2>2
<1>. HIDE DEF On, said, refusal, done
<1>7. CASE Answers(c, <<>>, New("GROUP_CHAT", refusal)) /\ notify' = notify
  <2>1. \A d \in Clients : \A e \in Range(replies'[d]) : e \in Range(replies[d]) \/ Truthful(e.made)
    BY <1>0, <1>4, <1>7, AnswerAdds
  <2>. QED
    BY <1>0, <1>2, <1>7, <2>1, SteadyTables DEF Effect
<1>8. CASE /\ Speaker(c, m) # ""
           /\ Answers(c, [k \in On(c) |-> push], New("GROUP_CHAT", done))
           /\ notify' = [d \in Clients |-> IF d = c THEN notify[d]
                                           ELSE notify[d] \o [k \in On(d) |-> Packed(push)]]
  <2>1. [k \in On(c) |-> push] \in Seq({push})
    <3>1. PICK n \in Nat : On(c) = 1 .. n
      BY <1>6
    <3>. QED
      BY <3>1
  <2>2. \A d \in Clients : \A e \in Range(replies'[d]) : e \in Range(replies[d]) \/ Truthful(e.made)
    BY <1>0, <1>4, <1>5, <1>8, <2>1, AnswersAdd
  <2>3. \A d \in Clients : \A e \in Range(notify'[d]) : e \in Range(notify[d]) \/ Truthful(e.made)
    <3>1. ASSUME NEW d \in Clients
          PROVE  \/ notify'[d] = notify[d]
                 \/ \E n \in Nat : notify'[d] = notify[d] \o [k \in 1 .. n |-> Packed(push)]
      <4>1. PICK n \in Nat : On(d) = 1 .. n
        BY <1>6
      <4>2. notify'[d] = notify[d] \/ notify'[d] = notify[d] \o [k \in On(d) |-> Packed(push)]
        BY <1>8
      <4>. QED
        BY <4>1, <4>2
    <3>2. Packed(push).made = push /\ Truthful(push)
      BY <1>5, <1>8 DEF Packed
    <3>. QED
      BY <1>0, <3>1, <3>2, CopiesAdd
  <2>. QED
    BY <1>0, <1>2, <2>2, <2>3, SteadyTables DEF Effect
<1>. QED
  BY <1>3, <1>7, <1>8

LEMMA ServeTrue ==
    ASSUME ProofInv, NEW c \in Clients, Serve(c)
    PROVE  HistoryTypes' /\ SpeakersInv'
<1>0. WiresInv /\ HistoryTypes /\ SpeakersInv
  BY DEF ProofInv
<1>1. PICK r : r = Head(requests[c])
  OBVIOUS
<1>2. PICK m : m = r.made
  OBVIOUS
<1>3. /\ requests[c] # <<>>
      /\ requests' = [requests EXCEPT ![c] = Tail(requests[c])]
      /\ UNCHANGED <<typed, shown>>
  BY DEF Serve, clientVars
<1>4. r \in Range(requests[c]) /\ Range(Tail(requests[c])) \subseteq Range(requests[c])
  BY <1>0, <1>1, <1>3, GoodIsSeq, TailRange
<1>5. Good(r) /\ TypedBy(c, m)
  BY <1>0, <1>2, <1>4, GoodElements DEF WiresInv, SpeakersInv
<1>6. CreateMessageFromJson(Head(requests[c]).text) = m
  BY <1>1, <1>2, <1>5, ReadBack
<1>7. \/ UNCHANGED <<replies, notify, tableVars, serverVars>>
      \/ HandleRegister(c, m) \/ HandleLogin(c, m) \/ HandleGetFriends(c, m)
      \/ HandlePrivateChat(c, m) \/ HandleGroupChat(c, m) \/ HandleLogout(c, m)
  BY <1>6 DEF Serve
<1>8. Effect
  <2>1. CASE UNCHANGED <<replies, notify, tableVars, serverVars>>
    BY <1>0, <2>1, SteadyTables DEF Effect, tableVars, serverVars
  <2>. QED
    BY <1>5, <1>7, <2>1, RegisterEffect, LoginEffect, PlainEffect, PrivateEffect, GroupEffect
<1>9. Grows
  BY <1>3, <1>8, SteadyGrows DEF Effect
<1>10. HistoryTypes'
  BY <1>0, <1>3, <1>8 DEF Effect, HistoryTypes
<1>11. ASSUME NEW d \in Clients, NEW e \in Range(requests'[d]) PROVE e \in Range(requests[d])
  BY <1>0, <1>3, <1>4 DEF WiresInv
<1>12. \A d \in Clients : \A e \in Range(replies'[d]) :
         e \in Range(replies[d]) \/ e \in Range(notify[d]) \/ Truthful(e.made)'
  BY <1>8, <1>9, TruthfulStays DEF Effect
<1>13. \A d \in Clients : \A e \in Range(notify'[d]) :
         e \in Range(notify[d]) \/ Truthful(e.made)'
  BY <1>8, <1>9, TruthfulStays DEF Effect
<1>14. \A name \in Names : \A e \in Range(offline'[name]) :
         e \in Range(offline[name]) \/ SpokenBy(e.from_user, "private", e.content)'
  BY <1>8, <1>9, SpokenStays DEF Effect
<1>15. SpeakersInv'
  BY <1>0, <1>3, <1>8, <1>9, <1>11, <1>12, <1>13, <1>14, SpeakersStep DEF Effect
<1>. QED
  BY <1>10, <1>15

LEMMA StepTrue == ProofInv /\ [Next]_vars => ProofInv'
<1>. SUFFICES ASSUME ProofInv, [Next]_vars PROVE HistoryTypes' /\ SpeakersInv'
  BY StepWires DEF ProofInv
<1>1. CASE Next
  BY <1>1, TypeTrue, ReceiveTrue, ServeTrue, DeliverTrue DEF Next
<1>2. CASE UNCHANGED vars
  <2>1. UNCHANGED <<typed, shown, requests, replies, notify, users, offline, session, welcomed>>
    BY <1>2 DEF vars, clientVars, wireVars, tableVars, serverVars
  <2>2. HistoryTypes'
    BY <2>1 DEF ProofInv, HistoryTypes
  <2>3. Grows
    BY <2>1, SteadyGrows
  <2>4. SpeakersInv'
    BY <2>1, <2>3, SpeakersStep DEF ProofInv, SpeakersInv
  <2>. QED
    BY <2>2, <2>4
<1>. QED
  BY <1>1, <1>2

\* Nobody speaks under a name that the server has not logged in on a connection, and a
\* message shown under a name was typed on a console that had it: handlePrivateChat and
\* handleGroupChat take the speaker from clientUsers_ and never from the request.
THEOREM SpeakersHold == Spec => []SpeakersTrue
<1>1. ProofInv => SpeakersTrue
  <2>. SUFFICES ASSUME ProofInv, NEW c \in Clients, NEW k \in DOMAIN shown[c]
                PROVE  ShownTrue(shown[c][k])
    BY DEF SpeakersTrue, ShownTrue
  <2>1. shown[c][k] \in Range(shown[c])
    BY DEF Range
  <2>. QED
    BY <2>1 DEF ProofInv, SpeakersInv
<1>. QED
  BY <1>1, InitProofInv, StepTrue, PTL DEF Spec
-----------------------------------------------------------------------------
(* Outcomes. *)

\* What a console that has shown s will have shown when all of wire r has arrived.
Screen(s, r) ==
    [i \in 1 .. Len(s) + Len(r) |-> IF i <= Len(s) THEN s[i] ELSE Shown(r[i - Len(s)].made)]

\* A request is that of a line, an answer that to the k-th of the lines.
Asks(m, line) ==
    /\ m.type = TypeOf(line)
    /\ m.type = "GROUP_CHAT" => line.cmd = "group" /\ m.content = line.text

AnswersLine(a, k, lines, outcomes) ==
    /\ k \in 1 .. Len(outcomes)
    /\ a.type = TypeOf(lines[k])
    /\ \/ a.outcome = outcomes[k]
       \/ lines[k].cmd = "group" /\ lines[k].text = ""

\* Requests are those of the last lines, answers those to the first ones.
Asked(asks, lines) ==
    \A k \in 1 .. Len(asks) : Asks(asks[k].made, lines[Len(lines) - Len(asks) + k])

AllAnswered(s, n, lines, outcomes) ==
    /\ Len(outcomes) = Answered(s, n)
    /\ \A i \in 1 .. n : s[i].as = "answer" => AnswersLine(s[i], Answered(s, i), lines, outcomes)

\* What relates what was typed on one console, and decided by the server, to what is
\* shown, and on the wire to it and from it; lost is the number of requests without an
\* answer, 1 if the worker has taken one and hangs.
Orderly(s, r, asks, outcomes, lines, lost) ==
    /\ IsSeq(s) /\ IsSeq(r) /\ IsSeq(asks) /\ IsSeq(outcomes) /\ IsSeq(lines)
    /\ AllAnswered(Screen(s, r), Len(s) + Len(r), lines, outcomes)
    /\ Len(lines) = Len(outcomes) + Len(asks) + lost
    /\ Asked(asks, lines)

Lost(c) == IF c \in hung THEN 1 ELSE 0

\* The inductive strengthening of ShownInOrder and OutcomesTrue; what waits in a
\* socketpair is not an answer.
OrderInv ==
    /\ decided = [c \in Clients |-> decided[c]]
    /\ \A c \in Clients :
         /\ Orderly(shown[c], replies[c], requests[c], decided[c], typed[c], Lost(c))
         /\ \A e \in Range(notify[c]) : Shown(e.made).as = "push"

LEMMA CountFinite ==
    ASSUME NEW s, NEW i \in Nat
    PROVE  /\ IsFiniteSet({j \in 1 .. i : s[j].as = "answer"})
           /\ Answered(s, i) \in Nat
<1>1. IsFiniteSet(1 .. i)
  BY FS_Interval
<1>2. IsFiniteSet({j \in 1 .. i : s[j].as = "answer"})
  BY <1>1, FS_Subset
<1>. QED
  BY <1>2, FS_CardinalityType DEF Answered

\* Counting looks at what comes before only.
LEMMA CountSame ==
    ASSUME NEW s, NEW t, NEW i \in Nat, \A j \in 1 .. i : s[j] = t[j]
    PROVE  Answered(s, i) = Answered(t, i)
<1>1. {j \in 1 .. i : s[j].as = "answer"} = {j \in 1 .. i : t[j].as = "answer"}
  OBVIOUS
<1>. QED
  BY <1>1 DEF Answered

\* One more answer, after pushes, is one more answer.
LEMMA CountMore ==
    ASSUME NEW s, NEW n \in Nat, NEW i \in Nat, n < i,
           \A j \in n + 1 .. i - 1 : s[j].as = "push"
    PROVE  Answered(s, i) = IF s[i].as = "answer" THEN Answered(s, n) + 1 ELSE Answered(s, n)
<1>. DEFINE A == {j \in 1 .. n : s[j].as = "answer"}
            B == {j \in 1 .. i : s[j].as = "answer"}
<1>1. IsFiniteSet(A)
  BY CountFinite
<1>2. \A j \in 1 .. i : j \in 1 .. n \/ j \in n + 1 .. i - 1 \/ j = i
  OBVIOUS
<1>3. CASE s[i].as = "answer"
  <2>1. B = A \cup {i}
    BY <1>2, <1>3
  <2>2. i \notin A
    OBVIOUS
  <2>3. Cardinality(B) = Cardinality(A) + 1
    BY <1>1, <2>1, <2>2, FS_AddElement
  <2>. QED
    BY <1>3, <2>3 DEF Answered
<1>4. CASE s[i].as # "answer"
  <2>1. B = A
    BY <1>2, <1>4
  <2>. QED
    BY <1>4, <2>1 DEF Answered
<1>. QED
  BY <1>3, <1>4

\* The k-th answer is among the first k.
LEMMA CountPositive ==
    ASSUME NEW s, NEW i \in Nat, NEW n \in Nat, i \in 1 .. n, s[i].as = "answer"
    PROVE  Answered(s, i) \in 1 .. Answered(s, n)
<1>. DEFINE A == {j \in 1 .. i : s[j].as = "answer"}
            B == {j \in 1 .. n : s[j].as = "answer"}
<1>1. IsFiniteSet(A) /\ IsFiniteSet(B) /\ A \subseteq B
  <2>1. IsFiniteSet(A)
    BY CountFinite
  <2>2. IsFiniteSet(B)
    BY CountFinite
  <2>3. A \subseteq B
    OBVIOUS
  <2>. QED
    BY <2>1, <2>2, <2>3
<1>2. Cardinality(A) <= Cardinality(B)
  BY <1>1, FS_Subset
<1>3. i \in A
  OBVIOUS
<1>. HIDE DEF A, B
<1>4. Cardinality(A) # 0 /\ Cardinality(A) \in Nat /\ Cardinality(B) \in Nat
  BY <1>1, <1>3, FS_EmptySet, FS_CardinalityType
<1>. QED
  BY <1>2, <1>4 DEF Answered, A, B

\* A function of the clients changed at one of them.
LEMMA ChangedAt ==
    ASSUME NEW f, NEW g, NEW c \in Clients, NEW x,
           f = [d \in Clients |-> f[d]], g = [f EXCEPT ![c] = x]
    PROVE  /\ g = [d \in Clients |-> g[d]] /\ g[c] = x
           /\ \A d \in Clients \ {c} : g[d] = f[d]
OBVIOUS

LEMMA SeqFacts ==
    ASSUME NEW s, IsSeq(s)
    PROVE  /\ Len(s) \in Nat /\ DOMAIN s = 1 .. Len(s)
           /\ \A e : /\ IsSeq(Append(s, e)) /\ Len(Append(s, e)) = Len(s) + 1
                     /\ \A k \in 1 .. Len(s) : Append(s, e)[k] = s[k]
                     /\ Append(s, e)[Len(s) + 1] = e
           /\ s # <<>> => /\ Len(s) > 0 /\ IsSeq(Tail(s)) /\ Len(Tail(s)) = Len(s) - 1
                          /\ Head(s) = s[1]
                          /\ \A k \in 1 .. Len(s) - 1 : Tail(s)[k] = s[k + 1]
<1>1. PICK X : s \in Seq(X)
  BY DEF IsSeq
<1>2. Len(s) \in Nat /\ DOMAIN s = 1 .. Len(s)
  BY <1>1
<1>3. ASSUME NEW e
      PROVE  /\ IsSeq(Append(s, e)) /\ Len(Append(s, e)) = Len(s) + 1
             /\ \A k \in 1 .. Len(s) : Append(s, e)[k] = s[k]
             /\ Append(s, e)[Len(s) + 1] = e
  <2>1. s \in Seq(X \cup {e})
    BY <1>1
  <2>2. Append(s, e) \in Seq(X \cup {e})
    BY <2>1
  <2>. QED
    BY <2>1, <2>2 DEF IsSeq
<1>4. ASSUME s # <<>>
      PROVE  /\ Len(s) > 0 /\ IsSeq(Tail(s)) /\ Len(Tail(s)) = Len(s) - 1
             /\ Head(s) = s[1]
             /\ \A k \in 1 .. Len(s) - 1 : Tail(s)[k] = s[k + 1]
  <2>1. Tail(s) \in Seq(X)
    BY <1>1, <1>4
  <2>2. IsSeq(Tail(s))
    BY <2>1 DEF IsSeq
  <2>. QED
    BY <1>1, <1>4, <2>2
<1>. QED
  BY <1>2, <1>3, <1>4


\* A screen with more pushes, and at last a push.
LEMMA PushedMore ==
    ASSUME NEW s, NEW t, NEW m \in Nat, NEW n \in Nat, m < n, NEW lines, NEW outcomes,
           AllAnswered(s, m, lines, outcomes),
           \A i \in 1 .. m : t[i] = s[i],
           \A i \in m + 1 .. n : t[i].as = "push"
    PROVE  AllAnswered(t, n, lines, outcomes)
<1>1. \A i \in 0 .. m : Answered(t, i) = Answered(s, i)
  BY CountSame
<1>2. t[n].as = "push" /\ \A i \in m + 1 .. n - 1 : t[i].as = "push"
  OBVIOUS
<1>3. Answered(t, n) = Answered(t, m)
  BY <1>2, CountMore
<1>4. ASSUME NEW i \in 1 .. n, t[i].as = "answer"
      PROVE  AnswersLine(t[i], Answered(t, i), lines, outcomes)
  <2>1. i \in 1 .. m \/ i \in m + 1 .. n
    OBVIOUS
  <2>. QED
    BY <1>1, <1>4, <2>1 DEF AllAnswered
<1>. QED
  BY <1>1, <1>3, <1>4 DEF AllAnswered

\* A screen with more pushes, and then the answer to the next line.
LEMMA AnsweredMore ==
    ASSUME NEW s, NEW t, NEW m \in Nat, NEW n \in Nat, m < n, NEW lines, NEW outcomes, NEW o,
           IsSeq(outcomes), AllAnswered(s, m, lines, outcomes),
           \A i \in 1 .. m : t[i] = s[i],
           \A i \in m + 1 .. n - 1 : t[i].as = "push",
           t[n].as = "answer",
           AnswersLine(t[n], Len(outcomes) + 1, lines, Append(outcomes, o))
    PROVE  AllAnswered(t, n, lines, Append(outcomes, o))
<1>1. \A i \in 0 .. m : Answered(t, i) = Answered(s, i)
  BY CountSame
<1>2. Answered(t, n) = Answered(t, m) + 1 /\ Answered(t, m) = Len(outcomes)
  BY <1>1, CountMore DEF AllAnswered
<1>3. /\ Len(outcomes) \in Nat /\ Len(Append(outcomes, o)) = Len(outcomes) + 1
      /\ \A k \in 1 .. Len(outcomes) : Append(outcomes, o)[k] = outcomes[k]
  BY SeqFacts
<1>4. ASSUME NEW i \in 1 .. n, t[i].as = "answer"
      PROVE  AnswersLine(t[i], Answered(t, i), lines, Append(outcomes, o))
  <2>1. CASE i \in 1 .. m
    <3>1. PICK k : k = Answered(s, i)
      OBVIOUS
    <3>2. AnswersLine(t[i], k, lines, outcomes) /\ Answered(t, i) = k
      BY <1>1, <1>4, <2>1, <3>1 DEF AllAnswered
    <3>3. k \in 1 .. Len(outcomes)
      BY <3>2 DEF AnswersLine
    <3>4. k \in 1 .. Len(Append(outcomes, o)) /\ Append(outcomes, o)[k] = outcomes[k]
      BY <1>3, <3>3
    <3>. QED
      BY <3>2, <3>4 DEF AnswersLine
  <2>2. CASE i = n
    BY <1>2, <2>2
  <2>3. i \in 1 .. m \/ i \in m + 1 .. n - 1 \/ i = n
    OBVIOUS
  <2>. QED
    BY <1>4, <2>1, <2>2, <2>3
<1>. QED
  BY <1>2, <1>3, <1>4 DEF AllAnswered

\* A wire with more on it.
LEMMA ScreenGrows ==
    ASSUME NEW s, NEW r, NEW r2, IsSeq(s), IsSeq(r), IsSeq(r2), Len(r) <= Len(r2),
           \A j \in 1 .. Len(r) : r2[j] = r[j]
    PROVE  /\ Len(s) \in Nat /\ Len(r) \in Nat /\ Len(r2) \in Nat
           /\ \A i \in 1 .. Len(s) + Len(r) : Screen(s, r2)[i] = Screen(s, r)[i]
           /\ \A j \in Len(r) + 1 .. Len(r2) : Screen(s, r2)[Len(s) + j] = Shown(r2[j].made)
<1>1. Len(s) \in Nat /\ Len(r) \in Nat /\ Len(r2) \in Nat
  BY SeqFacts
<1>2. ASSUME NEW i \in 1 .. Len(s) + Len(r) PROVE Screen(s, r2)[i] = Screen(s, r)[i]
  <2>1. i \in 1 .. Len(s) + Len(r2) /\ (i <= Len(s) \/ i - Len(s) \in 1 .. Len(r))
    BY <1>1
  <2>. QED
    BY <2>1 DEF Screen
<1>3. ASSUME NEW j \in Len(r) + 1 .. Len(r2)
      PROVE  Screen(s, r2)[Len(s) + j] = Shown(r2[j].made)
  <2>1. /\ Len(s) + j \in 1 .. Len(s) + Len(r2) /\ ~ (Len(s) + j <= Len(s))
        /\ (Len(s) + j) - Len(s) = j
    BY <1>1
  <2>. QED
    BY <2>1 DEF Screen
<1>. QED
  BY <1>1, <1>2, <1>3

\* A line more, and its request.
LEMMA TypeOrderly ==
    ASSUME NEW s, NEW r, NEW asks, NEW outcomes, NEW lines, NEW lost \in {0, 1},
           Orderly(s, r, asks, outcomes, lines, lost),
           NEW e, NEW line, Asks(e.made, line)
    PROVE  Orderly(s, r, Append(asks, e), outcomes, Append(lines, line), lost)
<1>1. /\ IsSeq(s) /\ IsSeq(r) /\ IsSeq(asks) /\ IsSeq(outcomes) /\ IsSeq(lines)
      /\ AllAnswered(Screen(s, r), Len(s) + Len(r), lines, outcomes)
      /\ Len(lines) = Len(outcomes) + Len(asks) + lost
      /\ Asked(asks, lines)
  BY DEF Orderly
<1>2. /\ Len(lines) \in Nat /\ Len(asks) \in Nat /\ Len(outcomes) \in Nat
      /\ IsSeq(Append(lines, line)) /\ IsSeq(Append(asks, e))
      /\ Len(Append(lines, line)) = Len(lines) + 1 /\ Len(Append(asks, e)) = Len(asks) + 1
      /\ \A k \in 1 .. Len(lines) : Append(lines, line)[k] = lines[k]
      /\ \A k \in 1 .. Len(asks) : Append(asks, e)[k] = asks[k]
      /\ Append(lines, line)[Len(lines) + 1] = line /\ Append(asks, e)[Len(asks) + 1] = e
  BY <1>1, SeqFacts
<1>3. ASSUME NEW k \in 1 .. Len(asks) + 1
      PROVE  Asks(Append(asks, e)[k].made,
                  Append(lines, line)[(Len(lines) + 1) - (Len(asks) + 1) + k])
  <2>1. PICK j : j = Len(lines) - Len(asks) + k
    OBVIOUS
  <2>2. (Len(lines) + 1) - (Len(asks) + 1) + k = j
    BY <1>2, <2>1
  <2>3. CASE k \in 1 .. Len(asks)
    <3>1. j \in 1 .. Len(lines)
      BY <1>1, <1>2, <2>1, <2>3
    <3>2. Asks(asks[k].made, lines[j])
      BY <1>1, <2>1, <2>3 DEF Asked
    <3>. QED
      BY <1>2, <2>2, <2>3, <3>1, <3>2
  <2>4. CASE k = Len(asks) + 1
    <3>1. j = Len(lines) + 1
      BY <1>2, <2>1, <2>4
    <3>. QED
      BY <1>2, <2>2, <2>4, <3>1
  <2>5. k \in 1 .. Len(asks) \/ k = Len(asks) + 1
    BY <1>2
  <2>. QED
    BY <2>3, <2>4, <2>5
<1>4. Asked(Append(asks, e), Append(lines, line))
  BY <1>2, <1>3 DEF Asked
<1>5. AllAnswered(Screen(s, r), Len(s) + Len(r), Append(lines, line), outcomes)
  <2>1. PICK t : t = Screen(s, r)
    OBVIOUS
  <2>2. PICK n : n = Len(s) + Len(r)
    OBVIOUS
  <2>3. ASSUME NEW i \in 1 .. n, t[i].as = "answer"
        PROVE  AnswersLine(t[i], Answered(t, i), Append(lines, line), outcomes)
    <3>1. PICK k : k = Answered(t, i)
      OBVIOUS
    <3>2. AnswersLine(t[i], k, lines, outcomes)
      BY <1>1, <2>1, <2>2, <2>3, <3>1 DEF AllAnswered
    <3>3. k \in 1 .. Len(outcomes)
      BY <3>2 DEF AnswersLine
    <3>4. Append(lines, line)[k] = lines[k]
      BY <1>1, <1>2, <3>3
    <3>. QED
      BY <3>1, <3>2, <3>4 DEF AnswersLine
  <2>. QED
    BY <1>1, <2>1, <2>2, <2>3 DEF AllAnswered
<1>6. Len(Append(lines, line)) = Len(outcomes) + Len(Append(asks, e)) + lost
  BY <1>1, <1>2
<1>. QED
  BY <1>1, <1>2, <1>4, <1>5, <1>6 DEF Orderly

\* The first message on the wire is shown: nothing changes for the screen.
LEMMA ReceiveOrderly ==
    ASSUME NEW s, NEW r, NEW asks, NEW outcomes, NEW lines, NEW lost,
           Orderly(s, r, asks, outcomes, lines, lost), r # <<>>
    PROVE  Orderly(Append(s, Shown(Head(r).made)), Tail(r), asks, outcomes, lines, lost)
<1>1. /\ IsSeq(s) /\ IsSeq(r) /\ IsSeq(asks) /\ IsSeq(outcomes) /\ IsSeq(lines)
      /\ AllAnswered(Screen(s, r), Len(s) + Len(r), lines, outcomes)
      /\ Len(lines) = Len(outcomes) + Len(asks) + lost
      /\ Asked(asks, lines)
  BY DEF Orderly
<1>2. PICK x : x = Shown(Head(r).made)
  OBVIOUS
<1>3. /\ Len(s) \in Nat /\ Len(r) \in Nat /\ Len(r) > 0
      /\ IsSeq(Append(s, x)) /\ Len(Append(s, x)) = Len(s) + 1
      /\ IsSeq(Tail(r)) /\ Len(Tail(r)) = Len(r) - 1
      /\ \A k \in 1 .. Len(s) : Append(s, x)[k] = s[k]
      /\ Append(s, x)[Len(s) + 1] = x /\ Head(r) = r[1]
      /\ \A k \in 1 .. Len(r) - 1 : Tail(r)[k] = r[k + 1]
  BY <1>1, SeqFacts
<1>4. Len(Append(s, x)) + Len(Tail(r)) = Len(s) + Len(r)
  BY <1>3
<1>5. ASSUME NEW i \in 1 .. Len(s) + Len(r)
      PROVE  (IF i <= Len(Append(s, x)) THEN Append(s, x)[i]
              ELSE Shown(Tail(r)[i - Len(Append(s, x))].made))
             = (IF i <= Len(s) THEN s[i] ELSE Shown(r[i - Len(s)].made))
  <2>1. CASE i <= Len(s)
    BY <1>3, <2>1
  <2>2. CASE i = Len(s) + 1
    <3>1. ~ (i <= Len(s)) /\ i <= Len(Append(s, x)) /\ i - Len(s) = 1
      BY <1>3, <2>2
    <3>. QED
      BY <1>2, <1>3, <2>2, <3>1
  <2>3. CASE i > Len(s) + 1
    <3>1. PICK j : j = i - Len(Append(s, x))
      OBVIOUS
    <3>2. /\ j \in 1 .. Len(r) - 1 /\ j + 1 = i - Len(s)
          /\ ~ (i <= Len(s)) /\ ~ (i <= Len(Append(s, x)))
      BY <1>3, <2>3, <3>1
    <3>3. Tail(r)[j] = r[j + 1]
      BY <1>3, <3>2
    <3>. QED
      BY <3>1, <3>2, <3>3
  <2>. QED
    BY <1>3, <2>1, <2>2, <2>3
<1>6. Screen(Append(s, x), Tail(r)) = Screen(s, r)
  BY <1>4, <1>5 DEF Screen
<1>. QED
  BY <1>1, <1>2, <1>3, <1>4, <1>6 DEF Orderly

\* A push more on the wire.
LEMMA DeliverOrderly ==
    ASSUME NEW s, NEW r, NEW asks, NEW outcomes, NEW lines, NEW lost,
           Orderly(s, r, asks, outcomes, lines, lost),
           NEW e, Shown(e.made).as = "push"
    PROVE  Orderly(s, Append(r, e), asks, outcomes, lines, lost)
<1>1. /\ IsSeq(s) /\ IsSeq(r) /\ IsSeq(asks) /\ IsSeq(outcomes) /\ IsSeq(lines)
      /\ AllAnswered(Screen(s, r), Len(s) + Len(r), lines, outcomes)
      /\ Len(lines) = Len(outcomes) + Len(asks) + lost
      /\ Asked(asks, lines)
  BY DEF Orderly
<1>2. PICK r2 : r2 = Append(r, e)
  OBVIOUS
<1>3. /\ IsSeq(r2) /\ Len(r2) = Len(r) + 1 /\ Len(r) \in Nat /\ Len(s) \in Nat
      /\ \A k \in 1 .. Len(r) : r2[k] = r[k]
      /\ r2[Len(r) + 1] = e
  BY <1>1, <1>2, SeqFacts
<1>4. PICK a \in Nat : a = Len(r)
  BY <1>3
<1>5. Len(r2) = a + 1 /\ a <= a + 1 /\ a + 1 \in a + 1 .. a + 1
  BY <1>3, <1>4
<1>6. /\ \A i \in 1 .. Len(s) + Len(r) : Screen(s, r2)[i] = Screen(s, r)[i]
      /\ \A j \in Len(r) + 1 .. Len(r2) : Screen(s, r2)[Len(s) + j] = Shown(r2[j].made)
  <2>1. Len(r) <= Len(r2)
    BY <1>4, <1>5
  <2>2. IsSeq(s) /\ IsSeq(r) /\ IsSeq(r2)
    BY <1>1, <1>3
  <2>3. \A j \in 1 .. Len(r) : r2[j] = r[j]
    BY <1>3
  <2>. QED
    BY <2>1, <2>2, <2>3, ScreenGrows
<1>7. Screen(s, r2)[Len(s) + (a + 1)] = Shown(e.made)
  BY <1>3, <1>4, <1>5, <1>6
<1>8. PICK m \in Nat : m = Len(s) + a
  BY <1>3
<1>9. Len(s) + (a + 1) = m + 1 /\ m < m + 1 /\ m + 1 \in Nat
  BY <1>3, <1>8
<1>10. \A i \in m + 1 .. m + 1 : Screen(s, r2)[i].as = "push"
  BY <1>7, <1>9
<1>11. \A i \in 1 .. m : Screen(s, r2)[i] = Screen(s, r)[i]
  BY <1>4, <1>6, <1>8
<1>12. AllAnswered(Screen(s, r2), m + 1, lines, outcomes)
  BY <1>1, <1>4, <1>8, <1>9, <1>10, <1>11, PushedMore
<1>13. Len(s) + Len(r2) = m + 1
  BY <1>5, <1>9
<1>. QED
  BY <1>1, <1>2, <1>3, <1>12, <1>13 DEF Orderly

\* A request less: it was that of the first line that is not answered.
LEMMA TailAsked ==
    ASSUME NEW asks, NEW lines, IsSeq(asks), IsSeq(lines), asks # <<>>, Asked(asks, lines)
    PROVE  /\ Asked(Tail(asks), lines)
           /\ Asks(Head(asks).made, lines[Len(lines) - Len(asks) + 1])
<1>1. /\ Len(lines) \in Nat /\ Len(asks) \in Nat /\ Len(asks) > 0
      /\ Len(Tail(asks)) = Len(asks) - 1 /\ Head(asks) = asks[1]
      /\ \A k \in 1 .. Len(asks) - 1 : Tail(asks)[k] = asks[k + 1]
  BY SeqFacts
<1>2. ASSUME NEW k \in 1 .. Len(asks) - 1
      PROVE  Asks(Tail(asks)[k].made, lines[Len(lines) - (Len(asks) - 1) + k])
  <2>1. PICK i : i = k + 1
    OBVIOUS
  <2>2. i \in 1 .. Len(asks) /\ Len(lines) - (Len(asks) - 1) + k = Len(lines) - Len(asks) + i
    BY <1>1, <2>1
  <2>3. Asks(asks[i].made, lines[Len(lines) - Len(asks) + i])
    BY <2>2 DEF Asked
  <2>. QED
    BY <1>1, <2>1, <2>2, <2>3
<1>3. 1 \in 1 .. Len(asks)
  BY <1>1
<1>. QED
  BY <1>1, <1>2, <1>3 DEF Asked

\* The worker takes a request and hangs.
LEMMA HangOrderly ==
    ASSUME NEW s, NEW r, NEW asks, NEW outcomes, NEW lines,
           Orderly(s, r, asks, outcomes, lines, 0), asks # <<>>
    PROVE  Orderly(s, r, Tail(asks), outcomes, lines, 1)
<1>1. /\ IsSeq(s) /\ IsSeq(r) /\ IsSeq(asks) /\ IsSeq(outcomes) /\ IsSeq(lines)
      /\ AllAnswered(Screen(s, r), Len(s) + Len(r), lines, outcomes)
      /\ Len(lines) = Len(outcomes) + Len(asks) + 0
      /\ Asked(asks, lines)
  BY DEF Orderly
<1>2. /\ Len(asks) \in Nat /\ Len(outcomes) \in Nat
      /\ IsSeq(Tail(asks)) /\ Len(Tail(asks)) = Len(asks) - 1
  BY <1>1, SeqFacts
<1>3. Asked(Tail(asks), lines)
  BY <1>1, TailAsked
<1>4. Len(lines) = Len(outcomes) + Len(Tail(asks)) + 1
  BY <1>1, <1>2
<1>. QED
  BY <1>1, <1>2, <1>3, <1>4 DEF Orderly

\* The message of an answer to a request, with the outcome that was decided.
AnswerTo(answer, m, outcome) ==
    /\ Shown(answer).as = "answer"
    /\ Shown(answer).type = m.type
    /\ \/ Shown(answer).outcome = outcome
       \/ m.type = "GROUP_CHAT" /\ m.content = ""

\* The worker takes a request and answers it, after pushes on the same connection.
LEMMA AnswerOrderly ==
    ASSUME NEW s, NEW r, NEW asks, NEW outcomes, NEW lines,
           Orderly(s, r, asks, outcomes, lines, 0), asks # <<>>,
           NEW r2, IsSeq(r2), Len(r) < Len(r2), \A j \in 1 .. Len(r) : r2[j] = r[j],
           \A j \in Len(r) + 1 .. Len(r2) - 1 : Shown(r2[j].made).as = "push",
           NEW o, AnswerTo(r2[Len(r2)].made, Head(asks).made, o)
    PROVE  Orderly(s, r2, Tail(asks), Append(outcomes, o), lines, 0)
<1>1. /\ IsSeq(s) /\ IsSeq(r) /\ IsSeq(asks) /\ IsSeq(outcomes) /\ IsSeq(lines)
      /\ AllAnswered(Screen(s, r), Len(s) + Len(r), lines, outcomes)
      /\ Len(lines) = Len(outcomes) + Len(asks) + 0
      /\ Asked(asks, lines)
  BY DEF Orderly
<1>2. /\ Len(asks) \in Nat /\ Len(outcomes) \in Nat
      /\ IsSeq(Tail(asks)) /\ Len(Tail(asks)) = Len(asks) - 1
      /\ IsSeq(Append(outcomes, o)) /\ Len(Append(outcomes, o)) = Len(outcomes) + 1
      /\ Append(outcomes, o)[Len(outcomes) + 1] = o
  BY <1>1, SeqFacts
<1>3. PICK k : k = Len(outcomes) + 1
  OBVIOUS
<1>4. /\ Asked(Tail(asks), lines)
      /\ Asks(Head(asks).made, lines[k])
  <2>1. Len(lines) - Len(asks) + 1 = k
    BY <1>1, <1>2, <1>3
  <2>. QED
    BY <1>1, <2>1, TailAsked
<1>5. Len(lines) = Len(Append(outcomes, o)) + Len(Tail(asks)) + 0
  BY <1>1, <1>2
<1>6. PICK t : t = Screen(s, r2)
  OBVIOUS
<1>7. /\ Len(s) \in Nat /\ Len(r) \in Nat /\ Len(r2) \in Nat
      /\ \A i \in 1 .. Len(s) + Len(r) : t[i] = Screen(s, r)[i]
      /\ \A j \in Len(r) + 1 .. Len(r2) : t[Len(s) + j] = Shown(r2[j].made)
  <2>1. Len(r) \in Nat /\ Len(r2) \in Nat
    BY <1>1, SeqFacts
  <2>2. \A a, b \in Nat : a < b => a <= b
    OBVIOUS
  <2>3. Len(r) <= Len(r2)
    BY <2>1, <2>2, Zenon
  <2>. QED
    BY <1>1, <1>6, <2>3, ScreenGrows
<1>8. PICK m \in Nat : m = Len(s) + Len(r)
  BY <1>7
<1>9. PICK n \in Nat : n = Len(s) + Len(r2)
  BY <1>7
<1>10. m < n
  BY <1>7, <1>8, <1>9
<1>11. ASSUME NEW i \in m + 1 .. n - 1 PROVE t[i].as = "push"
  <2>1. PICK j : j = i - Len(s)
    OBVIOUS
  <2>2. j \in Len(r) + 1 .. Len(r2) - 1 /\ Len(s) + j = i /\ j \in Len(r) + 1 .. Len(r2)
    BY <1>7, <1>8, <1>9, <2>1
  <2>. QED
    BY <1>7, <2>2
<1>12. t[n] = Shown(r2[Len(r2)].made)
  <2>1. Len(r2) \in Len(r) + 1 .. Len(r2)
    BY <1>7
  <2>. QED
    BY <1>7, <1>9, <2>1
<1>13. AnswersLine(t[n], k, lines, Append(outcomes, o))
  <2>1. k \in 1 .. Len(Append(outcomes, o)) /\ Append(outcomes, o)[k] = o
    BY <1>2, <1>3
  <2>2. t[n].type = TypeOf(lines[k])
    BY <1>4, <1>12 DEF AnswerTo, Asks
  <2>3. \/ t[n].outcome = o
        \/ lines[k].cmd = "group" /\ lines[k].text = ""
    BY <1>4, <1>12 DEF AnswerTo, Asks
  <2>. QED
    BY <2>1, <2>2, <2>3 DEF AnswersLine
<1>14. t[n].as = "answer"
  BY <1>12 DEF AnswerTo
<1>15. AllAnswered(t, n, lines, Append(outcomes, o))
  <2>1. AllAnswered(Screen(s, r), m, lines, outcomes)
    BY <1>1, <1>8
  <2>2. \A i \in 1 .. m : t[i] = Screen(s, r)[i]
    BY <1>7, <1>8
  <2>. QED
    BY <1>1, <1>3, <1>10, <1>11, <1>13, <1>14, <2>1, <2>2, AnsweredMore
<1>. QED
  BY <1>1, <1>2, <1>4, <1>5, <1>6, <1>9, <1>15 DEF Orderly
-----------------------------------------------------------------------------
(* The steps, a third time. *)

\* What is read off OrderInv for the console that takes the step.
LEMMA OrderRead ==
    ASSUME ProofInv, OrderInv, NEW c \in Clients
    PROVE  /\ Orderly(shown[c], replies[c], requests[c], decided[c], typed[c], Lost(c))
           /\ \A e \in Range(notify[c]) : Shown(e.made).as = "push"
           /\ IsSeq(notify[c]) /\ Lost(c) \in {0, 1}
BY GoodIsSeq DEF ProofInv, OrderInv, Lost

\* Steps are one client's: OrderInv is kept if it is for that client.
LEMMA OrderStep ==
    ASSUME OrderInv, NEW c \in Clients,
           decided' = [d \in Clients |-> decided'[d]],
           \A d \in Clients \ {c} :
              /\ shown'[d] = shown[d] /\ replies'[d] = replies[d] /\ requests'[d] = requests[d]
              /\ decided'[d] = decided[d] /\ typed'[d] = typed[d]
              /\ d \in hung' <=> d \in hung,
           NEW lost, Lost(c)' = lost,
           Orderly(shown'[c], replies'[c], requests'[c], decided'[c], typed'[c], lost),
           \A d \in Clients : \A e \in Range(notify'[d]) :
              e \in Range(notify[d]) \/ Shown(e.made).as = "push"
    PROVE  OrderInv'
<1>1. ASSUME NEW d \in Clients \ {c}
      PROVE  Orderly(shown'[d], replies'[d], requests'[d], decided'[d], typed'[d], Lost(d)')
  <2>1. Lost(d)' = Lost(d)
    BY DEF Lost
  <2>2. Orderly(shown[d], replies[d], requests[d], decided[d], typed[d], Lost(d))
    BY DEF OrderInv
  <2>. QED
    BY <2>1, <2>2
<1>2. \A d \in Clients : \A e \in Range(notify'[d]) : Shown(e.made).as = "push"
  BY DEF OrderInv
<1>. QED
  BY <1>1, <1>2 DEF OrderInv

\* A line's request is of the type of its command.
LEMMA RequestAsks ==
    ASSUME NEW me, NEW line \in Lines
    PROVE  Asks(Request(me, line), line)
<1>. DEFINE r == Request(me, line)
<1>1. line.cmd \in {"register", "login", "private", "group", "friends", "logout"}
  BY DEF Lines
<1>2. r.type = TypeOf(line)
  BY <1>1, Types, NewIsMessage DEF Request, TypeOf
<1>3. r.type = "GROUP_CHAT" => line.cmd = "group" /\ r.content = line.text
  BY RequestCarries
<1>. QED
  BY <1>2, <1>3 DEF Asks

LEMMA TypeOrder ==
    ASSUME ProofInv, OrderInv, NEW c \in Clients, NEW line \in Lines, Type(c, line)
    PROVE  OrderInv'
<1>1. PICK e : e = Packed(Request(CurrentAfter(c, line), line))
  OBVIOUS
<1>2. /\ typed' = [typed EXCEPT ![c] = Append(typed[c], line)]
      /\ requests' = [requests EXCEPT ![c] = Append(requests[c], e)]
      /\ UNCHANGED <<replies, notify, shown, decided, hung>>
  BY <1>1 DEF Type, serverVars
<1>3. /\ typed'[c] = Append(typed[c], line) /\ requests'[c] = Append(requests[c], e)
      /\ \A d \in Clients \ {c} : typed'[d] = typed[d] /\ requests'[d] = requests[d]
  BY <1>2, ChangedAt DEF ProofInv, HistoryTypes, WiresInv
<1>4. Asks(e.made, line)
  BY <1>1, RequestAsks DEF Packed
<1>5. Orderly(shown[c], replies[c], requests'[c], decided[c], typed'[c], Lost(c))
  BY <1>3, <1>4, OrderRead, TypeOrderly
<1>6. Lost(c)' = Lost(c)
  BY <1>2 DEF Lost
<1>7. decided' = [d \in Clients |-> decided'[d]]
  BY <1>2 DEF OrderInv
<1>. QED
  BY <1>2, <1>3, <1>5, <1>6, <1>7, OrderStep

\* What is on a wire is a message.
LEMMA GoodMessage ==
    ASSUME NEW e, Good(e)
    PROVE  CreateMessageFromJson(e.text) = e.made /\ e.made # NoMessage
<1>1. PICK type \in MessageTypes : e.made["type"] = type
  BY DEF Good, IsMessage
<1>2. NoMessage["type"] = "none" /\ "none" \notin MessageTypes
  BY DEF NoMessage, MessageTypes, Fields
<1>. QED
  BY <1>1, <1>2, ReadBack

LEMMA ReceiveOrder ==
    ASSUME ProofInv, OrderInv, NEW c \in Clients, Receive(c)
    PROVE  OrderInv'
<1>0. WiresInv /\ HistoryTypes
  BY DEF ProofInv
<1>1. PICK e : e = Head(replies[c])
  OBVIOUS
<1>2. /\ replies[c] # <<>>
      /\ replies' = [replies EXCEPT ![c] = Tail(replies[c])]
      /\ UNCHANGED <<typed, requests, notify, decided, hung>>
  BY DEF Receive, serverVars
<1>3. Good(e)
  BY <1>0, <1>1, <1>2, GoodIsSeq, TailRange, GoodElements DEF WiresInv
<1>4. CreateMessageFromJson(e.text) = e.made /\ e.made # NoMessage
  BY <1>3, GoodMessage
<1>5. shown' = [shown EXCEPT ![c] = Append(shown[c], Shown(e.made))]
  BY <1>1, <1>4 DEF Receive
<1>6. /\ replies'[c] = Tail(replies[c]) /\ shown'[c] = Append(shown[c], Shown(e.made))
      /\ \A d \in Clients \ {c} : replies'[d] = replies[d] /\ shown'[d] = shown[d]
  BY <1>0, <1>2, <1>5, ChangedAt DEF HistoryTypes, WiresInv
<1>7. Orderly(shown'[c], replies'[c], requests[c], decided[c], typed[c], Lost(c))
  BY <1>1, <1>2, <1>6, OrderRead, ReceiveOrderly
<1>8. Lost(c)' = Lost(c)
  BY <1>2 DEF Lost
<1>9. decided' = [d \in Clients |-> decided'[d]]
  BY <1>2 DEF OrderInv
<1>. QED
  BY <1>2, <1>6, <1>7, <1>8, <1>9, OrderStep

LEMMA DeliverOrder ==
    ASSUME ProofInv, OrderInv, NEW c \in Clients, Deliver(c)
    PROVE  OrderInv'
<1>0. WiresInv /\ HistoryTypes
  BY DEF ProofInv
<1>1. PICK e : e = Head(notify[c])
  OBVIOUS
<1>2. /\ notify[c] # <<>>
      /\ notify' = [notify EXCEPT ![c] = Tail(notify[c])]
      /\ replies' = [replies EXCEPT ![c] = Append(replies[c], e)]
      /\ UNCHANGED <<typed, shown, requests, decided, hung>>
  BY <1>1 DEF Deliver, serverVars, clientVars
<1>3. e \in Range(notify[c]) /\ Range(Tail(notify[c])) \subseteq Range(notify[c])
  BY <1>0, <1>1, <1>2, GoodIsSeq, TailRange
<1>4. /\ replies'[c] = Append(replies[c], e) /\ notify'[c] = Tail(notify[c])
      /\ \A d \in Clients \ {c} : replies'[d] = replies[d] /\ notify'[d] = notify[d]
  BY <1>0, <1>2, ChangedAt DEF WiresInv
<1>5. Orderly(shown[c], replies'[c], requests[c], decided[c], typed[c], Lost(c))
  BY <1>3, <1>4, OrderRead, DeliverOrderly
<1>6. Lost(c)' = Lost(c)
  BY <1>2 DEF Lost
<1>7. decided' = [d \in Clients |-> decided'[d]]
  BY <1>2 DEF OrderInv
<1>8. \A d \in Clients : \A x \in Range(notify'[d]) : x \in Range(notify[d])
  BY <1>3, <1>4
<1>. QED
  BY <1>2, <1>4, <1>5, <1>6, <1>7, <1>8, OrderStep

LEMMA ConcatFacts ==
    ASSUME NEW s, NEW t, IsSeq(s), IsSeq(t)
    PROVE  /\ IsSeq(s \o t) /\ Len(s \o t) = Len(s) + Len(t)
           /\ \A k \in 1 .. Len(s) : (s \o t)[k] = s[k]
           /\ \A k \in 1 .. Len(t) : (s \o t)[Len(s) + k] = t[k]
<1>1. PICK X : s \in Seq(X)
  BY DEF IsSeq
<1>2. PICK Y : t \in Seq(Y)
  BY DEF IsSeq
<1>3. s \in Seq(X \cup Y) /\ t \in Seq(X \cup Y)
  BY <1>1, <1>2
<1>4. s \o t \in Seq(X \cup Y) /\ Len(s \o t) = Len(s) + Len(t)
  BY <1>3
<1>5. \A k \in 1 .. Len(s) : (s \o t)[k] = s[k]
  BY <1>3
<1>6. \A k \in 1 .. Len(t) : (s \o t)[Len(s) + k] = t[k]
  BY <1>3
<1>. QED
  BY <1>4, <1>5, <1>6 DEF IsSeq

\* n pushes, then the answer, were written after r.
Written(r, r2, push, n, answer) ==
    \E t : /\ r2 = r \o t
           /\ IsSeq(t) /\ Len(t) = n + 1
           /\ \A k \in 1 .. n : t[k] = Packed(push)
           /\ t[n + 1] = Packed(answer)

LEMMA WrittenByAnswers ==
    ASSUME WiresInv, NEW c \in Clients, NEW push, NEW answer, NEW before \in Seq({push}),
           Answers(c, before, answer)
    PROVE  /\ \A d \in Clients \ {c} : replies'[d] = replies[d]
           /\ Written(replies[c], replies'[c], push, Len(before), answer)
<1>. DEFINE ms == Append(before, answer)
            t == [k \in DOMAIN ms |-> Packed(ms[k])]
<1>1. replies' = [replies EXCEPT ![c] = replies[c] \o t]
  BY DEF Answers, Sends
<1>2. before \in Seq({push, answer}) /\ Len(before) \in Nat
  OBVIOUS
<1>3. /\ ms \in Seq({push, answer}) /\ DOMAIN ms = 1 .. Len(before) + 1
      /\ \A k \in 1 .. Len(before) : ms[k] = push
      /\ ms[Len(before) + 1] = answer
  BY <1>2
<1>. HIDE DEF ms
<1>4. t \in Seq({Packed(push), Packed(answer)}) /\ Len(t) = Len(before) + 1
  <2>1. \A k \in 1 .. Len(before) + 1 : k \in 1 .. Len(before) \/ k = Len(before) + 1
    BY <1>2
  <2>2. \A k \in DOMAIN ms : Packed(ms[k]) \in {Packed(push), Packed(answer)}
    BY <1>3, <2>1
  <2>3. t \in [1 .. Len(before) + 1 -> {Packed(push), Packed(answer)}]
    BY <1>3, <2>2
  <2>. QED
    BY <1>2, <2>3
<1>5. \A k \in 1 .. Len(before) : t[k] = Packed(push)
  BY <1>2, <1>3
<1>6. t[Len(before) + 1] = Packed(answer)
  BY <1>2, <1>3
<1>. HIDE DEF t
<1>7. IsSeq(t)
  BY <1>4 DEF IsSeq
<1>8. replies'[c] = replies[c] \o t /\ \A d \in Clients \ {c} : replies'[d] = replies[d]
  BY <1>1, ChangedAt DEF WiresInv
<1>9. Written(replies[c], replies'[c], push, Len(before), answer)
  BY <1>4, <1>5, <1>6, <1>7, <1>8 DEF Written
<1>. QED
  BY <1>8, <1>9

\* A handler that answers keeps the order.
LEMMA AnswersOrder ==
    ASSUME ProofInv, OrderInv, NEW c \in Clients, c \notin hung, requests[c] # <<>>,
           requests' = [requests EXCEPT ![c] = Tail(requests[c])],
           UNCHANGED <<typed, shown, hung>>,
           NEW push, NEW answer, NEW before \in Seq({push}), Answers(c, before, answer),
           before # <<>> => Shown(push).as = "push",
           AnswerTo(answer, Head(requests[c]).made, answer.success),
           \A d \in Clients : \A e \in Range(notify'[d]) :
              e \in Range(notify[d]) \/ Shown(e.made).as = "push"
    PROVE  OrderInv'
<1>0. WiresInv
  BY DEF ProofInv
<1>1. /\ decided' = [decided EXCEPT ![c] = Append(decided[c], answer.success)]
      /\ decided = [d \in Clients |-> decided[d]]
  BY DEF Answers, OrderInv
<1>2. /\ decided' = [d \in Clients |-> decided'[d]]
      /\ decided'[c] = Append(decided[c], answer.success)
      /\ \A d \in Clients \ {c} : decided'[d] = decided[d]
  BY <1>1, ChangedAt
<1>3. /\ requests'[c] = Tail(requests[c])
      /\ \A d \in Clients \ {c} : requests'[d] = requests[d]
  BY <1>0, ChangedAt DEF WiresInv
<1>4. PICK r2 : r2 = replies'[c]
  OBVIOUS
<1>5. PICK r : r = replies[c]
  OBVIOUS
<1>6. PICK b \in Nat : b = Len(before)
  OBVIOUS
<1>7. b # 0 => Shown(push).as = "push"
  BY <1>6
<1>8. PICK t : /\ r2 = r \o t
               /\ IsSeq(t) /\ Len(t) = b + 1
               /\ \A k \in 1 .. b : t[k] = Packed(push)
               /\ t[b + 1] = Packed(answer)
  <2>1. Written(replies[c], replies'[c], push, Len(before), answer)
    BY <1>0, WrittenByAnswers
  <2>2. Written(r, r2, push, b, answer)
    BY <1>4, <1>5, <1>6, <2>1
  <2>. QED
    BY <2>2 DEF Written
<1>9. IsSeq(r) /\ Len(r) \in Nat
  BY <1>0, <1>5, GoodIsSeq, SeqFacts
<1>10. PICK a \in Nat : a = Len(r)
  BY <1>9
<1>11. /\ IsSeq(r2) /\ Len(r2) = a + (b + 1)
       /\ \A k \in 1 .. a : r2[k] = r[k]
       /\ \A k \in 1 .. b + 1 : r2[a + k] = t[k]
  <2>1. IsSeq(r2) /\ Len(r2) = Len(r) + Len(t)
    BY <1>8, <1>9, ConcatFacts
  <2>2. \A k \in 1 .. Len(r) : r2[k] = r[k]
    BY <1>8, <1>9, ConcatFacts
  <2>3. \A k \in 1 .. Len(t) : r2[Len(r) + k] = t[k]
    BY <1>8, <1>9, ConcatFacts
  <2>4. Len(r) = a /\ Len(t) = b + 1
    BY <1>8, <1>10
  <2>. QED
    BY <2>1, <2>2, <2>3, <2>4
<1>12. ASSUME NEW j \in a + 1 .. a + b PROVE Shown(r2[j].made).as = "push"
  <2>1. PICK k : k = j - a
    OBVIOUS
  <2>2. k \in 1 .. b /\ k \in 1 .. b + 1 /\ a + k = j /\ b # 0
    BY <2>1
  <2>3. r2[j] = Packed(push)
    BY <1>8, <1>11, <2>2
  <2>. QED
    BY <1>7, <2>2, <2>3 DEF Packed
<1>13. r2[a + (b + 1)].made = answer
  <2>1. b + 1 \in 1 .. b + 1
    OBVIOUS
  <2>. QED
    BY <1>8, <1>11, <2>1 DEF Packed
<1>14. a < a + (b + 1) /\ (a + (b + 1)) - 1 = a + b
  OBVIOUS
<1>15. Orderly(shown[c], r, requests[c], decided[c], typed[c], 0)
  BY <1>5, OrderRead DEF Lost
<1>16. Orderly(shown[c], r2, Tail(requests[c]), Append(decided[c], answer.success), typed[c], 0)
  <2>1. /\ Len(r) < Len(r2) /\ \A j \in 1 .. Len(r) : r2[j] = r[j]
        /\ \A j \in Len(r) + 1 .. Len(r2) - 1 : Shown(r2[j].made).as = "push"
        /\ AnswerTo(r2[Len(r2)].made, Head(requests[c]).made, answer.success)
    BY <1>10, <1>11, <1>12, <1>13, <1>14
  <2>. QED
    BY <1>11, <1>15, <2>1, AnswerOrderly
<1>17. Lost(c)' = 0
  BY DEF Lost
<1>18. \A d \in Clients \ {c} : replies'[d] = replies[d]
  BY <1>0, WrittenByAnswers
<1>19. Orderly(shown'[c], replies'[c], requests'[c], decided'[c], typed'[c], 0)
  BY <1>2, <1>3, <1>4, <1>16
<1>. QED
  BY <1>2, <1>3, <1>17, <1>18, <1>19, OrderStep

\* What the console makes of an answer, and of a push.
LEMMA PlainAnswer ==
    ASSUME NEW type \in MessageTypes \ {"GROUP_CHAT"}, NEW given, NEW m, m.type = type,
           type = "PRIVATE_CHAT" => "from_user" \notin DOMAIN given
    PROVE  AnswerTo(New(type, given), m, New(type, given).success)
<1>1. PICK a : a = New(type, given)
  OBVIOUS
<1>2. a.type = type
  BY <1>1, NewIsMessage
<1>3. type = "PRIVATE_CHAT" => a.from_user = ""
  BY <1>1, NewSpeaker
<1>4. IsAnswer(a) /\ Outcome(a) = a.success
  BY <1>2, <1>3 DEF IsAnswer, Outcome
<1>5. Shown(a).as = "answer" /\ Shown(a).type = a.type /\ Shown(a).outcome = Outcome(a)
  BY <1>4 DEF Shown
<1>. QED
  BY <1>1, <1>2, <1>4, <1>5 DEF AnswerTo

\* A refused group message is answered with its text, one that was sent without: that is
\* how the console tells, and why it cannot if there was no text.
LEMMA GroupAnswer ==
    ASSUME NEW m, m.type = "GROUP_CHAT", NEW given, "from_user" \notin DOMAIN given,
           \/ /\ "content" \in DOMAIN given /\ given.content = m.content
              /\ "success" \notin DOMAIN given
           \/ /\ "content" \notin DOMAIN given
              /\ "success" \in DOMAIN given /\ given.success = TRUE
    PROVE  AnswerTo(New("GROUP_CHAT", given), m, New("GROUP_CHAT", given).success)
<1>. DEFINE Of(field) == IF field \in DOMAIN given THEN given[field] ELSE Default(field)
<1>1. PICK a : a = New("GROUP_CHAT", given)
  OBVIOUS
<1>2. /\ "GROUP_CHAT" \in MessageTypes
      /\ {"from_user", "content", "success"} \subseteq Members("GROUP_CHAT")
      /\ Default("from_user") = "" /\ Default("content") = "" /\ Default("success") = FALSE
  BY Types DEF Members, Fields, GroupFields, Default, ListFields, LoginLists, GetFriendsLists
<1>3. a.type = "GROUP_CHAT"
  BY <1>1, <1>2, NewIsMessage
<1>4. a.from_user = Of("from_user") /\ a.content = Of("content") /\ a.success = Of("success")
  BY <1>1, <1>2, NewMembers
<1>5. a.from_user = ""
  BY <1>2, <1>4
<1>6. \/ a.content = m.content /\ a.success = FALSE
      \/ a.content = "" /\ a.success = TRUE
  BY <1>2, <1>4
<1>. HIDE DEF Of
<1>7. IsAnswer(a) /\ Outcome(a) = (a.content = "")
  BY <1>3, <1>5 DEF IsAnswer, Outcome
<1>8. Shown(a).as = "answer" /\ Shown(a).type = a.type /\ Shown(a).outcome = Outcome(a)
  BY <1>7 DEF Shown
<1>9. Outcome(a) = a.success \/ m.content = ""
  BY <1>6, <1>7
<1>. QED
  BY <1>1, <1>3, <1>8, <1>9 DEF AnswerTo

LEMMA PushShown ==
    ASSUME NEW type \in {"PRIVATE_CHAT", "GROUP_CHAT"}, NEW given,
           "from_user" \in DOMAIN given, given.from_user # ""
    PROVE  Shown(New(type, given)).as = "push"
<1>1. PICK a : a = New(type, given)
  OBVIOUS
<1>2. a.type = type /\ a.from_user # ""
  <2>1. type \in MessageTypes
    BY Types
  <2>2. a.type = type
    BY <1>1, <2>1, NewIsMessage
  <2>3. a.from_user = given.from_user
    BY <1>1, NewSpeaker
  <2>. QED
    BY <2>2, <2>3
<1>3. ~ IsAnswer(a)
  BY <1>2 DEF IsAnswer
<1>. QED
  BY <1>1, <1>3 DEF Shown

\* What Serve has when it calls a handler with m.
Serving(c, m) ==
    /\ c \notin hung /\ requests[c] # <<>> /\ m = Head(requests[c]).made
    /\ requests' = [requests EXCEPT ![c] = Tail(requests[c])]
    /\ UNCHANGED <<typed, shown>>

\* An answer alone.
LEMMA AnswerOrder ==
    ASSUME ProofInv, OrderInv, NEW c \in Clients, NEW m, Serving(c, m), hung' = hung,
           NEW answer, Answers(c, <<>>, answer), AnswerTo(answer, m, answer.success),
           \A d \in Clients : \A e \in Range(notify'[d]) :
              e \in Range(notify[d]) \/ Shown(e.made).as = "push"
    PROVE  OrderInv'
<1>1. <<>> \in Seq({answer})
  OBVIOUS
<1>. QED
  BY <1>1, AnswersOrder DEF Serving

LEMMA PlainOrder ==
    ASSUME ProofInv, OrderInv, NEW c \in Clients, NEW m, Serving(c, m),
           \/ HandleRegister(c, m) \/ HandleLogin(c, m)
           \/ HandleGetFriends(c, m) \/ HandleLogout(c, m)
    PROVE  OrderInv'
<1>1. UNCHANGED <<notify, hung>>
  BY DEF HandleRegister, HandleLogin, HandleGetFriends, HandleLogout
<1>2. PICK type \in {"REGISTER", "LOGIN", "GET_FRIENDS", "LOGOUT"} :
        m.type = type /\ \E given : Answers(c, <<>>, New(type, given))
  BY Zenon DEF HandleRegister, HandleLogin, HandleGetFriends, HandleLogout
<1>3. PICK given : Answers(c, <<>>, New(type, given))
  BY <1>2
<1>4. AnswerTo(New(type, given), m, New(type, given).success)
  BY <1>2, Types, PlainAnswer
<1>. QED
  BY <1>1, <1>3, <1>4, AnswerOrder

LEMMA PrivateOrder ==
    ASSUME ProofInv, OrderInv, NEW c \in Clients, NEW m, Serving(c, m), HandlePrivateChat(c, m)
    PROVE  OrderInv'
<1>0. WiresInv
  BY DEF ProofInv
<1>. DEFINE given == [from_user |-> Speaker(c, m), to_user |-> m.to_user,
                      content |-> m.content, success |-> TRUE, message |-> Word(TRUE)]
            refusal == [to_user |-> m.to_user, message |-> Word(FALSE)]
            ack == [to_user |-> m.to_user, success |-> TRUE, message |-> Word(TRUE)]
<1>1. PICK push : push = New("PRIVATE_CHAT", given)
  OBVIOUS
<1>2. /\ m.type = "PRIVATE_CHAT"
      /\ \/ /\ UNCHANGED <<notify, hung>>
            /\ \/ Answers(c, <<>>, New("PRIVATE_CHAT", refusal))
               \/ Answers(c, <<>>, New("PRIVATE_CHAT", ack))
         \/ hung' = hung \cup {c} /\ UNCHANGED <<replies, notify, decided>>
         \/ /\ Speaker(c, m) # "" /\ (\E ds : Notifies(ds, push)) /\ hung' = hung
            /\ Answers(c, <<>>, New("PRIVATE_CHAT", ack))
  BY <1>1 DEF HandlePrivateChat
<1>3. /\ "from_user" \notin DOMAIN refusal /\ "from_user" \notin DOMAIN ack
      /\ "from_user" \in DOMAIN given /\ given.from_user = Speaker(c, m)
  OBVIOUS
<1>. HIDE DEF given, refusal, ack
<1>4. ASSUME NEW g \in {refusal, ack}
      PROVE  AnswerTo(New("PRIVATE_CHAT", g), m, New("PRIVATE_CHAT", g).success)
  BY <1>2, <1>3, Types, PlainAnswer
<1>5. CASE /\ UNCHANGED <<notify, hung>>
           /\ \/ Answers(c, <<>>, New("PRIVATE_CHAT", refusal))
              \/ Answers(c, <<>>, New("PRIVATE_CHAT", ack))
  BY <1>4, <1>5, AnswerOrder
<1>6. CASE hung' = hung \cup {c} /\ UNCHANGED <<replies, notify, decided>>
  <2>1. Orderly(shown[c], replies[c], requests[c], decided[c], typed[c], 0)
    BY OrderRead DEF Lost, Serving
  <2>2. Orderly(shown[c], replies[c], Tail(requests[c]), decided[c], typed[c], 1)
    BY <2>1, HangOrderly DEF Serving
  <2>3. /\ requests'[c] = Tail(requests[c])
        /\ \A d \in Clients \ {c} : requests'[d] = requests[d]
    BY <1>0, ChangedAt DEF WiresInv, Serving
  <2>4. Lost(c)' = 1
    BY <1>6 DEF Lost
  <2>5. decided' = [d \in Clients |-> decided'[d]]
    BY <1>6 DEF OrderInv
  <2>6. Orderly(shown'[c], replies'[c], requests'[c], decided'[c], typed'[c], 1)
    BY <1>6, <2>2, <2>3 DEF Serving
  <2>. QED
    BY <1>6, <2>3, <2>4, <2>5, <2>6, OrderStep DEF Serving
<1>7. CASE /\ Speaker(c, m) # "" /\ (\E ds : Notifies(ds, push)) /\ hung' = hung
           /\ Answers(c, <<>>, New("PRIVATE_CHAT", ack))
  <2>1. Shown(Packed(push).made).as = "push"
    BY <1>1, <1>3, <1>7, PushShown DEF Packed
  <2>2. \A d \in Clients : \A e \in Range(notify'[d]) :
          e \in Range(notify[d]) \/ Shown(e.made).as = "push"
    BY <1>0, <1>7, <2>1, NotifiesAdd
  <2>. QED
    BY <1>4, <1>7, <2>2, AnswerOrder
<1>. QED
  BY <1>2, <1>5, <1>6, <1>7

LEMMA GroupOrder ==
    ASSUME ProofInv, OrderInv, NEW c \in Clients, NEW m, Serving(c, m), HandleGroupChat(c, m)
    PROVE  OrderInv'
<1>0. WiresInv
  BY DEF ProofInv
<1>. DEFINE others == Names \ {Speaker(c, m)}
            On(d) == 1 .. Cardinality({n \in others : online[n] = d})
            said == [from_user |-> Speaker(c, m), content |-> m.content,
                     success |-> TRUE, message |-> Word(TRUE)]
            refusal == [content |-> m.content, message |-> Word(FALSE)]
            done == [success |-> TRUE, message |-> Word(TRUE)]
<1>1. PICK push : push = New("GROUP_CHAT", said)
  OBVIOUS
<1>2. m.type = "GROUP_CHAT" /\ hung' = hung
  BY DEF HandleGroupChat
<1>3. \/ Answers(c, <<>>, New("GROUP_CHAT", refusal)) /\ notify' = notify
      \/ /\ Speaker(c, m) # ""
         /\ Answers(c, [k \in On(c) |-> push], New("GROUP_CHAT", done))
         /\ notify' = [d \in Clients |-> IF d = c THEN notify[d]
                                         ELSE notify[d] \o [k \in On(d) |-> Packed(push)]]
  BY <1>1 DEF HandleGroupChat
<1>4. \A g \in {refusal, done} :
        AnswerTo(New("GROUP_CHAT", g), m, New("GROUP_CHAT", g).success)
  <2>1. /\ "from_user" \notin DOMAIN refusal /\ "success" \notin DOMAIN refusal
        /\ "content" \in DOMAIN refusal /\ refusal.content = m.content
    OBVIOUS
  <2>2. /\ "from_user" \notin DOMAIN done /\ "content" \notin DOMAIN done
        /\ "success" \in DOMAIN done /\ done.success = TRUE
    OBVIOUS
  <2>. HIDE DEF refusal, done
  <2>. QED
    BY <1>2, <2>1, <2>2, GroupAnswer
<1>5. "from_user" \in DOMAIN said /\ said.from_user = Speaker(c, m)
  OBVIOUS
<1>6. ASSUME NEW d PROVE \E n \in Nat : On(d) = 1 .. n
  <2>1. {n \in others : online[n] = d} \subseteq Names
    OBVIOUS
  <2>2. Cardinality({n \in others : online[n] = d}) \in Nat
    BY <2>1, SomeNames
  <2>. QED
    BY <2>2
<1>. HIDE DEF On, said, refusal, done
<1>7. CASE Answers(c, <<>>, New("GROUP_CHAT", refusal)) /\ notify' = notify
  BY <1>2, <1>4, <1>7, AnswerOrder
<1>8. CASE /\ Speaker(c, m) # ""
           /\ Answers(c, [k \in On(c) |-> push], New("GROUP_CHAT", done))
           /\ notify' = [d \in Clients |-> IF d = c THEN notify[d]
                                           ELSE notify[d] \o [k \in On(d) |-> Packed(push)]]
  <2>1. [k \in On(c) |-> push] \in Seq({push})
    <3>1. PICK n \in Nat : On(c) = 1 .. n
      BY <1>6
    <3>. QED
      BY <3>1
  <2>2. Shown(push).as = "push"
    BY <1>1, <1>5, <1>8, PushShown
  <2>3. \A d \in Clients : \A e \in Range(notify'[d]) : e \in Range(notify[d]) \/ e = Packed(push)
    <3>1. ASSUME NEW d \in Clients
          PROVE  \/ notify'[d] = notify[d]
                 \/ \E n \in Nat : notify'[d] = notify[d] \o [k \in 1 .. n |-> Packed(push)]
      <4>1. PICK n \in Nat : On(d) = 1 .. n
        BY <1>6
      <4>2. notify'[d] = notify[d] \/ notify'[d] = notify[d] \o [k \in On(d) |-> Packed(push)]
        BY <1>8
      <4>. QED
        BY <4>1, <4>2
    <3>. QED
      BY <1>0, <3>1, CopiesAdd
  <2>4. \A d \in Clients : \A e \in Range(notify'[d]) :
          e \in Range(notify[d]) \/ Shown(e.made).as = "push"
    BY <2>2, <2>3 DEF Packed
  <2>. QED
    BY <1>2, <1>4, <1>8, <2>1, <2>2, <2>4, AnswersOrder DEF Serving
<1>. QED
  BY <1>3, <1>7, <1>8

LEMMA ServeOrder ==
    ASSUME ProofInv, OrderInv, NEW c \in Clients, Serve(c)
    PROVE  OrderInv'
<1>1. PICK r : r = Head(requests[c])
  OBVIOUS
<1>2. PICK m : m = r.made
  OBVIOUS
<1>3. Serving(c, m)
  BY <1>1, <1>2 DEF Serve, Serving, clientVars
<1>4. Good(r)
  BY <1>1, <1>3, GoodIsSeq, TailRange, GoodElements DEF ProofInv, WiresInv, Serving
<1>5. CreateMessageFromJson(r.text) = m /\ m # NoMessage
  BY <1>2, <1>4, GoodMessage
<1>6. \/ HandleRegister(c, m) \/ HandleLogin(c, m) \/ HandleGetFriends(c, m)
      \/ HandlePrivateChat(c, m) \/ HandleGroupChat(c, m) \/ HandleLogout(c, m)
  BY <1>1, <1>5 DEF Serve
<1>. QED
  BY <1>3, <1>6, PlainOrder, PrivateOrder, GroupOrder
-----------------------------------------------------------------------------
LEMMA InitOrder == Init => OrderInv
<1>. SUFFICES ASSUME Init PROVE OrderInv
  OBVIOUS
<1>1. /\ decided = [c \in Clients |-> <<>>] /\ shown = [c \in Clients |-> <<>>]
      /\ replies = [c \in Clients |-> <<>>] /\ requests = [c \in Clients |-> <<>>]
      /\ typed = [c \in Clients |-> <<>>] /\ notify = [c \in Clients |-> <<>>] /\ hung = {}
  BY DEF Init
<1>2. IsSeq(<<>>) /\ Len(<<>>) = 0
  <2>1. <<>> \in Seq({})
    OBVIOUS
  <2>. QED
    BY <2>1 DEF IsSeq
<1>3. \A s : Answered(s, 0) = 0
  <2>1. \A s : {j \in 1 .. 0 : s[j].as = "answer"} = {}
    OBVIOUS
  <2>. QED
    BY <2>1, FS_EmptySet DEF Answered
<1>4. AllAnswered(Screen(<<>>, <<>>), Len(<<>>) + Len(<<>>), <<>>, <<>>)
  BY <1>2, <1>3 DEF AllAnswered
<1>5. Asked(<<>>, <<>>)
  BY <1>2 DEF Asked
<1>6. Orderly(<<>>, <<>>, <<>>, <<>>, <<>>, 0)
  BY <1>2, <1>4, <1>5 DEF Orderly
<1>7. \A c \in Clients : Lost(c) = 0
  BY <1>1 DEF Lost
<1>8. Range(<<>>) = {}
  BY DEF Range
<1>. QED
  BY <1>1, <1>6, <1>7, <1>8 DEF OrderInv

LEMMA StepOrder == ProofInv /\ OrderInv /\ [Next]_vars => OrderInv'
<1>. SUFFICES ASSUME ProofInv, OrderInv, [Next]_vars PROVE OrderInv'
  OBVIOUS
<1>1. CASE Next
  BY <1>1, TypeOrder, ReceiveOrder, ServeOrder, DeliverOrder DEF Next
<1>2. CASE UNCHANGED vars
  BY <1>2 DEF OrderInv, Lost, vars, clientVars, wireVars, serverVars
<1>. QED
  BY <1>1, <1>2

\* What OrderInv says of what is on a console now.
LEMMA OrderShown ==
    ASSUME OrderInv, NEW c \in Clients, NEW i \in DOMAIN shown[c], shown[c][i].as = "answer"
    PROVE  /\ AnswersLine(shown[c][i], Answered(shown[c], i), typed[c], decided[c])
           /\ Answered(shown[c], i) <= Len(decided[c])
           /\ Answered(shown[c], i) <= Len(typed[c])
<1>1. PICK s : s = shown[c]
  OBVIOUS
<1>2. PICK r : r = replies[c]
  OBVIOUS
<1>3. Orderly(s, r, requests[c], decided[c], typed[c], Lost(c)) /\ Lost(c) \in {0, 1}
  BY <1>1, <1>2 DEF OrderInv, Lost
<1>4. /\ IsSeq(s) /\ IsSeq(r)
      /\ AllAnswered(Screen(s, r), Len(s) + Len(r), typed[c], decided[c])
  BY <1>3 DEF Orderly
<1>5. Len(s) \in Nat /\ Len(r) \in Nat /\ i \in 1 .. Len(s)
  BY <1>1, <1>4, SeqFacts
<1>6. \A j \in 1 .. i : j \in 1 .. Len(s) + Len(r) /\ j <= Len(s)
  BY <1>5
<1>7. \A j \in 1 .. i : Screen(s, r)[j] = s[j]
  BY <1>6 DEF Screen
<1>8. Answered(Screen(s, r), i) = Answered(s, i) /\ Screen(s, r)[i] = s[i]
  BY <1>5, <1>7, CountSame
<1>9. AnswersLine(s[i], Answered(s, i), typed[c], decided[c])
  BY <1>1, <1>4, <1>5, <1>6, <1>8 DEF AllAnswered
<1>10. Answered(s, i) <= Len(decided[c]) /\ Answered(s, i) <= Len(typed[c])
  <2>1. PICK a : a = decided[c]
    OBVIOUS
  <2>2. PICK b : b = requests[c]
    OBVIOUS
  <2>3. PICK l : l = typed[c]
    OBVIOUS
  <2>4. IsSeq(a) /\ IsSeq(b) /\ Len(l) = Len(a) + Len(b) + Lost(c)
    BY <1>3, <2>1, <2>2, <2>3 DEF Orderly
  <2>5. Len(a) \in Nat /\ Len(b) \in Nat
    BY <2>4, SeqFacts
  <2>6. Len(a) <= Len(l)
    BY <1>3, <2>4, <2>5
  <2>7. PICK k : k = Answered(s, i)
    OBVIOUS
  <2>8. k \in 1 .. Len(a)
    BY <1>9, <2>1, <2>7 DEF AnswersLine
  <2>9. Len(l) \in Nat
    BY <1>3, <2>4, <2>5
  <2>10. k <= Len(a) /\ k <= Len(l)
    BY <2>5, <2>6, <2>8, <2>9
  <2>. QED
    BY <2>1, <2>3, <2>7, <2>10
<1>. QED
  BY <1>1, <1>9, <1>10

LEMMA OrderAlways == Spec => [](ProofInv /\ OrderInv)
BY InitProofInv, StepTrue, InitOrder, StepOrder, PTL DEF Spec

\* The answers on a console are of the types of its lines, in their order, whatever is
\* pushed between them: what messageCallback takes for an answer is one.
THEOREM ShownInOrderHolds == Spec => []ShownInOrder
<1>1. OrderInv => ShownInOrder
  <2>. SUFFICES ASSUME OrderInv, NEW c \in Clients, NEW i \in DOMAIN shown[c],
                       shown[c][i].as = "answer", NEW k, k = Answered(shown[c], i)
                PROVE  k <= Len(typed[c]) /\ shown[c][i].type = TypeOf(typed[c][k])
    BY DEF ShownInOrder
  <2>1. AnswersLine(shown[c][i], k, typed[c], decided[c])
    BY OrderShown
  <2>2. k <= Len(typed[c])
    BY OrderShown
  <2>. QED
    BY <2>1, <2>2 DEF AnswersLine
<1>. QED
  BY <1>1, OrderAlways, PTL

\* The outcome a console shows is the one the server has decided on for that line, except
\* for a group message without text.
THEOREM OutcomesTrueHolds == Spec => []OutcomesTrue
<1>1. OrderInv => OutcomesTrue
  BY OrderShown DEF OutcomesTrue, AnswersLine
<1>. QED
  BY <1>1, OrderAlways, PTL
=============================================================================
