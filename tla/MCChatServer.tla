---------------------------- MODULE MCChatServer ----------------------------
(* Instances of ChatServer and its properties for TLC. *)
EXTENDS ChatProperties

CONSTANTS c1, c2, c3, f1, f2, f3, a, b, p1, p2

Ask(op, u, pw) == [op |-> op, user |-> u, pw |-> pw]
Sign(op, u)    == Ask(op, u, p1)
Plain(op)      == Ask(op, NoUser, NoPw)
Private(u)     == Ask("private", u, NoPw)

\* Each connection its own descriptor, or any that is free.
OwnFd == [c \in Conns |-> IF c = c1 THEN {f1} ELSE IF c = c2 THEN {f2} ELSE {f3}]
AnyFd == [c \in Conns |-> Fds]
\* c3 gets a fresh one, or the one that c2 has left.
ReturnFd == [c \in Conns |-> IF c = c1 THEN {f1} ELSE IF c = c2 THEN {f2} ELSE {f2, f3}]

\* Who has an account at first start.
Everyone == [u \in Users |-> p1]
OnlyA    == [u \in Users |-> IF u = a THEN p1 ELSE NoPw]

\* c1 speaks for a, everybody else for b.
Self(c)  == IF c = c1 THEN a ELSE b
Other(c) == IF c = c1 THEN b ELSE a

AskChat     == [c \in Conns |-> {Sign("login", Self(c)), Private(Other(c)),
                                 Plain("group"), Plain("logout")}]
\* Everything there is to ask.  Both clients register b, with different passwords,
\* and c2 may also try the other's.
AskAnything == [c \in Conns |->
                  IF c = c1
                  THEN {Sign("login", a), Ask("register", b, p2), Private(b), Plain("friends")}
                  ELSE {Sign("register", b), Sign("login", b), Ask("login", b, p2),
                        Plain("group"), Plain("logout")}]
\* b comes with c2 and, before or after that one has gone, with c3, whose user may mistype.
AskReturn   == [c \in Conns |->
                  IF c = c1 THEN {Sign("login", a), Private(b), Plain("group")}
                  ELSE IF c = c2 THEN {Sign("login", b)}
                  ELSE {Sign("login", b), Ask("login", b, p2), Plain("logout")}]
AskPrivate  == [c \in Conns |-> {Sign("login", Self(c)), Private(Other(c))}]
=============================================================================
