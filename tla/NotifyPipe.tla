----------------------------- MODULE NotifyPipe -----------------------------
(***************************************************************************)
(* The notify socketpairs of the workers (server/server.cpp) as the byte   *)
(* streams they are: what addClient, notifySendMessage and stop write to a *)
(* worker, and how handleNotify takes it apart, one recv of at most        *)
(* ReadSize bytes at a time.  Module Connections has whole records in this *)
(* place; module ServerLifecycle runs the threads that use the streams.    *)
(* A descriptor and a length are one byte each here, four in the code.     *)
(***************************************************************************)
EXTENDS Streams, FiniteSets

CONSTANTS
    NumWorkers,   \* threadCount_
    Fds,          \* descriptors of clients
    Bodies,       \* JSON texts one worker sends for another's client
    ReadSize,     \* sizeof(buf) in handleNotify
    PipeBytes,    \* bytes a socketpair holds
    Faults        \* what may fail: "bufferevent" here, the others in ServerLifecycle

Workers == 0 .. NumWorkers - 1
Bytes   == 0 .. 255

ASSUME PipeAssumption ==
    /\ NumWorkers \in Nat \ {0}
    /\ Fds \subseteq Bytes
    /\ Bodies \subseteq Seq(Bytes)
    /\ \A body \in Bodies : Len(body) \in Bytes
    /\ ReadSize \in Nat \ {0}
    /\ PipeBytes \in Nat

VARIABLES
    pipe,      \* bytes written to each worker's socketpair and not yet received
    buf,       \* what handleNotify has received and not yet looked at
    running,   \* each worker's running_
    clients,   \* the keys of each worker's clients_
    refused,   \* the descriptors each worker has closed for want of a bufferevent
    sent,      \* history: the records written whole to each worker
    handled,   \* history: what each worker has taken for 'c', 's' and 'q' records
    cut        \* history: has a record been written in part or received in two parts

pipeVars == <<pipe, buf, running, clients, refused, sent, handled, cut>>

PipeInit ==
    /\ pipe = [w \in Workers |-> <<>>]
    /\ buf = [w \in Workers |-> <<>>]
    /\ running = [w \in Workers |-> FALSE]
    /\ clients = [w \in Workers |-> {}]
    /\ refused = [w \in Workers |-> {}]
    /\ sent = [w \in Workers |-> <<>>]
    /\ handled = [w \in Workers |-> <<>>]
    /\ cut = FALSE

\* The type bytes.
C == 99
S == 115
Q == 113

AddRecord(fd)        == <<C, fd>>
SendRecord(fd, body) == <<S, fd, Len(body)>> \o body
QuitRecord           == <<Q>>
-----------------------------------------------------------------------------
\* A non-blocking send to worker w.  The socketpair takes the record whole, or, when
\* it has no room for it, a part or nothing; no caller looks at the result.
Write(w, record) ==
    \/ /\ Len(pipe[w]) + Len(record) <= PipeBytes
       /\ pipe' = [pipe EXCEPT ![w] = @ \o record]
       /\ sent' = [sent EXCEPT ![w] = Append(@, record)]
       /\ UNCHANGED cut
    \/ /\ Len(pipe[w]) + Len(record) > PipeBytes
       /\ \E n \in 0 .. Len(record) - 1 :
            /\ n = 0 \/ Len(pipe[w]) + n <= PipeBytes
            /\ pipe' = [pipe EXCEPT ![w] = @ \o SubSeq(record, 1, n)]
            /\ cut' = (cut \/ n > 0)
       /\ UNCHANGED sent

\* Whether the first n bytes waiting for worker w end with a record.  What has been
\* written, minus what is still waiting behind them, tells.
EndsRecord(w, n) ==
    LET end == Written(sent[w])
    IN \E k \in 0 .. Len(sent[w]) : end[k] = end[Len(sent[w])] - Len(pipe[w]) + n

\* recv takes all that is there and fits the buffer.
Received(w) == IF Len(pipe[w]) < ReadSize THEN Len(pipe[w]) ELSE ReadSize

Recv(w) ==
    /\ buf[w] = <<>>
    /\ pipe[w] # <<>>
    /\ LET n == Received(w) IN
         /\ buf' = [buf EXCEPT ![w] = SubSeq(pipe[w], 1, n)]
         /\ pipe' = [pipe EXCEPT ![w] = SubSeq(@, n + 1, Len(@))]
         /\ cut' = (cut \/ ~ EndsRecord(w, n))
    /\ UNCHANGED <<running, clients, refused, sent, handled>>
-----------------------------------------------------------------------------
(* One turn of handleNotify's loop over what it has received. *)

Take(w, n) ==
    /\ buf' = [buf EXCEPT ![w] = SubSeq(@, n + 1, Len(@))]
    /\ handled' = [handled EXCEPT ![w] = Append(@, SubSeq(buf[w], 1, n))]
    /\ UNCHANGED <<pipe, sent, cut>>

Lose(w, n) ==
    /\ buf' = [buf EXCEPT ![w] = SubSeq(@, n + 1, Len(@))]
    /\ UNCHANGED <<pipe, running, clients, refused, sent, handled, cut>>

\* 'q': the loop over the buffer is left, and threadMain's will be.
TakeQuit(w) ==
    /\ buf[w] # <<>> /\ Head(buf[w]) = Q
    /\ buf' = [buf EXCEPT ![w] = <<>>]
    /\ handled' = [handled EXCEPT ![w] = Append(@, QuitRecord)]
    /\ running' = [running EXCEPT ![w] = FALSE]
    /\ UNCHANGED <<pipe, clients, refused, sent, cut>>

(* The bound one too strict. *)
WholeAddStrict(w) == buf[w] # <<>> /\ Head(buf[w]) = C /\ Len(buf[w]) > 2

WholeAdd(w) == buf[w] # <<>> /\ Head(buf[w]) = C /\ Len(buf[w]) >= 2

\* 'c': a bufferevent for the new connection, or, if there is none to be had, its end.
TakeAdd(w) ==
    /\ WholeAdd(w)
    /\ \/ /\ clients' = [clients EXCEPT ![w] = @ \cup {buf[w][2]}]
          /\ UNCHANGED refused
       \/ /\ "bufferevent" \in Faults
          /\ refused' = [refused EXCEPT ![w] = @ \cup {buf[w][2]}]
          /\ UNCHANGED clients
    /\ Take(w, 2)
    /\ UNCHANGED running

SendHeader(w) == buf[w] # <<>> /\ Head(buf[w]) = S /\ Len(buf[w]) >= 3

(* Forgetting that the length is that of the body only. *)
SendLengthShort(w) == buf[w][3]

SendLength(w) == 3 + buf[w][3]

\* 's': the body is written to the client, if it is still there.
TakeSend(w) ==
    /\ SendHeader(w)
    /\ SendLength(w) <= Len(buf[w])
    /\ Take(w, SendLength(w))
    /\ UNCHANGED <<running, clients, refused>>

\* "Incomplete send notification": the rest of the buffer is given up.
GiveUp(w) ==
    /\ SendHeader(w)
    /\ SendLength(w) > Len(buf[w])
    /\ Lose(w, Len(buf[w]))

\* A type byte that is not known, or without the descriptor that belongs to it.
SkipByte(w) ==
    /\ buf[w] # <<>> /\ Head(buf[w]) # Q
    /\ ~ WholeAdd(w) /\ ~ SendHeader(w)
    /\ Lose(w, 1)

HandleNotify(w) == TakeQuit(w) \/ TakeAdd(w) \/ TakeSend(w) \/ GiveUp(w) \/ SkipByte(w)
=============================================================================
