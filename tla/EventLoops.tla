----------------------------- MODULE EventLoops -----------------------------
(***************************************************************************)
(* The connection layer of module Connections run by the threads that      *)
(* execute it: each worker's event loop takes one callback at a time, and  *)
(* a handler that waits for itself (handlePrivateChat to a client of the   *)
(* same worker) never comes back to it.                                    *)
(***************************************************************************)
EXTENDS Connections

VARIABLE hung    \* the workers caught in such a handler

loopVars == <<connVars, hung>>

LoopInit == ConnInit /\ hung = {}
-----------------------------------------------------------------------------
\* The loop of worker w can run.
Loops(w) == up /\ w \notin hung

MainTurn ==
    /\ (\E c \in Conns : Accept(c)) \/ RegisterFd \/ Start
    /\ UNCHANGED hung

\* A callback of worker w on its socketpair.
NotifyTurn(w) ==
    /\ Loops(w)
    /\ HandleAdd(w) \/ RefuseAdd(w) \/ HandleSend(w)
    /\ UNCHANGED hung

\* A handler of worker v forwards a message.
ForwardTurn(v) ==
    /\ Loops(v)
    /\ clients[v] # {}
    /\ \E w \in Workers, fd \in Fds, msg \in Msgs : NotifySendMessage(w, fd, msg)
    /\ UNCHANGED hung

CloseTurn(w) ==
    /\ Loops(w)
    /\ \E fd \in Fds : RemoveClient(w, fd)
    /\ UNCHANGED hung

\* A private message to a user whose client is one of the same worker, the sender
\* itself for one: sendToClient waits for the mutex that its caller holds.
Hang(w) ==
    /\ Loops(w)
    /\ clients[w] # {}
    /\ hung' = hung \cup {w}
    /\ UNCHANGED connVars

LoopCrash == Crash /\ hung' = {}

LoopNext ==
    \/ MainTurn
    \/ \E w \in Workers : NotifyTurn(w) \/ ForwardTurn(w) \/ CloseTurn(w) \/ Hang(w)
    \/ LoopCrash

LoopSpec == LoopInit /\ [][LoopNext]_loopVars

\* The loops that can run do: a worker drains its socketpair, and the main thread
\* finishes a dispatch it began.  A hung worker has no turn to be fair to.
FairLoopSpec ==
    /\ LoopSpec
    /\ WF_loopVars(RegisterFd /\ UNCHANGED hung)
    /\ \A w \in Workers : WF_loopVars(NotifyTurn(w))
-----------------------------------------------------------------------------
\* A connection that has been announced to a worker ends up in its clients_ or is
\* closed, unless its worker hangs: handleNotify takes every record off the
\* socketpair, in order, whatever other workers keep sending.
AcceptedIsServed ==
    \A w \in Workers, fd \in Fds :
      (\E i \in 1 .. Len(pipe[w]) : Pending(fd, w, i))
      ~> (fd \in clients[w] \/ sock[fd] = NoConn \/ w \in hung)
=============================================================================
