---------------------------- MODULE ServerReader ----------------------------
(***************************************************************************)
(* WorkerThread::readCallback: libevent appends what arrives to the input  *)
(* buffer of the bufferevent, and the callback takes whole messages off    *)
(* its front.                                                              *)
(***************************************************************************)
EXTENDS Framing

VARIABLES
    input,      \* the bufferevent's input evbuffer
    reading,    \* is readCallback running
    processed   \* what processMessage was called with, oldest first

readerVars == <<input, reading, processed>>
vars       == <<wireVars, readerVars>>

TypeOK ==
    /\ sent \in Seq(Messages)
    /\ wire \in Seq(Bytes)
    /\ input \in Seq(Bytes)
    /\ reading \in BOOLEAN
    /\ processed \in Seq(Seq(Bytes))

Init == WireInit /\ input = <<>> /\ reading = FALSE /\ processed = <<>>

\* Bytes arrive, and libevent calls readCallback.
Arrive ==
    /\ ~reading
    /\ \E n \in 1 .. Len(wire) :
         /\ input' = input \o SubSeq(wire, 1, n)
         /\ wire' = Drop(wire, n)
    /\ reading' = TRUE
    /\ UNCHANGED <<sent, processed>>

(* An if instead of the while. *)
StillReadingOnce == FALSE

\* After a message the loop looks at the buffer again.
StillReading == TRUE

\* Both conditions of the loop: a header, and all the bytes it announces.
WholeMessage ==
    /\ Len(input) >= HeaderSize
    /\ Len(input) >= HeaderSize + Length(input)

\* One turn of the loop: evbuffer_drain, evbuffer_remove, processMessage.
TakeMessage ==
    /\ reading /\ WholeMessage
    /\ LET end == HeaderSize + Length(input) IN
         /\ processed' = Append(processed, SubSeq(input, HeaderSize + 1, end))
         /\ input' = Drop(input, end)
    /\ reading' = StillReading
    /\ UNCHANGED wireVars

ReadDone ==
    /\ reading /\ ~WholeMessage
    /\ reading' = FALSE
    /\ UNCHANGED <<wireVars, input, processed>>

ReaderStep == Arrive \/ TakeMessage \/ ReadDone

Next == \/ SendMessage /\ UNCHANGED readerVars
        \/ ReaderStep

\* The network delivers and the worker's loop runs.
Spec     == Init /\ [][Next]_vars
FairSpec == Spec /\ WF_vars(ReaderStep)
-----------------------------------------------------------------------------
Channel == INSTANCE MessageChannel WITH Message <- Messages, delivered <- processed

\* However the bytes are cut into pieces, the server processes exactly what was
\* sent, in order, and all of it in the end.
ServerImplementsChannel == Channel!FairChanSpec

\* Nothing that has arrived whole waits for more bytes: between callbacks the
\* buffer holds less than one message, and it begins at a header.
NothingLeftBehind ==
    ~reading =>
      /\ ~WholeMessage
      /\ Len(processed) < Len(sent) =>
           LET next == Packet(sent[Len(processed) + 1])
           IN \A i \in DOMAIN input : i \in DOMAIN next /\ input[i] = next[i]
=============================================================================
