---------------------------- MODULE ClientReader ----------------------------
(***************************************************************************)
(* Client::receiveThreadFunc: the client's own framing, over chunks of at  *)
(* most BufferSize bytes that recv returns.  The loop over a chunk is one  *)
(* step per turn.                                                          *)
(***************************************************************************)
EXTENDS Framing

CONSTANT BufferSize    \* BUFFER_SIZE

ASSUME ClientReaderAssumption == BufferSize \in Nat \ {0}

VARIABLES
    chunk,           \* what is left of buffer[i .. bytesRead)
    readingHeader, expectedLength, messageBuffer,
    handled,         \* what handleMessage was called with, oldest first
    aborted,         \* has an exception ended the process
    cut              \* history: has a chunk ended within a header

readerVars == <<chunk, readingHeader, expectedLength, messageBuffer, handled, aborted, cut>>
vars       == <<wireVars, readerVars>>

TypeOK ==
    /\ sent \in Seq(Messages)
    /\ wire \in Seq(Bytes)
    /\ chunk \in Seq(Bytes) /\ Len(chunk) <= BufferSize
    /\ readingHeader \in BOOLEAN
    /\ expectedLength \in Nat
    /\ messageBuffer \in Seq(Bytes)
    /\ handled \in Seq(Seq(Bytes))
    /\ aborted \in BOOLEAN /\ cut \in BOOLEAN

Init ==
    /\ WireInit
    /\ chunk = <<>> /\ readingHeader = TRUE /\ expectedLength = 0
    /\ messageBuffer = <<>> /\ handled = <<>>
    /\ aborted = FALSE /\ cut = FALSE

\* Does a chunk of the next n bytes of the wire end within a header?  What has
\* been written to the connection so far, minus what is still on the wire, tells.
InHeader(n) ==
    LET start == Written(Packets(sent))
        at    == start[Len(sent)] - Len(wire) + n
    IN \E k \in 1 .. Len(sent) : start[k - 1] < at /\ at < start[k - 1] + HeaderSize

Recv ==
    /\ ~aborted /\ chunk = <<>>
    /\ \E n \in 1 .. Len(wire) :
         /\ n <= BufferSize
         /\ cut' = (cut \/ InHeader(n))
         /\ chunk' = SubSeq(wire, 1, n)
         /\ wire' = Drop(wire, n)
    /\ UNCHANGED <<sent, readingHeader, expectedLength, messageBuffer, handled,
                   aborted>>

(* A header that ends with its chunk is taken for incomplete; and forgetting that
   the next message may be in the same chunk. *)
HeaderCompleteBefore == Len(chunk) > HeaderSize
BytesToCopyAll == Len(chunk)

\* The chunk holds all the bytes of the header.
HeaderComplete == Len(chunk) >= HeaderSize

ReadHeader ==
    /\ chunk # <<>> /\ readingHeader
    /\ HeaderComplete
    /\ expectedLength' = Length(chunk)
    /\ chunk' = Drop(chunk, HeaderSize)
    /\ readingHeader' = FALSE
    /\ messageBuffer' = <<>>
    /\ UNCHANGED <<wireVars, handled, aborted, cut>>

\* An incomplete header: the loop is left, and what the chunk still held with it.
BreakHeader ==
    /\ chunk # <<>> /\ readingHeader
    /\ ~HeaderComplete
    /\ chunk' = <<>>
    /\ UNCHANGED <<wireVars, readingHeader, expectedLength, messageBuffer, handled,
                   aborted, cut>>

\* static_cast<int> of an unsigned number of HeaderSize digits.
Signed(n) == IF 2 * n >= Weight[HeaderSize] THEN n - Weight[HeaderSize] ELSE n

\* The bytes of the chunk that belong to the current message.
BytesToCopy ==
    LET missing == Signed(expectedLength - Len(messageBuffer))
    IN IF Len(chunk) < missing THEN Len(chunk) ELSE missing

ReadBody ==
    /\ ~aborted /\ chunk # <<>> /\ ~readingHeader
    /\ BytesToCopy >= 0
    /\ LET body == messageBuffer \o SubSeq(chunk, 1, BytesToCopy) IN
         /\ messageBuffer' = body
         /\ readingHeader' = (Len(body) = expectedLength)
         /\ handled' = IF Len(body) = expectedLength THEN Append(handled, body) ELSE handled
    /\ chunk' = Drop(chunk, BytesToCopy)
    /\ UNCHANGED <<wireVars, expectedLength, aborted, cut>>

\* append with a negative count throws, and the thread has no handler.
AppendThrows ==
    /\ ~aborted /\ chunk # <<>> /\ ~readingHeader
    /\ BytesToCopy < 0
    /\ aborted' = TRUE
    /\ UNCHANGED <<wireVars, chunk, readingHeader, expectedLength, messageBuffer, handled,
                   cut>>

ReaderStep == Recv \/ ReadHeader \/ BreakHeader \/ ReadBody \/ AppendThrows

Next == \/ SendMessage /\ UNCHANGED readerVars
        \/ ReaderStep

\* The network delivers and the thread runs.
Spec     == Init /\ [][Next]_vars
FairSpec == Spec /\ WF_vars(ReaderStep)
-----------------------------------------------------------------------------
Channel == INSTANCE MessageChannel WITH Message <- Messages, delivered <- handled

\* The client handles exactly what the server sent, in order, and all of it in
\* the end: an incomplete header waits for more data (client.cpp:272).
ClientImplementsChannel == Channel!FairChanSpec

\* As long as no chunk has ended within a header, the receiver knows where it is in
\* the stream: it has handled the messages sent so far in order, and while it reads
\* another, its header and the bytes so far are those of the next message.
InStep ==
    ~cut =>
      /\ Len(handled) <= Len(sent)
      /\ \A i \in DOMAIN handled : handled[i] = sent[i]
      /\ ~readingHeader =>
           /\ Len(handled) < Len(sent)
           /\ LET next == sent[Len(handled) + 1] IN
                /\ expectedLength = Len(next)
                /\ messageBuffer = SubSeq(next, 1, Len(messageBuffer))

\* expectedLength - messageBuffer.size(), an unsigned subtraction, never wraps
\* (client.cpp:278), not even when the client has lost its place in the stream.
NeverOverfull == ~readingHeader => Len(messageBuffer) <= expectedLength

\* A length that does not fit an int is only ever read where no header is: bytes of
\* a body are taken for one after a chunk has ended within a header.
AbortsOnlyCut == aborted => cut
=============================================================================
