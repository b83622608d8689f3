------------------------------ MODULE Framing ------------------------------
(***************************************************************************)
(* The wire format of one direction of a connection: a message is its      *)
(* length in HeaderSize bytes, high byte first, and its body, written by   *)
(* Client::sendMessage or WorkerThread::sendToClient.  TCP hands the bytes *)
(* over in pieces that have nothing to do with messages.                   *)
(***************************************************************************)
EXTENDS Streams

CONSTANTS
    HeaderSize,   \* sizeof(uint32_t)
    Base,         \* values of a byte
    Messages,     \* the bodies that may be sent
    MaxMessages   \* bound: messages sent

Bytes == 0 .. Base - 1

\* The weight of a header's i-th byte from the right is Weight[i - 1]; what headers
\* can denote is less than Weight[HeaderSize].
Weight[i \in 0 .. HeaderSize] == IF i = 0 THEN 1 ELSE Base * Weight[i - 1]

ASSUME FramingAssumption ==
    /\ HeaderSize \in Nat \ {0}
    /\ Base \in Nat \ {0, 1}
    /\ Messages \subseteq Seq(Bytes)
    /\ \A m \in Messages : Len(m) < Weight[HeaderSize]
    /\ MaxMessages \in Nat

VARIABLES
    sent,   \* the messages written so far
    wire    \* the bytes that have not arrived yet

wireVars == <<sent, wire>>

(* What a forgotten ntohl would compute. *)
LengthHostOrder(bytes) ==
    LET value[i \in 0 .. HeaderSize] ==
          IF i = 0 THEN 0 ELSE value[i - 1] + bytes[i] * Weight[i - 1]
    IN value[HeaderSize]

\* htonl and ntohl: digit i of n, and the number that HeaderSize digits denote.
Header(n) == [i \in 1 .. HeaderSize |-> (n \div Weight[HeaderSize - i]) % Base]
Length(bytes) ==
    LET value[i \in 0 .. HeaderSize] ==
          IF i = 0 THEN 0 ELSE Base * value[i - 1] + bytes[i]
    IN value[HeaderSize]

Packet(m) == Header(Len(m)) \o m

Drop(bytes, n) == SubSeq(bytes, n + 1, Len(bytes))

\* What the connection carries.
Packets(messages) == [k \in 1 .. Len(messages) |-> Packet(messages[k])]

WireInit == sent = <<>> /\ wire = <<>>

SendMessage ==
    /\ Len(sent) < MaxMessages
    /\ \E m \in Messages : sent' = Append(sent, m) /\ wire' = wire \o Packet(m)
=============================================================================
