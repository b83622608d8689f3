----------------------------- MODULE MCReaders -----------------------------
(***************************************************************************)
(* The two ends of a connection, for TLC: the behaviours of ClientReader   *)
(* and those of ServerReader, over the same messages.  The two directions  *)
(* share nothing, so a behaviour is of one end, `reader`, and leaves the   *)
(* other's variables alone.                                                *)
(***************************************************************************)
EXTENDS ClientReader

CONSTANT Ends    \* the ends to check

VARIABLES input, reading, processed,   \* those of ServerReader
          reader                       \* the end that reads

S == INSTANCE ServerReader

\* Bodies of one, two and five bytes; a message is JSON text, never empty.
Bodies == {<<1>>, <<2, 1>>, <<3, 0, 1, 2, 1>>}

serverVars == <<input, reading, processed>>
bothVars   == <<vars, serverVars, reader>>

BothInit ==
    /\ reader \in Ends
    /\ Init
    /\ S!Init

BothNext ==
    /\ \/ reader = "client" /\ Next /\ UNCHANGED serverVars
       \/ reader = "server" /\ S!Next /\ UNCHANGED readerVars
    /\ UNCHANGED reader

BothSpec ==
    /\ BothInit /\ [][BothNext]_bothVars
    /\ WF_bothVars(reader = "client" /\ ReaderStep /\ UNCHANGED <<serverVars, reader>>)
    /\ WF_bothVars(reader = "server" /\ S!ReaderStep /\ UNCHANGED <<readerVars, reader>>)
-----------------------------------------------------------------------------
Served(messages) == IF reader = "server" THEN messages ELSE <<>>

ServerChannel == INSTANCE MessageChannel
                   WITH Message <- Messages, sent <- Served(sent), delivered <- Served(processed)

\* However the bytes are cut into pieces, the server processes exactly what was sent, in
\* order, and all of it in the end (readCallback); where the client reads, nothing happens.
ServerImplementsChannel == ServerChannel!FairChanSpec

\* Between two calls of readCallback the server's buffer holds less than a message.
NothingLeftBehind == reader = "server" => S!NothingLeftBehind

\* The client handles all messages: several of them in one chunk, or one in many, keep
\* none of them waiting (receiveThreadFunc), until a chunk ends within a header.
AllHandled ==
    \A n \in 1 .. MaxMessages :
        reader = "client" /\ Len(sent) >= n ~> (Len(handled) >= n \/ cut)
=============================================================================
