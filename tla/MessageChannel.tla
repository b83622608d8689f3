--------------------------- MODULE MessageChannel ---------------------------
(***************************************************************************)
(* What both ends of a connection rely on: the messages written at one end *)
(* come out at the other, whole, in order, none missing and none twice.    *)
(* Modules ServerReader and ClientReader are the two implementations.      *)
(***************************************************************************)
EXTENDS Naturals, Sequences

CONSTANT Message     \* what can be sent

VARIABLES sent, delivered

chanVars == <<sent, delivered>>

ChanInit == sent = <<>> /\ delivered = <<>>

ChanSend ==
    /\ \E m \in Message : sent' = Append(sent, m)
    /\ UNCHANGED delivered

ChanDeliver ==
    /\ Len(delivered) < Len(sent)
    /\ delivered' = Append(delivered, sent[Len(delivered) + 1])
    /\ UNCHANGED sent

ChanSpec == ChanInit /\ [][ChanSend \/ ChanDeliver]_chanVars

FairChanSpec == ChanSpec /\ WF_chanVars(ChanDeliver)
=============================================================================
