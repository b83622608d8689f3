------------------------------ MODULE Streams ------------------------------
(***************************************************************************)
(* Pieces, packets or records, written one after the other to a stream of  *)
(* bytes that does not keep their boundaries.                              *)
(***************************************************************************)
EXTENDS Integers, Sequences

\* Where on the stream the first k pieces end.
Written(pieces) ==
    LET end[k \in 0 .. Len(pieces)] ==
          IF k = 0 THEN 0 ELSE end[k - 1] + Len(pieces[k])
    IN end
=============================================================================
