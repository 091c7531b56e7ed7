------------------------------- MODULE MCQueue -------------------------------
(***************************************************************************)
(* Two connections and a queue of two batches.                             *)
(***************************************************************************)
EXTENDS BatchQueue

CONSTANTS c1, c2

Data(keep) == [kind |-> "data", keep |-> keep]
Empty(keep) == [kind |-> "empty", keep |-> keep]

\* Streams that stay (stream_send_batch), that end with a last batch (the edge
\* generators), that are interrupted by a broken message or an empty batch.
MCStreams ==
  {[c \in Conns |-> IF c = c1 THEN x ELSE y] :
     x \in {<<Data(TRUE), Data(TRUE), Data(TRUE)>>, <<Data(TRUE), Bad, Data(FALSE)>>},
     y \in {<<Data(TRUE), Empty(TRUE), Data(TRUE)>>, <<Data(TRUE), Data(FALSE)>>, <<Empty(FALSE)>>}}
==============================================================================
