---------------------------- MODULE MCRecvStream ----------------------------
(* Instances of RecvStream for TLC. *)
EXTENDS RecvStream

\* For files of up to 3 octets: messages that follow each other, overlap, and
\* leave holes.
MCPieces ==
  {[first |-> 1, last |-> 2], [first |-> 2, last |-> 3], [first |-> 3, last |-> 3]}

=============================================================================
