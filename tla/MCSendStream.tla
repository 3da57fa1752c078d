---------------------------- MODULE MCSendStream ----------------------------
(* Instances of SendStream for TLC. *)
EXTENDS SendStream

\* A request one octet longer than a message (the usual 413: its last octet is
\* the first one the receiver has), one for the whole of a file of 5 octets, and
\* the empty one a receiver sends after it took the last octet.
MCRequests ==
  {[first |-> 1, last |-> 3], [first |-> 1, last |-> 5], [first |-> 6, last |-> 5]}

=============================================================================
