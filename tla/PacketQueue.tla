----------------------------- MODULE PacketQueue -----------------------------
(***************************************************************************)
(* What the get thread and the parse thread of a receiver promise each     *)
(* other: packets wait in a queue and are parsed one at a time, each as it *)
(* came, while more of them come.                                          *)
(***************************************************************************)
EXTENDS Sequences

CONSTANT Packet

VARIABLES
  queue,   \* the packets that wait
  parsed   \* the packet being parsed, if there is one

vars == <<queue, parsed>>

Init == queue = <<>> /\ parsed = <<>>

Put ==
  /\ \E p \in Packet : queue' = Append(queue, p)
  /\ UNCHANGED parsed

Take ==
  /\ parsed = <<>> /\ queue # <<>>
  /\ parsed' = <<Head(queue)>> /\ queue' = Tail(queue)

Finish ==
  /\ parsed # <<>>
  /\ parsed' = <<>> /\ UNCHANGED queue

Next == Put \/ Take \/ Finish

Spec == Init /\ [][Next]_vars

=============================================================================
