---------------------------- MODULE FileTransfer ----------------------------
(***************************************************************************)
(* What a transfer promises to the two users, whatever the network does:   *)
(* the copy grows by octets of the file in their places, the receiver      *)
(* accepts it only when it is whole, and the sender is told of success     *)
(* only when the receiver has accepted.                                    *)
(***************************************************************************)
EXTENDS Naturals

CONSTANT Sizes  \* octets the file may have

VARIABLES
  size,     \* octets of the file
  file,     \* the copy: the octet of the file that stands at each place, or 0
  verdict,  \* the receiver's end: "open", "done" or "fail"
  told      \* what the sending user was told: "open", "close" or "suppend"

vars == <<size, file, verdict, told>>

Complete == \A b \in 1 .. size : file[b] = b

Init ==
  /\ size \in Sizes
  /\ file = [b \in 1 .. size |-> 0]
  /\ verdict = "open" /\ told = "open"

\* Octets come to their places, and nothing that is there is spoilt.
Receive ==
  /\ verdict = "open"
  /\ \E S \in SUBSET (1 .. size) :
       file' = [b \in 1 .. size |-> IF b \in S THEN b ELSE file[b]]
  /\ UNCHANGED <<size, verdict, told>>

Accept ==
  /\ verdict = "open" /\ Complete
  /\ verdict' = "done"
  /\ UNCHANGED <<size, file, told>>

GiveUp ==
  /\ verdict = "open"
  /\ verdict' = "fail"
  /\ UNCHANGED <<size, file, told>>

\* Of an empty file the sender needs no answer.
SenderSucceeds ==
  /\ told = "open" /\ (verdict = "done" \/ size = 0)
  /\ told' = "close"
  /\ UNCHANGED <<size, file, verdict>>

SenderGivesUp ==
  /\ told = "open"
  /\ told' = "suppend"
  /\ UNCHANGED <<size, file, verdict>>

Next == Receive \/ Accept \/ GiveUp \/ SenderSucceeds \/ SenderGivesUp

Spec == Init /\ [][Next]_vars

=============================================================================
