------------------------------ MODULE Transfer ------------------------------
(***************************************************************************)
(* A whole transfer: the sender of lmsrp_stream_send.c and the receiver of *)
(* lmsrp_stream_recv.c, with a network between them that loses messages    *)
(* and reports, delivers messages twice and everything in any order.       *)
(*                                                                         *)
(* The threads of one end are the business of SendStream and RecvStream.   *)
(* Here a step is one round of a thread's loop, and what the two ends do   *)
(* to each other is looked at: the 413 reports, the clocks, the tries, and *)
(* the octets that arrive in the file.                                     *)
(***************************************************************************)
EXTENDS Integers

CONSTANTS
  Sizes,       \* octets the file may have
  SlowSizes,   \* those for which behaviours that are not calm are looked at
  ByteRead,    \* byte_read and codec_size of the sender
  RealLen,     \* realleng: octets the receiver's decode_buff has room for
  SendPeriod,  \* the sender ends when more ticks passed since the last 413
  RecvPeriod,  \* the receiver asks when more ticks passed without news
  FirstTries,  \* time = 7: how often it asks before the first message
  Tries,       \* time = 4: the same after a message
  MaxFaults,   \* bound: losses, duplicates and failed writes
  SlowFaults   \* the same bound in behaviours that are not calm

ASSUME TransferAssumption ==
  /\ Sizes \subseteq Nat /\ SlowSizes \subseteq Sizes
  /\ ByteRead \in Nat \ {0} /\ RealLen \in Nat \ {0}
  /\ SendPeriod \in Nat /\ RecvPeriod \in Nat
  /\ FirstTries \in Nat /\ Tries \in Nat
  /\ MaxFaults \in Nat /\ SlowFaults \in Nat

VARIABLES
  size,      \* total, sizeof_file
  calm,      \* nobody closes, no socket breaks, and the network is fast
  sflag,     \* sender: send->flag
  sstart, send,  \* sender: start and end of lmsrp_send_session
  pending,   \* sender: the ranges in the active nodes of send->list
  sclock,    \* sender: ticks since `past'
  told,      \* sender: which of module->close and module->suppend was called
  rflag,     \* receiver: sess->flag
  rstart, pre,   \* receiver: start and pre_start of lmsrp_get_handle
  held,      \* receiver: the messages in the ready data blocks
  time,      \* receiver: tries left
  rclock,    \* receiver: ticks since `past'
  ended,     \* receiver: lmsrp_get_handle has returned
  file,      \* the octet of the sender's file at each place of the copy, or 0
  buffer,    \* decode_buff, in the same way
  messages, reports,  \* on their way
  faults     \* how many may still come

sender   == <<sflag, sstart, send, pending, sclock, told>>
receiver == <<rflag, rstart, pre, held, time, rclock, ended, file, buffer>>
vars == <<size, calm, sender, receiver, messages, reports, faults>>

Range == [first : Nat, last : Nat]
NoRange == [first |-> 0, last |-> 0]
Octets(r) == r.first .. r.last

Stopped(f) == f \in {"close", "suspend"}

\* The two reports: 413 with a range, and 200.
Resend(r) == [kind |-> "resend", range |-> r]
Ok        == [kind |-> "ok", range |-> NoRange]

-----------------------------------------------------------------------------
Init ==
  /\ size \in Sizes /\ calm \in BOOLEAN /\ (calm \/ size \in SlowSizes)
  /\ sflag = "continue" /\ sstart = 1 /\ send = 1
  /\ pending = {} /\ sclock = 0 /\ told = "open"
  /\ rflag = "continue" /\ rstart = 1 /\ pre = 1
  /\ held = {} /\ time = FirstTries /\ rclock = 0 /\ ended = FALSE
  /\ file = [b \in 1 .. size |-> 0] /\ buffer = [i \in 1 .. RealLen |-> 0]
  /\ messages = {} /\ reports = {}
  /\ faults = IF calm THEN MaxFaults ELSE SlowFaults

-----------------------------------------------------------------------------
(* The sender.                                                             *)

\* Nothing to send: no handle thread is made.
SendEmpty ==
  /\ size = 0 /\ told = "open"
  /\ told' = "close"
  /\ UNCHANGED <<size, calm, sflag, sstart, send, pending, sclock, receiver,
                 messages, reports, faults>>

SessionRuns == size > 0 /\ told = "open" /\ ~Stopped(sflag)

\* What a 413 asked for goes first.
SendPending ==
  /\ SessionRuns
  /\ \E p \in pending :
       /\ messages' = messages \cup {p}
       /\ pending' = pending \ {p}
  /\ UNCHANGED <<size, calm, sflag, sstart, send, sclock, told, receiver, reports,
                 faults>>

\* Slip: the end is announced by a full last message only.
PastEndExact(e) == e = size

PastEnd(e) == e > size

\* The next message of the first pass.
SendNext ==
  /\ SessionRuns /\ pending = {} /\ send < size
  /\ LET e == sstart + ByteRead - 1
     IN  /\ send' = IF e > size THEN size ELSE e
         /\ sflag' = IF PastEnd(e) THEN "end" ELSE sflag
  /\ messages' = messages \cup {[first |-> sstart, last |-> send']}
  /\ sstart' = sstart + ByteRead
  /\ UNCHANGED <<size, calm, pending, sclock, told, receiver, reports, faults>>

SendExit ==
  /\ size > 0 /\ told = "open" /\ Stopped(sflag)
  /\ told' = IF sflag = "suspend" THEN "suppend" ELSE "close"
  /\ UNCHANGED <<size, calm, sflag, sstart, send, pending, sclock, receiver,
                 messages, reports, faults>>

Session == SendEmpty \/ SendPending \/ SendNext \/ SendExit

\* Slip: the period is over one tick too soon.
TimeIsUpSooner == sflag = "wait" /\ sclock >= SendPeriod

TimeIsUp == sflag = "wait" /\ sclock > SendPeriod

\* How a round of lmsrp_report_handle moves the flag, before the report is read.
FlagAfterLook ==
  CASE sflag = "end" -> "wait"
    [] TimeIsUp      -> "suspend"
    [] OTHER         -> sflag

ClockAfterLook == IF sflag = "end" THEN 0 ELSE sclock

\* The nodes a requested range is cut into: while (start + codec_size < end).
Cuts(r) ==
  LET starts == {r.first} \cup
                {s \in r.first + 1 .. r.last - 1 : (s - r.first) % ByteRead = 0}
  IN  {[first |-> s,
        last  |-> IF s + ByteRead < r.last THEN s + ByteRead - 1 ELSE r.last] :
          s \in starts}

handleFrame == <<size, calm, sstart, send, told, receiver, messages, faults>>

\* get_report brings nothing.
HandleIdle ==
  /\ SessionRuns
  /\ sflag' = FlagAfterLook /\ sclock' = ClockAfterLook
  /\ UNCHANGED <<pending, reports, handleFrame>>

HandleResend ==
  /\ SessionRuns
  /\ \E a \in reports :
       /\ a.kind = "resend"
       /\ pending' = pending \cup Cuts(a.range)
       /\ reports' = reports \ {a}
  /\ sflag' = FlagAfterLook /\ sclock' = 0
  /\ UNCHANGED handleFrame

HandleOk ==
  /\ SessionRuns
  /\ Ok \in reports
  /\ reports' = reports \ {Ok}
  /\ sflag' = "close" /\ sclock' = ClockAfterLook
  /\ UNCHANGED <<pending, handleFrame>>

Handle == HandleIdle \/ HandleResend \/ HandleOk

\* The application closes, or get_report finds the connection broken.
SenderStops ==
  /\ ~calm /\ SessionRuns
  /\ sflag' = "suspend"
  /\ UNCHANGED <<size, calm, sstart, send, pending, sclock, told, receiver, messages,
                 reports, faults>>

-----------------------------------------------------------------------------
(* The receiver.                                                           *)

receiveFrame == <<size, calm, sender>>

\* The get and the parse thread put a message into a data block.
Deliver ==
  /\ ~Stopped(rflag)
  /\ \E m \in messages : messages' = messages \ {m} /\ held' = held \cup {m}
  /\ UNCHANGED <<rflag, rstart, pre, time, rclock, ended, file, buffer, reports,
                 faults, receiveFrame>>

Running == ~ended /\ rstart < size + 1 /\ ~Stopped(rflag)

Takeable == {m \in held : m.first <= rstart}

\* start and pre_start as the message moves them, before it is written.
Advance(m) ==
  IF rstart < m.last + 1 THEN <<m.last + 1, rstart>> ELSE <<rstart, pre>>

Length(m) == m.last + 1 - m.first

\* codec->decode: the octets go into decode_buff, and when they do not fit,
\* decode_buff stays as it is and nobody looks at the status.
Decode(m) ==
  IF Length(m) <= RealLen
    THEN [i \in 1 .. RealLen |-> IF i <= Length(m) THEN m.first + i - 1 ELSE buffer[i]]
    ELSE buffer

\* What module->write leaves in the copy: it gets as many octets as were decoded,
\* realleng when none were.
Write(m, b) ==
  [o \in 1 .. size |->
     IF o \in Octets(m) /\ o - m.first < RealLen THEN b[o - m.first + 1] ELSE file[o]]

\* A message at or before the position is decoded and written.
Take(m) ==
  /\ Running /\ m \in Takeable
  /\ buffer' = Decode(m)
  /\ file' = Write(m, buffer')
  /\ rstart' = Advance(m)[1] /\ pre' = Advance(m)[2]
  /\ held' = held \ {m}
  /\ time' = Tries /\ rclock' = 0
  /\ UNCHANGED <<rflag, ended, messages, reports, faults, receiveFrame>>

\* Slip: the position is not taken back.
TakeFailsForward(m) ==
  /\ Running /\ m \in Takeable /\ faults > 0
  /\ buffer' = Decode(m)
  /\ reports' = reports \cup {Resend(m)}
  /\ pre' = Advance(m)[2] /\ rstart' = Advance(m)[1]
  /\ held' = held \ {m}
  /\ time' = Tries /\ rclock' = 0
  /\ faults' = faults - 1
  /\ UNCHANGED <<rflag, ended, file, messages, receiveFrame>>

\* module->write refuses it: it is asked for again at once.
TakeFails(m) ==
  /\ Running /\ m \in Takeable /\ faults > 0
  /\ buffer' = Decode(m)
  /\ reports' = reports \cup {Resend(m)}
  /\ pre' = Advance(m)[2] /\ rstart' = Advance(m)[2]
  /\ held' = held \ {m}
  /\ time' = Tries /\ rclock' = 0
  /\ faults' = faults - 1
  /\ UNCHANGED <<rflag, ended, file, messages, receiveFrame>>

\* min_start after a scan: the first octet of the messages beyond the hole.
IsMinStart(s) ==
  /\ s = size \/ \E m \in held : s = m.first
  /\ s <= size /\ \A m \in held : s <= m.first

\* Slip: the last octet of the file is never asked for.
HoleShort(s) == [first |-> rstart, last |-> s - 1]

Hole(s) == [first |-> rstart, last |-> s]

\* Slip: one question too many.
GivesUpLate(t) == t < -1

GivesUp(t) == t < 0

\* A period without news.
Ask ==
  /\ Running /\ Takeable = {} /\ rclock > RecvPeriod
  /\ \E s \in 1 .. size : IsMinStart(s) /\ reports' = reports \cup {Resend(Hole(s))}
  /\ rclock' = 0 /\ time' = time - 1
  /\ rflag' = IF GivesUp(time') THEN "suspend" ELSE rflag
  /\ UNCHANGED <<rstart, pre, held, ended, file, buffer, messages, faults,
                 receiveFrame>>

\* The loop ends: 200 when the position is past the end, whatever the flag is.
End ==
  /\ ~ended /\ (rstart = size + 1 \/ Stopped(rflag))
  /\ IF rstart = size + 1
       THEN reports' = reports \cup {Ok} /\ rflag' = "close"
       ELSE rflag' = "suspend" /\ UNCHANGED reports
  /\ ended' = TRUE
  /\ UNCHANGED <<rstart, pre, held, time, rclock, file, buffer, messages, faults,
                 receiveFrame>>

Receive == Ask \/ End \/ \E m \in held : Take(m) \/ TakeFails(m)

\* The application closes, or get_mess finds the connection broken.
ReceiverStops ==
  /\ ~calm /\ ~ended /\ ~Stopped(rflag)
  /\ rflag' = "suspend"
  /\ UNCHANGED <<rstart, pre, held, time, rclock, ended, file, buffer, messages,
                 reports, faults, receiveFrame>>

-----------------------------------------------------------------------------
(* The network and the time.                                               *)

\* What a slow network loses is what it does not deliver.
Lose ==
  /\ calm /\ faults > 0 /\ faults' = faults - 1
  /\ \/ /\ \E m \in messages : messages' = messages \ {m}
        /\ UNCHANGED reports
     \/ /\ \E a \in reports : reports' = reports \ {a}
        /\ UNCHANGED messages
  /\ UNCHANGED <<size, calm, sender, receiver>>

\* A message arrives and is still on its way.
Duplicate ==
  /\ faults > 0 /\ faults' = faults - 1
  /\ ~Stopped(rflag)
  /\ \E m \in messages : held' = held \cup {m}
  /\ UNCHANGED <<size, calm, sender, rflag, rstart, pre, time, rclock, ended, file,
                 buffer, messages, reports>>

\* No thread has anything to do but to look at its clock.
Quiet ==
  /\ SessionRuns =>
       pending = {} /\ send >= size /\ reports = {} /\ FlagAfterLook = sflag
  /\ Running => messages = {} /\ Takeable = {} /\ rclock <= RecvPeriod
  /\ ~Running => ended
  /\ Stopped(sflag) => told # "open"

\* Both clocks count up to the tick that matters.
Tick ==
  /\ calm => Quiet
  /\ sclock' = IF sclock > SendPeriod THEN sclock ELSE sclock + 1
  /\ rclock' = IF rclock > RecvPeriod THEN rclock ELSE rclock + 1
  /\ UNCHANGED <<size, calm, sflag, sstart, send, pending, told, rflag, rstart, pre,
                 held, time, ended, file, buffer, messages, reports, faults>>

-----------------------------------------------------------------------------
Next ==
  \/ Session \/ Handle \/ SenderStops
  \/ Deliver \/ Receive \/ ReceiverStops
  \/ Lose \/ Duplicate \/ Tick

\* Threads run, time passes, and what the network does not lose arrives.
Fairness ==
  /\ WF_vars(Session) /\ WF_vars(Handle)
  /\ WF_vars(Deliver) /\ WF_vars(Receive)
  /\ WF_vars(Tick)

Spec     == Init /\ [][Next]_vars
FairSpec == Spec /\ Fairness

-----------------------------------------------------------------------------
(* Properties.                                                             *)

\* A range of octets of the file.
Sane(r) == r \in Range /\ 1 <= r.first /\ r.first <= r.last /\ r.last <= size

\* Types; every range on its way, held or waiting is of the file, and what goes
\* into one message is at most one octet longer than a message.
TypeOK ==
  /\ size \in Sizes /\ calm \in BOOLEAN
  /\ sflag \in {"continue", "end", "wait", "suspend", "close"}
  /\ sstart \in Nat \ {0} /\ send \in Nat /\ sclock \in 0 .. SendPeriod + 1
  /\ told \in {"open", "close", "suppend"}
  /\ rflag \in {"continue", "suspend", "close"}
  /\ rstart \in 1 .. size + 1 /\ pre \in 1 .. rstart
  /\ time \in Int /\ time >= -1 /\ rclock \in 0 .. RecvPeriod + 1
  /\ ended \in BOOLEAN
  /\ file \in [1 .. size -> 0 .. size]
  /\ buffer \in [1 .. RealLen -> 0 .. size]
  /\ \A m \in messages \cup held \cup pending :
       Sane(m) /\ Length(m) <= ByteRead + 1
  /\ \A a \in reports : a = Ok \/ (a = Resend(a.range) /\ Sane(a.range))
  /\ faults \in Nat

Verdict == IF ~ended THEN "open" ELSE IF rflag = "close" THEN "done" ELSE "fail"

FT == INSTANCE FileTransfer WITH verdict <- Verdict

\* A transfer is a FileTransfer: octets come to their places and stay, a file is
\* accepted only when it is whole, the sender is told of success only then.
Implements == FT!Spec

\* A whole file arrives although messages, reports and writes fail, as long as
\* the network is fast and there are more tries than faults: also a file of one
\* octet, which the first pass does not send.
Completes == calm => <>(Verdict = "done")

\* The sender ends, whatever becomes of the 200, when it has announced the end:
\* the size is not a multiple of a message's.
SenderEnds == size % ByteRead # 0 /\ size > 1 => <>(told # "open")

\* On a fast network nobody gives up a transfer that can still succeed: the receiver
\* does not run out of tries before the file is whole, and the sender's period does not
\* end before the receiver has it all.
Patient == calm => Verdict # "fail" /\ (told = "suppend" => Verdict = "done")

-----------------------------------------------------------------------------
(* What the comments of the headers say and the code does not do.          *)

\* lmsrp_flag_close is the flag of a session that succeeded: the copy is the file.
\* A piece of codec_size + 1 octets does not fit into decode_buff.
CopyIsFile == Verdict = "done" => FT!Complete

=============================================================================
