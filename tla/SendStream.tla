----------------------------- MODULE SendStream -----------------------------
(***************************************************************************)
(* The sending side of a file transfer (fast_msrp/lmsrp_stream_send.c, the *)
(* branch LM_STABLE == 1 that lmsrp_config.h selects).  Three threads of   *)
(* control share one lmsrp_send_stream and no lock:                        *)
(*                                                                         *)
(*   session  lmsrp_send_session: cuts the file into messages of ByteRead  *)
(*            octets and sends them; a pending resend goes first           *)
(*   handle   lmsrp_report_handle: reads the peer's reports, turns a 413   *)
(*            into resend slots, watches the clock, ends the session       *)
(*   app      the caller of lmsrp_send_stream_close                        *)
(*                                                                         *)
(* Every read and every write of `flag' that another thread can come       *)
(* between is a step of its own.  Octets are numbered from 1, as in the    *)
(* Byte-Range header.                                                      *)
(***************************************************************************)
EXTENDS Integers, Sequences

CONSTANTS
  Sizes,        \* octets the file may have
  ByteRead,     \* byte_read, also codec_size: octets one message carries
  InitSlots,    \* report slots at the start; in the code 10 less the list head
  Requests,     \* the ranges a 413 report may ask for
  MaxRequests   \* bound: 413 reports in one session

ASSUME SendAssumption ==
  /\ Sizes \subseteq Nat
  /\ ByteRead \in Nat \ {0}
  /\ InitSlots \in Nat
  /\ Requests \subseteq [first : Nat, last : Nat]
  /\ MaxRequests \in Nat

VARIABLES
  flag,      \* send->flag, shared by the three threads
  slots,     \* send->list without its head, oldest node first
  total,     \* octets of the file: what module->init returns
  spc,       \* where the session thread is
  start, end,\* the session's position in the file
  cur,       \* mess->byte_range of the message in the session's hands
  slot,      \* the report node being resent
  outcome,   \* which of module->close and module->suppend was called
  hpc,       \* where the handle thread is
  answer,    \* what module->get_report brought
  rest,      \* what is left to cut of the requested range
  res,       \* the free node the handle thread holds
  timer,     \* past: "off", "run" since the last gettimeofday, "late" after period
  requests,  \* 413 reports so far
  apc,       \* where the application is in lmsrp_send_stream_close
  out,       \* history: every range handed to module->send
  owed       \* history: octets asked for by a 413 and not resent since

sessionVars == <<total, spc, start, end, cur, slot, outcome>>
handleVars  == <<hpc, answer, rest, res, timer, requests>>
history     == <<out, owed>>
vars == <<flag, slots, sessionVars, handleVars, apc, history>>

Flag  == {"continue", "end", "wait", "suspend", "close"}
Piece == [first : Nat, last : Nat]
Slot  == [active : BOOLEAN, range : Piece]

NoPiece == [first |-> 0, last |-> 0]
Octets(r) == r.first .. r.last

\* Slip: the loops look for "close" only.
StoppedByCloseOnly == flag = "close"

\* The loops of both threads run while this is false.
Stopped == flag \in {"close", "suspend"}

\* What module->get_report can bring: st = 1, st = 0 with no octet, another st
\* with no octet, a message that is not a report the sender acts on, a 200 and
\* a 413.
Kind   == {"timeout", "broken", "error", "other", "ok", "resend"}
Answer == [kind : Kind, range : Piece]
Answers ==
  {[kind |-> k, range |-> NoPiece] : k \in Kind \ {"resend"}}
    \cup {[kind |-> "resend", range |-> r] : r \in Requests}

(***************************************************************************)
(* pj_list_search starts after the list head and new nodes are inserted    *)
(* right after it, so the search meets the newest node first.              *)
(***************************************************************************)
Found(i, a) ==
  /\ i \in DOMAIN slots
  /\ slots[i].active = a
  /\ \A j \in DOMAIN slots : j > i => slots[j].active # a

NoneFound(a) == \A i \in DOMAIN slots : slots[i].active # a

NewNode == [active |-> FALSE, range |-> NoPiece]

\* Slip: the new node is not inserted into the list.
GetFreeLotUnlinked ==
  \/ /\ \E i \in DOMAIN slots : Found(i, FALSE) /\ res' = i
     /\ UNCHANGED slots
  \/ /\ NoneFound(FALSE)
     /\ UNCHANGED slots
     /\ res' = Len(slots) + 1

\* Slip: a full list is used as a ring.
GetFreeLotRing ==
  /\ UNCHANGED slots
  /\ \/ \E i \in DOMAIN slots : Found(i, FALSE) /\ res' = i
     \/ NoneFound(FALSE) /\ res' = 1

\* am_sip_send_get_free_lot: a free node, or a new one put into the list.
GetFreeLot ==
  \/ /\ \E i \in DOMAIN slots : Found(i, FALSE) /\ res' = i
     /\ UNCHANGED slots
  \/ /\ NoneFound(FALSE)
     /\ slots' = Append(slots, NewNode)
     /\ res' = Len(slots) + 1

-----------------------------------------------------------------------------
\* lmsrp_send_stream_start: the slots are allocated and the session thread made.
Init ==
  /\ flag = "continue"
  /\ slots = [i \in 1 .. InitSlots |-> NewNode]
  /\ total \in Sizes /\ spc = "start" /\ start = 1 /\ end = 1
  /\ cur = NoPiece /\ slot = 0 /\ outcome = "none"
  /\ hpc = "none" /\ answer = [kind |-> "timeout", range |-> NoPiece]
  /\ rest = NoPiece /\ res = 0 /\ timer = "off" /\ requests = 0
  /\ apc = "idle"
  /\ out = {} /\ owed = {}

-----------------------------------------------------------------------------
(* The session thread.                                                     *)

\* Nothing to send: module->close and return, no handle thread is made.
SessionEmpty ==
  /\ spc = "start" /\ total = 0
  /\ spc' = "done" /\ outcome' = "close"
  /\ UNCHANGED <<flag, slots, total, start, end, cur, slot, handleVars, apc, history>>

SessionBegin ==
  /\ spc = "start" /\ total > 0
  /\ spc' = "test" /\ hpc' = "start"
  /\ UNCHANGED <<flag, slots, total, start, end, cur, slot, outcome,
                 answer, rest, res, timer, requests, apc, history>>

SessionTest ==
  /\ spc = "test"
  /\ spc' = IF Stopped THEN "exit" ELSE "pick"
  /\ UNCHANGED <<flag, slots, total, start, end, cur, slot, outcome,
                 handleVars, apc, history>>

\* am_sip_send_get_report found an active node.
PickResend ==
  /\ spc = "pick"
  /\ \E i \in DOMAIN slots :
       /\ Found(i, TRUE)
       /\ slot' = i
       /\ cur' = slots[i].range
  /\ spc' = "resend"
  /\ UNCHANGED <<flag, slots, total, start, end, outcome, handleVars, apc, history>>

PickNothing ==
  /\ spc = "pick"
  /\ NoneFound(TRUE)
  /\ spc' = IF end < total THEN "next" ELSE "test"
  /\ UNCHANGED <<flag, slots, total, start, end, cur, slot, outcome,
                 handleVars, apc, history>>

\* The message is sent and only then is the node given back.
Resend ==
  /\ spc = "resend"
  /\ out' = out \cup {cur}
  /\ owed' = owed \ Octets(cur)
  /\ slots' = [slots EXCEPT ![slot].active = FALSE]
  /\ spc' = "test"
  /\ UNCHANGED <<flag, total, start, end, cur, slot, outcome, handleVars, apc>>

\* Slip: the end is announced with the last but one message.
PastEndEarly(e) == e + ByteRead > total

\* The message that would end at octet e is the last and shorter.
PastEnd(e) == e > total

\* The next message of the first pass.  The flag is written without a look at
\* what the other threads wrote since SessionTest.
NextChunk ==
  /\ spc = "next"
  /\ LET e == start + ByteRead - 1
     IN  /\ end' = IF e > total THEN total ELSE e
         /\ flag' = IF PastEnd(e) THEN "end" ELSE flag
  /\ cur' = [first |-> start, last |-> end']
  /\ spc' = "send"
  /\ UNCHANGED <<slots, total, start, slot, outcome, handleVars, apc, history>>

\* Slip: the next message starts one octet late.
SendChunkSkip ==
  /\ spc = "send"
  /\ out' = out \cup {cur}
  /\ start' = end + 2
  /\ spc' = "test"
  /\ UNCHANGED <<flag, slots, total, end, cur, slot, outcome, handleVars, apc,
                 owed>>

SendChunk ==
  /\ spc = "send"
  /\ out' = out \cup {cur}
  /\ start' = start + ByteRead
  /\ spc' = "test"
  /\ UNCHANGED <<flag, slots, total, end, cur, slot, outcome, handleVars, apc,
                 owed>>

\* The flag is read again to choose between the two endings.
SessionExit ==
  /\ spc = "exit"
  /\ outcome' = IF flag = "suspend" THEN "suppend" ELSE "close"
  /\ spc' = "done"
  /\ UNCHANGED <<flag, slots, total, start, end, cur, slot, handleVars, apc, history>>

Session ==
  \/ SessionEmpty \/ SessionBegin \/ SessionTest \/ SessionExit
  \/ PickResend \/ PickNothing \/ Resend \/ NextChunk \/ SendChunk

-----------------------------------------------------------------------------
(* The handle thread.                                                      *)

\* lmsrp_send_stream_close leaves send->list NULL: a search after that faults.
Freed == apc = "done"

HandleStart ==
  /\ hpc = "start" /\ ~Freed
  /\ GetFreeLot
  /\ hpc' = "test"
  /\ UNCHANGED <<flag, sessionVars, answer, rest, timer, requests, apc, history>>

HandleFault ==
  /\ hpc \in {"start", "alloc", "realloc"} /\ Freed
  /\ hpc' = "crashed"
  /\ UNCHANGED <<flag, slots, sessionVars, answer, rest, res, timer, requests,
                 apc, history>>

HandleTest ==
  /\ hpc = "test"
  /\ hpc' = IF Stopped THEN "done" ELSE "poll"
  /\ UNCHANGED <<flag, slots, sessionVars, answer, rest, res, timer, requests,
                 apc, history>>

\* module->get_report returns.
Poll(a) ==
  /\ hpc = "poll"
  /\ a.kind = "resend" => requests < MaxRequests
  /\ answer' = a
  /\ requests' = IF a.kind = "resend" THEN requests + 1 ELSE requests
  /\ hpc' = "checkend"
  /\ UNCHANGED <<flag, slots, sessionVars, rest, res, timer, apc, history>>

\* flag == lmsrp_flag_end is read here and overwritten in SetWait.
CheckEnd ==
  /\ hpc = "checkend"
  /\ IF flag = "end"
       THEN hpc' = "setwait" /\ timer' = "run"
       ELSE hpc' = "checkwait" /\ UNCHANGED timer
  /\ UNCHANGED <<flag, slots, sessionVars, answer, rest, res, requests,
                 apc, history>>

SetWait ==
  /\ hpc = "setwait"
  /\ flag' = "wait"
  /\ hpc' = "checkwait"
  /\ UNCHANGED <<slots, sessionVars, answer, rest, res, timer, requests,
                 apc, history>>

\* Slip: the clock is looked at while the flag is "end".
TimeIsUpAtEnd == flag = "end" /\ timer = "late"

TimeIsUp == flag = "wait" /\ timer = "late"

CheckWait ==
  /\ hpc = "checkwait"
  /\ flag' = IF TimeIsUp THEN "suspend" ELSE flag
  /\ hpc' = "answer"
  /\ UNCHANGED <<slots, sessionVars, answer, rest, res, timer, requests,
                 apc, history>>

\* Nothing the sender acts on.
AnswerIdle ==
  /\ hpc = "answer" /\ answer.kind \in {"timeout", "error", "other"}
  /\ hpc' = "test"
  /\ UNCHANGED <<flag, slots, sessionVars, answer, rest, res, timer, requests,
                 apc, history>>

AnswerBroken ==
  /\ hpc = "answer" /\ answer.kind = "broken"
  /\ flag' = "suspend"
  /\ hpc' = "done"
  /\ UNCHANGED <<slots, sessionVars, answer, rest, res, timer, requests,
                 apc, history>>

AnswerOk ==
  /\ hpc = "answer" /\ answer.kind = "ok"
  /\ flag' = "close"
  /\ hpc' = "test"
  /\ UNCHANGED <<slots, sessionVars, answer, rest, res, timer, requests,
                 apc, history>>

AnswerResend ==
  /\ hpc = "answer" /\ answer.kind = "resend"
  /\ rest' = answer.range
  /\ owed' = owed \cup Octets(answer.range)
  /\ hpc' = "split"
  /\ UNCHANGED <<flag, slots, sessionVars, answer, res, timer, requests,
                 apc, out>>

\* Slip: the range is stored and the node not marked.
PublishUnmarked(r) == slots' = [slots EXCEPT ![res].range = r]

Publish(r) == slots' = [slots EXCEPT ![res] = [active |-> TRUE, range |-> r]]

\* Slip: the last piece takes what two messages carry.
MoreToCutLate == rest.first + 2 * ByteRead < rest.last

MoreToCut == rest.first + ByteRead < rest.last

\* while (start + codec_size < end): one node takes codec_size octets.
SplitMore ==
  /\ hpc = "split" /\ MoreToCut
  /\ Publish([first |-> rest.first, last |-> rest.first + ByteRead - 1])
  /\ rest' = [rest EXCEPT !.first = @ + ByteRead]
  /\ hpc' = "alloc"
  /\ UNCHANGED <<flag, sessionVars, answer, res, timer, requests, apc, history>>

\* What remains goes into one node, and the waiting period starts anew.
SplitLast ==
  /\ hpc = "split" /\ ~MoreToCut
  /\ Publish(rest)
  /\ timer' = "run"
  /\ hpc' = "realloc"
  /\ UNCHANGED <<flag, sessionVars, answer, rest, res, requests, apc, history>>

HandleAlloc ==
  /\ hpc \in {"alloc", "realloc"} /\ ~Freed
  /\ GetFreeLot
  /\ hpc' = IF hpc = "alloc" THEN "split" ELSE "test"
  /\ UNCHANGED <<flag, sessionVars, answer, rest, timer, requests, apc, history>>

Handle ==
  \/ HandleStart \/ HandleFault \/ HandleTest \/ HandleAlloc
  \/ CheckEnd \/ SetWait \/ CheckWait
  \/ AnswerIdle \/ AnswerBroken \/ AnswerOk \/ AnswerResend
  \/ SplitMore \/ SplitLast

Report == \E a \in Answers : Poll(a)

\* More than `period' seconds have passed since `past' was read.
Tick ==
  /\ timer = "run"
  /\ timer' = "late"
  /\ UNCHANGED <<flag, slots, sessionVars, hpc, answer, rest, res, requests,
                 apc, history>>

-----------------------------------------------------------------------------
(* lmsrp_send_stream_close, called at most once.                           *)

CloseCall ==
  /\ apc = "idle"
  /\ flag' = "suspend"
  /\ apc' = "look"
  /\ UNCHANGED <<slots, sessionVars, handleVars, history>>

\* if (send->thread_send_handle): set only once the session thread made it.
CloseLook ==
  /\ apc = "look"
  /\ apc' = IF hpc = "none" THEN "joinsession" ELSE "joinhandle"
  /\ UNCHANGED <<flag, slots, sessionVars, handleVars, history>>

CloseJoinHandle ==
  /\ apc = "joinhandle" /\ hpc = "done"
  /\ apc' = "joinsession"
  /\ UNCHANGED <<flag, slots, sessionVars, handleVars, history>>

CloseJoinSession ==
  /\ apc = "joinsession" /\ spc = "done"
  /\ apc' = "done"
  /\ UNCHANGED <<flag, slots, sessionVars, handleVars, history>>

Close == CloseLook \/ CloseJoinHandle \/ CloseJoinSession

\* Everything has returned: the model stutters instead of deadlocking.
Terminating ==
  /\ spc = "done" /\ hpc \in {"none", "done", "crashed"} /\ apc = "done"
  /\ UNCHANGED vars

-----------------------------------------------------------------------------
Next == Session \/ Handle \/ Report \/ Tick \/ CloseCall \/ Close \/ Terminating

\* Threads are scheduled, get_report returns, time passes; nobody has to close.
Fairness ==
  /\ WF_vars(Session)
  /\ WF_vars(Handle)
  /\ WF_vars(Report)
  /\ WF_vars(Tick)
  /\ WF_vars(Close)

Spec     == Init /\ [][Next]_vars
FairSpec == Spec /\ Fairness

-----------------------------------------------------------------------------
(* Properties.                                                             *)

\* Types, and the indices the session and the handle thread hold are nodes of
\* the list send->list.
TypeOK ==
  /\ flag \in Flag
  /\ slots \in Seq(Slot)
  /\ total \in Sizes
  /\ spc \in {"start", "test", "pick", "next", "send", "resend", "exit", "done"}
  /\ start \in Nat \ {0} /\ end \in Nat
  /\ cur \in Piece /\ slot \in 0 .. Len(slots)
  /\ outcome \in {"none", "suppend", "close"}
  /\ hpc \in {"none", "start", "test", "poll", "checkend", "setwait", "checkwait",
              "answer", "split", "alloc", "realloc", "done", "crashed"}
  /\ answer \in Answer /\ rest \in Piece /\ res \in 0 .. Len(slots)
  /\ timer \in {"off", "run", "late"} /\ requests \in Nat
  /\ apc \in {"idle", "look", "joinhandle", "joinsession", "done"}
  /\ out \in SUBSET Piece /\ owed \in SUBSET Nat

Sent(b) == \E m \in out : b \in Octets(m)

\* The first pass leaves no hole: every octet before the session's position was
\* handed to module->send, whatever resends came in between.
NoGap == \A b \in 1 .. total : b < start => Sent(b)

\* "end" and "wait" start the clock that ends the session: the flag has one of
\* these values only when every octet of the file was handed to module->send or
\* the message in the session's hands is the last one.
AnnouncedAllSent ==
  flag \in {"end", "wait"} =>
    \A b \in 1 .. total : Sent(b) \/ (spc = "send" /\ b \in Octets(cur))

\* What a 413 asks for is not forgotten while the handle thread cuts it into
\* nodes the session thread consumes: an octet not resent yet waits in an active
\* node or in the part still to be cut.
OwedTracked ==
  \A b \in owed :
    \/ \E i \in DOMAIN slots : slots[i].active /\ b \in Octets(slots[i].range)
    \/ hpc \in {"split", "alloc"} /\ b \in Octets(rest)

\* A node the handle thread published stays as it is until the session thread
\* has sent its range: am_sip_send_get_free_lot never gives out a node in use,
\* although the two threads share the list without a lock.
SlotKept ==
  [][\A i \in DOMAIN slots :
       slots[i].active =>
         \/ slots'[i] = slots[i]
         \/ spc = "resend" /\ slot = i /\ slots[i].range \in out']_vars

\* No message carries more than one octet beyond what the codec leaves room for.
\* (That one octet is there: Transfer shows what becomes of it.)
MessageBounded == \A m \in out : m.last - m.first < ByteRead + 1

\* While the session runs, an octet a 413 asked for is sent again: pending nodes
\* go before new messages, and the newest-first search starves none of them.
OwedServed == owed # {} ~> owed = {} \/ spc = "done"

\* Once the handle thread announced the end, both threads stop: by a 200, a
\* broken connection, or `period' seconds after the last 413.
WaitEnds == flag = "wait" ~> spc = "done" /\ hpc = "done"

\* A close after the first pass returns, although the handle thread may write
\* its "wait" over the caller's "suspend".
CloseAfterPassReturns ==
  flag = "suspend" /\ apc # "idle" /\ start > total ~> apc = "done"

-----------------------------------------------------------------------------
(* What the comments of the headers say and the code does not do.          *)

\* lmsrp_flag_suspend "breaks the session": a call of lmsrp_send_stream_close
\* ends.  NextChunk writes "end" over the caller's flag.
CloseReturns == apc # "idle" ~> apc = "done"

\* lmsrp_flag_end "announces the end of the packets": after the last octet of
\* the first pass the flag is no longer "continue".  NextChunk sets it only when
\* the last message is shorter than the others.
EndAnnounced == spc = "test" /\ start > total => flag # "continue"

\* The session's memory lives until the session is closed: the handle thread
\* does not use the list after lmsrp_send_stream_close returned.
NoUseAfterClose == hpc # "crashed"

=============================================================================
