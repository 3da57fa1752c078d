----------------------------- MODULE RecvStream -----------------------------
(***************************************************************************)
(* The receiving side of a file transfer (fast_msrp/lmsrp_stream_recv.c    *)
(* and the block lists of fast_msrp/lmsrp_frecv.c).  Three threads and the *)
(* caller of lmsrp_recv_stream_close share one lmsrp_recv_stream and no    *)
(* lock:                                                                   *)
(*                                                                         *)
(*   get     lmsrp_get_socket: takes packets from the transport, numbers   *)
(*           them and leaves them in receive blocks                        *)
(*   parse   session_stream_prase: takes the packets by number and exports *)
(*           the messages in them into data blocks                         *)
(*   handle  lmsrp_get_handle: scans the data blocks, writes the file,     *)
(*           sends the 413 and 200 reports                                 *)
(*                                                                         *)
(* A packet carries at most one message here; how a message is put         *)
(* together from several packets is the business of lmsrp_context.         *)
(***************************************************************************)
EXTENDS Integers, Sequences

CONSTANTS
  Sizes,       \* sizes the file may have
  Pieces,      \* the byte ranges messages may carry
  InitBlocks,  \* receive blocks at the start, and data blocks with their head
  FirstTries,  \* time = 7: periods without news before the first message
  Tries,       \* time = 4: the same after a message
  MaxPackets,  \* bound: packets in one session
  GrowthFails  \* whether a data block made later may be unusable (see Export)

ASSUME RecvAssumption ==
  /\ Sizes \subseteq Nat
  /\ Pieces \subseteq [first : Nat, last : Nat]
  /\ \A p \in Pieces : 1 <= p.first /\ p.first <= p.last
  /\ InitBlocks \in Nat \ {0}
  /\ FirstTries \in Nat /\ Tries \in Nat
  /\ MaxPackets \in Nat
  /\ GrowthFails \in BOOLEAN

VARIABLES
  flag,      \* sess->flag, shared by everybody
  size,      \* sess->sizeof_file
  rblocks,   \* sess->rblock: the packets
  blocks,    \* sess->block without its head, oldest node first: the messages
  gpc, gblk, gcount,    \* get: where it is, its block, its next number
  outcome,              \* get: the argument of module->close
  ppc, pblk, pcount,    \* parse: where it is, its block, its next number
  hpc, cursor,          \* handle: where it is, its place in the scan
  start, pre, minStart, \* handle: start, pre_start, min_start
  time, timer,          \* handle: time; past ("run" until period is over: "late")
  apc,       \* where the application is in lmsrp_recv_stream_close
  written,   \* octets module->write took
  asked,     \* ranges of the 413 reports sent
  okSent     \* a 200 was handed to module->send_report

getVars    == <<gpc, gblk, gcount, outcome>>
parseVars  == <<ppc, pblk, pcount>>
handleVars == <<hpc, cursor, start, pre, minStart, time, timer, written, asked,
                okSent>>
vars == <<flag, size, rblocks, blocks, getVars, parseVars, handleVars, apc>>

\* What the steps of one thread leave to the others.
getFrame    == <<size, blocks, parseVars, handleVars, apc>>
parseFrame  == <<flag, size, getVars, handleVars, apc>>
handleFrame == <<size, rblocks, getVars, parseVars, apc>>

NoPiece == [first |-> 0, last |-> 0]
Octets(r) == r.first .. r.last

\* A message: its byte range, and whether its end flag is '#' (its range is not
\* looked at then).
Message == [range : Pieces \cup {NoPiece}, abort : BOOLEAN]

RecvBlock == [state : {"free", "recv"}, count : Nat, mess : Message]
DataBlock == [state : {"free", "ready"}, mess : Message]

NoMess       == [range |-> NoPiece, abort |-> FALSE]
NewRecvBlock == [state |-> "free", count |-> 0, mess |-> NoMess]
NewDataBlock == [state |-> "free", mess |-> NoMess]

\* What a transport can bring for a file of this size.
Packets ==
  {[range |-> p, abort |-> FALSE] : p \in {q \in Pieces : q.last <= size}}
    \cup {NoMess, [range |-> NoPiece, abort |-> TRUE]}

\* Slip: the loops look for "close" only.
StoppedByCloseOnly == flag = "close"

\* The loops of the three threads run while this is false.
Stopped == flag \in {"close", "suspend"}

-----------------------------------------------------------------------------
\* lmsrp_recv_stream_start.
Init ==
  /\ flag = "continue" /\ size \in Sizes
  /\ rblocks = [i \in 1 .. InitBlocks |-> NewRecvBlock]
  /\ blocks = [i \in 1 .. InitBlocks - 1 |-> NewDataBlock]
  /\ gpc = "start" /\ gblk = 1 /\ gcount = 1 /\ outcome = "none"
  /\ ppc = "none" /\ pblk = 1 /\ pcount = 1
  /\ hpc = "none" /\ cursor = 0 /\ start = 1 /\ pre = 1 /\ minStart = size
  /\ time = FirstTries /\ timer = "run"
  /\ written = {} /\ asked = {} /\ okSent = FALSE
  /\ apc = "idle"

-----------------------------------------------------------------------------
(* The get thread.                                                         *)

\* module->init, then the two other threads are made.
GetStart ==
  /\ gpc = "start"
  /\ gpc' = "test" /\ hpc' = "test" /\ ppc' = "test"
  /\ UNCHANGED <<flag, size, rblocks, blocks, gblk, gcount, outcome, pblk, pcount,
                 cursor, start, pre, minStart, time, timer, written, asked, okSent,
                 apc>>

GetTest ==
  /\ gpc = "test"
  /\ gpc' = IF Stopped THEN "exit" ELSE "get"
  /\ UNCHANGED <<flag, rblocks, gblk, gcount, outcome, getFrame>>

\* module->get_mess returns with an error, a timeout for instance.
GetNothing ==
  /\ gpc = "get"
  /\ gpc' = "test"
  /\ UNCHANGED <<flag, rblocks, gblk, gcount, outcome, getFrame>>

\* block->size is 0: the socket is broken.
GetBroken ==
  /\ gpc = "get"
  /\ flag' = "suspend"
  /\ gpc' = "test"
  /\ UNCHANGED <<rblocks, gblk, gcount, outcome, getFrame>>

Numbered(m) == [state |-> "recv", count |-> gcount, mess |-> m]

\* Slip: the number is used again.
GetPacketSameNumber(m) ==
  /\ gpc = "get" /\ gcount <= MaxPackets
  /\ rblocks' = [rblocks EXCEPT ![gblk] = Numbered(m)]
  /\ gpc' = "pick"
  /\ UNCHANGED <<flag, gblk, gcount, outcome, getFrame>>

\* A packet is numbered and handed over.
GetPacket(m) ==
  /\ gpc = "get" /\ gcount <= MaxPackets
  /\ rblocks' = [rblocks EXCEPT ![gblk] = Numbered(m)]
  /\ gcount' = gcount + 1
  /\ gpc' = "pick"
  /\ UNCHANGED <<flag, gblk, outcome, getFrame>>

\* Slip: the search finds the block that was just filled.
GetFreeBlockSame ==
  /\ gpc = "pick"
  /\ gpc' = "test"
  /\ UNCHANGED <<flag, rblocks, gblk, gcount, outcome, getFrame>>

\* lmsrp_get_recv_free_block: some other free block, or a new one.
GetFreeBlock ==
  /\ gpc = "pick"
  /\ \/ /\ \E i \in DOMAIN rblocks :
             i # gblk /\ rblocks[i].state = "free" /\ gblk' = i
        /\ UNCHANGED rblocks
     \/ /\ \A i \in DOMAIN rblocks : i # gblk => rblocks[i].state # "free"
        /\ rblocks' = Append(rblocks, NewRecvBlock)
        /\ gblk' = Len(rblocks) + 1
  /\ gpc' = "test"
  /\ UNCHANGED <<flag, gcount, outcome, getFrame>>

\* The flag is read again to choose the argument of module->close.
GetExit ==
  /\ gpc = "exit"
  /\ outcome' = IF flag = "close" THEN "done" ELSE "fail"
  /\ gpc' = "done"
  /\ UNCHANGED <<flag, rblocks, gblk, gcount, getFrame>>

Get ==
  \/ GetStart \/ GetTest \/ GetNothing \/ GetBroken \/ GetFreeBlock \/ GetExit
  \/ \E m \in Packets : GetPacket(m)

-----------------------------------------------------------------------------
(* The parse thread.                                                       *)

ParseTest ==
  /\ ppc = "test"
  /\ ppc' = IF Stopped THEN "done" ELSE "look"
  /\ UNCHANGED <<rblocks, blocks, pblk, pcount, parseFrame>>

Awaited(i) == rblocks[i].state = "recv" /\ rblocks[i].count = pcount

\* lmsrp_get_recv_data_block: the block with the next number, if it is there.
ParseLook ==
  /\ ppc = "look"
  /\ \/ \E i \in DOMAIN rblocks : Awaited(i) /\ pblk' = i /\ ppc' = "export"
     \/ /\ \A i \in DOMAIN rblocks : ~Awaited(i)
        /\ ppc' = "test" /\ UNCHANGED pblk
  /\ UNCHANGED <<rblocks, blocks, pcount, parseFrame>>

NewestFree(i) ==
  /\ i \in DOMAIN blocks /\ blocks[i].state = "free"
  /\ \A j \in DOMAIN blocks : j > i => blocks[j].state # "free"

NoneFree == \A i \in DOMAIN blocks : blocks[i].state # "free"

\* Slip: a full list is used as a ring.
IntoBlockRing(b) ==
  \/ \E i \in DOMAIN blocks : NewestFree(i) /\ blocks' = [blocks EXCEPT ![i] = b]
  \/ NoneFree /\ blocks' = [blocks EXCEPT ![1] = b]

\* lmsrp_get_free_block and the copy into it.
IntoBlock(b) ==
  \/ \E i \in DOMAIN blocks : NewestFree(i) /\ blocks' = [blocks EXCEPT ![i] = b]
  \/ NoneFree /\ blocks' = Append(blocks, b)

\* export: the message goes into a data block, which the handle thread does not
\* look at until its state is "ready".  Nothing to export: nothing happens.
Export ==
  /\ ppc = "export"
  /\ LET m == rblocks[pblk].mess
     IN  IF m = NoMess THEN UNCHANGED blocks
                       ELSE IntoBlock([state |-> "ready", mess |-> m])
  /\ ppc' = "free"
  /\ UNCHANGED <<rblocks, pblk, pcount, parseFrame>>

\* export calls lmsrp_get_free_block with two of its three arguments: a block
\* made then has the size the register happens to hold, and when it is too
\* small or cannot be had the copy into it destroys the process: no thread takes
\* another step.
ExportFault ==
  /\ ppc = "export" /\ GrowthFails
  /\ rblocks[pblk].mess # NoMess /\ NoneFree
  /\ gpc' = "gone" /\ ppc' = "gone" /\ hpc' = "gone" /\ apc' = "gone"
  /\ UNCHANGED <<flag, size, rblocks, blocks, gblk, gcount, outcome, pblk, pcount,
                 cursor, start, pre, minStart, time, timer, written, asked, okSent>>

ParseFree ==
  /\ ppc = "free"
  /\ rblocks' = [rblocks EXCEPT ![pblk] = NewRecvBlock]
  /\ pcount' = pcount + 1
  /\ ppc' = "test"
  /\ UNCHANGED <<blocks, pblk, parseFrame>>

Parse == ParseTest \/ ParseLook \/ Export \/ ExportFault \/ ParseFree

-----------------------------------------------------------------------------
(* The handle thread.                                                      *)

HandleTest ==
  /\ hpc = "test"
  /\ IF start < size + 1 /\ ~Stopped
       THEN hpc' = "scan" /\ cursor' = Len(blocks)
       ELSE hpc' = "end" /\ UNCHANGED cursor
  /\ UNCHANGED <<flag, blocks, start, pre, minStart, time, timer, written, asked,
                 okSent, handleFrame>>

Ready(i) == i > 0 /\ blocks[i].state = "ready"

\* Blocks made during the scan come before the cursor and wait for the next one.
ScanPass ==
  /\ hpc = "scan"
  /\ IF cursor = 0
       THEN hpc' = "clock" /\ UNCHANGED cursor
       ELSE ~Ready(cursor) /\ cursor' = cursor - 1 /\ UNCHANGED hpc
  /\ UNCHANGED <<flag, blocks, start, pre, minStart, time, timer, written, asked,
                 okSent, handleFrame>>

\* A '#' message ends the session, and the thread at once.
ScanAbort ==
  /\ hpc = "scan" /\ Ready(cursor) /\ blocks[cursor].mess.abort
  /\ flag' = "suspend"
  /\ hpc' = "done"
  /\ UNCHANGED <<blocks, cursor, start, pre, minStart, time, timer, written, asked,
                 okSent, handleFrame>>

NotYet(r) == r.first > start

\* A message beyond the hole stays where it is.
ScanLater ==
  /\ hpc = "scan" /\ Ready(cursor) /\ ~blocks[cursor].mess.abort
  /\ LET r == blocks[cursor].mess.range
     IN  /\ NotYet(r)
         /\ minStart' = IF r.first < minStart THEN r.first ELSE minStart
  /\ cursor' = cursor - 1
  /\ UNCHANGED <<flag, blocks, hpc, start, pre, time, timer, written, asked, okSent,
                 handleFrame>>

\* start and pre_start as the message moves them, before it is written.
Advance(r) == IF start < r.last + 1 THEN <<r.last + 1, start>> ELSE <<start, pre>>

\* Slip: min_start is left as it was.
KeepMinStart == minStart

ResetMinStart == size

\* Slip: a failed write does not take the position back.
PositionAfterNoRevert(r, ok) == Advance(r)[1]

PositionAfter(r, ok) == IF ok THEN Advance(r)[1] ELSE Advance(r)[2]

\* A message at or before the position is written, and asked for again at once
\* when module->write fails.
ScanWrite(ok) ==
  /\ hpc = "scan" /\ Ready(cursor) /\ ~blocks[cursor].mess.abort
  /\ LET r == blocks[cursor].mess.range
     IN  /\ ~NotYet(r)
         /\ start' = PositionAfter(r, ok)
         /\ pre' = Advance(r)[2]
         /\ written' = IF ok THEN written \cup Octets(r) ELSE written
         /\ asked' = IF ok THEN asked ELSE asked \cup {r}
  /\ minStart' = ResetMinStart
  /\ time' = Tries /\ timer' = "run"
  /\ blocks' = [blocks EXCEPT ![cursor].state = "free"]
  /\ cursor' = cursor - 1
  /\ UNCHANGED <<flag, hpc, okSent, handleFrame>>

\* Slip: the number of tries is not looked at.
GaveUpNever(t) == FALSE

GaveUp(t) == t < 0

\* A period without news: the hole is asked for, up to the next message we have.
HandleClock ==
  /\ hpc = "clock"
  /\ IF timer = "late"
       THEN /\ asked' = asked \cup {[first |-> start, last |-> minStart]}
            /\ timer' = "run" /\ time' = time - 1
            /\ flag' = IF GaveUp(time') THEN "suspend" ELSE flag
       ELSE UNCHANGED <<asked, timer, time, flag>>
  /\ hpc' = "test"
  /\ UNCHANGED <<blocks, cursor, start, pre, minStart, written, okSent, handleFrame>>

\* Slip: the session is closed before the 200 is sent.
HandleEndEarly ==
  /\ hpc = "end"
  /\ IF start = size + 1
       THEN flag' = "close" /\ hpc' = "close"
       ELSE flag' = "suspend" /\ hpc' = "done"
  /\ UNCHANGED <<blocks, cursor, start, pre, minStart, time, timer, written, asked,
                 okSent, handleFrame>>

\* Slip: the session of an incomplete file is left open for the packets to come.
HandleEndReopens ==
  /\ hpc = "end"
  /\ IF start = size + 1
       THEN okSent' = TRUE /\ hpc' = "close" /\ UNCHANGED flag
       ELSE flag' = "continue" /\ hpc' = "done" /\ UNCHANGED okSent
  /\ UNCHANGED <<blocks, cursor, start, pre, minStart, time, timer, written, asked,
                 handleFrame>>

\* The file is complete: 200.  Otherwise the session is broken.
HandleEnd ==
  /\ hpc = "end"
  /\ IF start = size + 1
       THEN okSent' = TRUE /\ hpc' = "close" /\ UNCHANGED flag
       ELSE flag' = "suspend" /\ hpc' = "done" /\ UNCHANGED okSent
  /\ UNCHANGED <<blocks, cursor, start, pre, minStart, time, timer, written, asked,
                 handleFrame>>

HandleClose ==
  /\ hpc = "close"
  /\ flag' = "close"
  /\ hpc' = "done"
  /\ UNCHANGED <<blocks, cursor, start, pre, minStart, time, timer, written, asked,
                 okSent, handleFrame>>

Handle ==
  \/ HandleTest \/ ScanPass \/ ScanAbort \/ ScanLater
  \/ \E ok \in BOOLEAN : ScanWrite(ok)
  \/ HandleClock \/ HandleEnd \/ HandleClose

\* More than `period' seconds have passed since `past' was read.
Tick ==
  /\ timer = "run" /\ timer' = "late"
  /\ UNCHANGED <<flag, blocks, hpc, cursor, start, pre, minStart, time, written,
                 asked, okSent, handleFrame>>

-----------------------------------------------------------------------------
(* lmsrp_recv_stream_close: the threads are joined in this order; the two    *)
(* that the get thread makes are there once it has returned.               *)

CloseCall ==
  /\ apc = "idle"
  /\ flag' = "suspend" /\ apc' = "get"
  /\ UNCHANGED <<size, rblocks, blocks, getVars, parseVars, handleVars>>

CloseJoin ==
  /\ \/ apc = "get" /\ gpc = "done" /\ apc' = "handle"
     \/ apc = "handle" /\ hpc = "done" /\ apc' = "parse"
     \/ apc = "parse" /\ ppc = "done" /\ apc' = "done"
  /\ UNCHANGED <<flag, size, rblocks, blocks, getVars, parseVars, handleVars>>

AllDone == gpc = "done" /\ ppc = "done" /\ hpc = "done"

\* Everything has returned, or the process is gone: the model stutters.
Terminating == (ppc = "gone" \/ (AllDone /\ apc = "done")) /\ UNCHANGED vars

-----------------------------------------------------------------------------
Next == Get \/ Parse \/ Handle \/ Tick \/ CloseCall \/ CloseJoin \/ Terminating

\* Threads are scheduled, get_mess returns, time passes; nobody has to close.
Fairness ==
  /\ WF_vars(Get)
  /\ WF_vars(Parse)
  /\ WF_vars(Handle)
  /\ WF_vars(Tick)
  /\ WF_vars(CloseJoin)

Spec     == Init /\ [][Next]_vars
FairSpec == Spec /\ Fairness

-----------------------------------------------------------------------------
(* Properties.                                                             *)

\* Types, the indices the threads hold are blocks of their lists, and the tries
\* left never fall below the one that gives up.
TypeOK ==
  /\ flag \in {"continue", "suspend", "close"} /\ size \in Sizes
  /\ rblocks \in Seq(RecvBlock) /\ blocks \in Seq(DataBlock)
  /\ gpc \in {"start", "test", "get", "pick", "exit", "done", "gone"}
  /\ gblk \in DOMAIN rblocks /\ gcount \in Nat \ {0}
  /\ outcome \in {"none", "done", "fail"}
  /\ ppc \in {"none", "test", "look", "export", "free", "done", "gone"}
  /\ pblk \in DOMAIN rblocks /\ pcount \in Nat \ {0}
  /\ hpc \in {"none", "test", "scan", "clock", "end", "close", "done", "gone"}
  /\ cursor \in 0 .. Len(blocks)
  /\ start \in Nat \ {0} /\ pre \in Nat \ {0} /\ minStart \in Nat
  /\ time \in Int /\ time >= -1 /\ timer \in {"run", "late"}
  /\ written \in SUBSET Nat
  /\ asked \in SUBSET [first : Nat, last : Nat]
  /\ okSent \in BOOLEAN
  /\ apc \in {"idle", "get", "handle", "parse", "done", "gone"}

\* Packets are parsed in the order in which they came, none twice and none left
\* out: each number the get thread gave and the parse thread has not reached is
\* in exactly one block, and that block is not the one being filled.
PacketsInOrder ==
  /\ pcount <= gcount
  /\ \A n \in pcount .. gcount - 1 :
       \E i \in DOMAIN rblocks :
         /\ rblocks[i].state = "recv" /\ rblocks[i].count = n
         /\ (gpc \in {"test", "get"} => i # gblk)
         /\ \A j \in DOMAIN rblocks :
              rblocks[j].state = "recv" /\ rblocks[j].count = n => i = j

\* The packets the parse thread has not reached, by their numbers, and the one it
\* has in its hands.
Parsing       == ppc \in {"export", "free", "gone"}
FirstWaiting  == IF Parsing THEN pcount + 1 ELSE pcount
Carries(b, n) == b.state = "recv" /\ b.count = n
At(bs, n)     == CHOOSE i \in DOMAIN bs : \A j \in DOMAIN bs :
                   Carries(bs[j], n) => Carries(bs[i], n)

Waiting == [k \in 1 .. gcount - FirstWaiting |->
              rblocks[At(rblocks, FirstWaiting + k - 1)].mess]
InHands == IF Parsing THEN <<rblocks[pblk].mess>> ELSE <<>>

Queue == INSTANCE PacketQueue WITH Packet <- Message, queue <- Waiting, parsed <- InHands

\* The blocks, found by state and number in no particular order and changed by two
\* threads, are a queue: no packet is written over while it waits or is parsed.
ImplementsQueue == Queue!Spec

\* The octets before the receiver's position are in the file, although messages
\* come in any order, overlap, come twice and are refused by module->write, and
\* the position is taken back to what it was before the last advance.
PrefixWritten ==
  /\ \A b \in 1 .. start - 1 : b \in written
  /\ pre <= start

\* A 200 is sent, the flag says "close" and the user is told "done" only for a
\* complete file whose sender was told 200.
OkMeansComplete ==
  okSent \/ flag = "close" \/ outcome = "done" =>
    okSent /\ 1 .. size \subseteq written

\* A 413 asks for octets of the file, or for none: never for a range that ends
\* before the octet in front of it.
ReportSane == \A r \in asked : r.last <= size /\ r.first <= r.last + 1

\* A message the parse thread made ready stays until the handle thread has taken
\* it, although both change the list without a lock.
BlockKept ==
  [][\A i \in DOMAIN blocks :
       blocks[i].state = "ready" =>
         \/ blocks'[i] = blocks[i]
         \/ hpc = "scan" /\ cursor = i]_vars

\* Once stopped, the session stays stopped: no thread writes an older value over
\* a flag that ends the loops.
StopIsFinal == [][Stopped => Stopped']_vars

\* The receiver does not wait for ever: with no more packets it asks a few times
\* and gives up, and every thread returns (or the process is gone, ExportFault).
ReceiverEnds == <>(AllDone \/ ppc = "gone")

\* A call of lmsrp_recv_stream_close returns, however early it comes.
CloseReturns == apc # "idle" ~> apc \in {"done", "gone"}

-----------------------------------------------------------------------------
(* What a comment of the headers says and the code does not do.            *)

\* lmsrp_recv_module.close "reports done [0] or fail [1]": a file acknowledged
\* with 200 is reported as done.  GetBroken and CloseCall write over the flag.
OkIsReportedDone == okSent => outcome # "fail"

=============================================================================
