-------------------------- MODULE RecvStreamProofs --------------------------
(***************************************************************************)
(* Proofs about RecvStream for every file size, set of messages, number of *)
(* blocks and number of tries.  The inductive invariant has four parts:    *)
(* the blocks, the receiver's position, the tries and the ending.  The     *)
(* last section shows that the blocks implement PacketQueue.               *)
(***************************************************************************)
EXTENDS RecvStream, TLAPS

(***************************************************************************)
(* The packets in the receive blocks are numbered without repetition from  *)
(* the parse thread's number to the get thread's.  The get thread fills a  *)
(* free block and the parse thread's block is not free.                    *)
(***************************************************************************)
Held(i) == rblocks[i].state = "recv"

BlockInv ==
  /\ pcount <= gcount
  /\ \A i \in DOMAIN rblocks :
       Held(i) => rblocks[i].count \in pcount .. gcount - 1 /\ rblocks[i].mess \in Packets
  /\ \A i, j \in DOMAIN rblocks :
       Held(i) /\ Held(j) /\ rblocks[i].count = rblocks[j].count => i = j
  /\ \A n \in pcount .. gcount - 1 :
       \E i \in DOMAIN rblocks : Held(i) /\ rblocks[i].count = n
  /\ gpc \in {"start", "test", "get"} => ~Held(gblk)
  /\ ppc \in {"export", "free"} => Held(pblk) /\ rblocks[pblk].count = pcount

(***************************************************************************)
(* The position: messages in the data blocks belong to the file, the       *)
(* prefix is written, and min_start is the end of the file or beyond the   *)
(* position.                                                               *)
(***************************************************************************)
ReadyInFile ==
  \A i \in DOMAIN blocks :
    blocks[i].state = "ready" => blocks[i].mess \in Packets \ {NoMess}

PositionInv ==
  /\ ReadyInFile
  /\ PrefixWritten
  /\ start <= size + 1
  /\ minStart <= size /\ (minStart = size \/ start < minStart)
  /\ ReportSane

\* The handle thread that used up its tries has stopped the session.
TriesInv == time < 0 => Stopped /\ hpc \notin {"none", "scan", "clock"}

\* Nobody says "close" or "done" before the 200, and the 200 is the last thing
\* the handle thread does with the file.
EndInv ==
  /\ gpc = "start" => hpc = "none"
  /\ okSent => start = size + 1 /\ hpc \in {"close", "done", "gone"}
  /\ hpc = "close" \/ flag = "close" \/ outcome = "done" => okSent

IInv == TypeOK /\ BlockInv /\ PositionInv /\ TriesInv /\ EndInv

-----------------------------------------------------------------------------
(* Types.                                                                  *)

\* What a packet carries is a message, and a message that is exported and does
\* not end the session has a byte range within the file.
LEMMA PacketLemma ==
  ASSUME NEW m \in Packets
  PROVE  /\ m \in Message
         /\ m # NoMess /\ ~m.abort =>
              m.range \in Pieces /\ m.range.last <= size
<1>1. CASE m \in {[range |-> p, abort |-> FALSE] : p \in {q \in Pieces : q.last <= size}}
  <2>1. PICK p \in Pieces : p.last <= size /\ m = [range |-> p, abort |-> FALSE]
    BY <1>1
  <2> QED
    BY <2>1 DEF Message
<1>2. CASE m = NoMess
  BY <1>2 DEF NoMess, Message
<1>3. CASE m = [range |-> NoPiece, abort |-> TRUE]
  BY <1>3 DEF Message
<1> QED
  BY <1>1, <1>2, <1>3 DEF Packets

\* Blocks of both lists have the types of blocks.
LEMMA NewBlocks ==
  /\ NewRecvBlock \in RecvBlock /\ NewDataBlock \in DataBlock
  /\ \A m \in Message : [state |-> "ready", mess |-> m] \in DataBlock
BY DEF NewRecvBlock, NewDataBlock, NoMess, RecvBlock, DataBlock, Message

\* A packet put into the get thread's block.
LEMMA NumberedLemma ==
  ASSUME gcount \in Nat, NEW m \in Packets
  PROVE  Numbered(m) \in RecvBlock
<1>1. m \in Message
  BY PacketLemma
<1> QED
  BY <1>1 DEF Numbered, RecvBlock

\* Exporting puts the block at a free place or at the end.
LEMMA IntoBlockLemma ==
  ASSUME blocks \in Seq(DataBlock), NEW b \in DataBlock, IntoBlock(b)
  PROVE  /\ blocks' \in Seq(DataBlock) /\ Len(blocks) <= Len(blocks')
         /\ \A i \in DOMAIN blocks : blocks'[i] = blocks[i]
                                      \/ (blocks[i].state = "free" /\ blocks'[i] = b)
         /\ \A i \in DOMAIN blocks' \ DOMAIN blocks : blocks'[i] = b
<1>1. CASE \E i \in DOMAIN blocks : NewestFree(i) /\ blocks' = [blocks EXCEPT ![i] = b]
  BY <1>1 DEF NewestFree
<1>2. CASE blocks' = Append(blocks, b)
  BY <1>2
<1> QED
  BY <1>1, <1>2 DEF IntoBlock

\* The initial state has the types TypeOK gives.
LEMMA TypeInit == Init => TypeOK
<1> SUFFICES ASSUME Init PROVE TypeOK
  OBVIOUS
<1>1. rblocks \in Seq(RecvBlock) /\ Len(rblocks) = InitBlocks
  BY NewBlocks, RecvAssumption DEF Init
<1>2. blocks \in Seq(DataBlock) /\ Len(blocks) = InitBlocks - 1
  BY NewBlocks, RecvAssumption DEF Init
<1>3. 1 \in DOMAIN rblocks /\ size \in Nat /\ 0 \in 0 .. Len(blocks)
  BY <1>1, <1>2, RecvAssumption DEF Init
<1>4. /\ flag = "continue" /\ size \in Sizes /\ gpc = "start" /\ gblk = 1
      /\ gcount = 1 /\ outcome = "none" /\ ppc = "none" /\ pblk = 1 /\ pcount = 1
      /\ hpc = "none" /\ cursor = 0 /\ start = 1 /\ pre = 1 /\ minStart = size
      /\ time = FirstTries /\ timer = "run" /\ apc = "idle"
      /\ written = {} /\ asked = {}
  BY DEF Init
<1>6. okSent \in BOOLEAN
  BY DEF Init
<1>5. time \in Int /\ time >= -1 /\ asked \in SUBSET [first : Nat, last : Nat]
  BY <1>4, RecvAssumption
<1> QED
  BY <1>1, <1>2, <1>3, <1>4, <1>5, <1>6 DEF TypeOK

\* The steps of the get thread keep the types.
LEMMA TypeStepGet == TypeOK /\ Get => TypeOK'
<1> SUFFICES ASSUME TypeOK, Get PROVE TypeOK'
  OBVIOUS
<1>1. CASE GetStart
  BY <1>1 DEF GetStart, TypeOK
<1>2. CASE GetTest
  BY <1>2 DEF GetTest, getFrame, parseVars, handleVars, TypeOK
<1>3. CASE GetNothing
  BY <1>3 DEF GetNothing, getFrame, parseVars, handleVars, TypeOK
<1>4. CASE GetBroken
  BY <1>4 DEF GetBroken, getFrame, parseVars, handleVars, TypeOK
<1>5. CASE GetFreeBlock
  <2>1. /\ rblocks' \in Seq(RecvBlock) /\ gblk' \in DOMAIN rblocks'
        /\ DOMAIN rblocks \subseteq DOMAIN rblocks'
    <3> USE DEF TypeOK
    <3>1. CASE UNCHANGED rblocks /\ gblk' \in DOMAIN rblocks
      BY <3>1
    <3>2. CASE rblocks' = Append(rblocks, NewRecvBlock) /\ gblk' = Len(rblocks) + 1
      BY <3>2, NewBlocks
    <3> QED
      BY <1>5, <3>1, <3>2 DEF GetFreeBlock
  <2>2. gpc' = "test" /\ UNCHANGED <<flag, gcount, outcome, getFrame>>
    BY <1>5 DEF GetFreeBlock
  <2> QED
    BY <2>1, <2>2 DEF getFrame, parseVars, handleVars, TypeOK
<1>6. CASE GetExit
  BY <1>6 DEF GetExit, getFrame, parseVars, handleVars, TypeOK
<1>7. ASSUME NEW m \in Packets, GetPacket(m) PROVE TypeOK'
  <2>1. /\ rblocks' = [rblocks EXCEPT ![gblk] = Numbered(m)]
        /\ gcount' = gcount + 1 /\ gpc' = "pick"
        /\ UNCHANGED <<flag, gblk, outcome, getFrame>>
    BY <1>7 DEF GetPacket
  <2>2. Numbered(m) \in RecvBlock
    BY NumberedLemma DEF TypeOK
  <2>3. rblocks' \in Seq(RecvBlock) /\ DOMAIN rblocks' = DOMAIN rblocks
    BY <2>1, <2>2 DEF TypeOK
  <2>4. gcount' \in Nat \ {0}
    BY <2>1 DEF TypeOK
  <2>5. /\ gpc' = "pick" /\ UNCHANGED <<flag, gblk, outcome, getFrame>>
    BY <2>1
  <2> QED
    BY <2>3, <2>4, <2>5 DEF getFrame, parseVars, handleVars, TypeOK
<1> QED
  BY <1>1, <1>2, <1>3, <1>4, <1>5, <1>6, <1>7 DEF Get

\* The steps of the parse thread keep the types.
LEMMA TypeStepParse == TypeOK /\ Parse => TypeOK'
<1> SUFFICES ASSUME TypeOK, Parse PROVE TypeOK'
  OBVIOUS
<1>1. CASE ParseTest
  BY <1>1 DEF ParseTest, parseFrame, getVars, handleVars, TypeOK
<1>2. CASE ParseLook
  BY <1>2 DEF ParseLook, parseFrame, getVars, handleVars, TypeOK
<1>3. CASE Export
  <2>1. rblocks[pblk] \in RecvBlock
    BY DEF TypeOK
  <2>2. rblocks[pblk].mess \in Message
    BY <2>1 DEF RecvBlock
  <2>3. blocks' \in Seq(DataBlock) /\ Len(blocks) <= Len(blocks')
    BY <1>3, <2>2, NewBlocks, IntoBlockLemma DEF Export, TypeOK
  <2>4. ppc' = "free" /\ UNCHANGED <<rblocks, pblk, pcount, parseFrame>>
    BY <1>3 DEF Export
  <2> QED
    BY <2>3, <2>4 DEF parseFrame, getVars, handleVars, TypeOK
<1>4. CASE ExportFault
  BY <1>4 DEF ExportFault, TypeOK
<1>5. CASE ParseFree
  <2>1. /\ rblocks' = [rblocks EXCEPT ![pblk] = NewRecvBlock]
        /\ pcount' = pcount + 1
    BY <1>5 DEF ParseFree
  <2>2. rblocks' \in Seq(RecvBlock) /\ DOMAIN rblocks' = DOMAIN rblocks
    BY <2>1, NewBlocks DEF TypeOK
  <2>3. pcount' \in Nat \ {0}
    BY <2>1 DEF TypeOK
  <2>4. ppc' = "test" /\ UNCHANGED <<blocks, pblk, parseFrame>>
    BY <1>5 DEF ParseFree
  <2> QED
    BY <2>2, <2>3, <2>4 DEF parseFrame, getVars, handleVars, TypeOK
<1> QED
  BY <1>1, <1>2, <1>3, <1>4, <1>5 DEF Parse

\* Where a message leaves the position, and where a failed write takes it.
LEMMA AdvanceLemma ==
  ASSUME start \in Nat \ {0}, pre \in Nat \ {0}, pre <= start,
         NEW r \in Pieces, NEW ok \in BOOLEAN, ~NotYet(r)
  PROVE  /\ r.first \in Nat /\ r.last \in Nat
         /\ PositionAfter(r, ok) \in Nat \ {0} /\ Advance(r)[2] \in Nat \ {0}
         /\ Advance(r)[2] <= PositionAfter(r, ok)
         /\ Advance(r)[2] <= start
         /\ ok => PositionAfter(r, ok) = IF start < r.last + 1 THEN r.last + 1 ELSE start
         /\ ~ok => PositionAfter(r, ok) <= start
BY RecvAssumption DEF PositionAfter, Advance, NotYet

\* The message under the cursor, when it is ready and does not end the session.
LEMMA UnderCursor ==
  ASSUME TypeOK, ReadyInFile, Ready(cursor), ~blocks[cursor].mess.abort
  PROVE  /\ cursor \in DOMAIN blocks /\ cursor - 1 \in 0 .. Len(blocks)
         /\ blocks[cursor] \in DataBlock
         /\ blocks[cursor].mess.range \in Pieces
         /\ blocks[cursor].mess.range.last <= size
<1>1. cursor \in DOMAIN blocks /\ cursor - 1 \in 0 .. Len(blocks)
  BY DEF TypeOK, Ready
<1>2. blocks[cursor] \in DataBlock
  BY <1>1 DEF TypeOK
<1>3. blocks[cursor].mess \in Packets \ {NoMess}
  BY <1>1 DEF ReadyInFile, Ready
<1> QED
  BY <1>1, <1>2, <1>3, PacketLemma

\* Giving a data block back changes its state only.
LEMMA GiveBack ==
  ASSUME blocks \in Seq(DataBlock), NEW i \in DOMAIN blocks,
         blocks' = [blocks EXCEPT ![i].state = "free"]
  PROVE  /\ blocks' \in Seq(DataBlock) /\ Len(blocks') = Len(blocks)
         /\ DOMAIN blocks' = DOMAIN blocks
         /\ blocks'[i].state = "free"
         /\ \A j \in DOMAIN blocks : j # i => blocks'[j] = blocks[j]
<1>1. blocks[i] \in DataBlock
  OBVIOUS
<1>2. [blocks[i] EXCEPT !.state = "free"] \in DataBlock
        /\ [blocks[i] EXCEPT !.state = "free"].state = "free"
  BY <1>1 DEF DataBlock
<1>3. blocks' = [blocks EXCEPT ![i] = [blocks[i] EXCEPT !.state = "free"]]
  OBVIOUS
<1> DEFINE b == [blocks[i] EXCEPT !.state = "free"]
<1>4. blocks' = [blocks EXCEPT ![i] = b] /\ b \in DataBlock /\ b.state = "free"
  BY <1>2, <1>3
<1> HIDE DEF b
<1> QED
  BY <1>4

\* The steps of the handle thread keep the types.
LEMMA TypeStepHandle ==
  TypeOK /\ ReadyInFile /\ PrefixWritten /\ TriesInv /\ Handle => TypeOK'
<1> SUFFICES ASSUME TypeOK, ReadyInFile, PrefixWritten, TriesInv, Handle PROVE TypeOK'
  OBVIOUS
<1>1. CASE HandleTest
  BY <1>1 DEF TypeOK, HandleTest, handleFrame, getVars, parseVars
<1>2. CASE ScanPass
  BY <1>2 DEF TypeOK, ScanPass, handleFrame, getVars, parseVars
<1>3. CASE ScanAbort
  BY <1>3 DEF TypeOK, ScanAbort, handleFrame, getVars, parseVars
<1>4. CASE ScanLater
  <2>1. cursor - 1 \in 0 .. Len(blocks) /\ blocks[cursor].mess.range \in Pieces
    BY <1>4, UnderCursor DEF ScanLater
  <2>2. blocks[cursor].mess.range.first \in Nat
    BY <2>1, RecvAssumption
  <2>3. minStart' \in Nat /\ cursor' \in 0 .. Len(blocks)
    BY <1>4, <2>1, <2>2 DEF ScanLater, TypeOK
  <2> QED
    BY <1>4, <2>3 DEF TypeOK, ScanLater, handleFrame, getVars, parseVars
<1>5. ASSUME NEW ok \in BOOLEAN, ScanWrite(ok) PROVE TypeOK'
  <2> DEFINE r == blocks[cursor].mess.range
  <2>1. /\ cursor \in DOMAIN blocks /\ cursor' \in 0 .. Len(blocks) /\ r \in Pieces
        /\ ~NotYet(r) /\ blocks' = [blocks EXCEPT ![cursor].state = "free"]
    BY <1>5, UnderCursor DEF ScanWrite
  <2>2. start' \in Nat \ {0} /\ pre' \in Nat \ {0}
          /\ r.first \in Nat /\ r.last \in Nat
    BY <1>5, <2>1, AdvanceLemma DEF ScanWrite, TypeOK, PrefixWritten
  <2>3. blocks' \in Seq(DataBlock) /\ Len(blocks') = Len(blocks)
    BY <2>1, GiveBack DEF TypeOK
  <2>4. written' \in SUBSET Nat
    <3>1. Octets(r) \subseteq Nat
      BY <2>2 DEF Octets
    <3> QED
      BY <1>5, <3>1 DEF ScanWrite, TypeOK
  <2>5. asked' \in SUBSET [first : Nat, last : Nat]
    BY <1>5, <2>1, RecvAssumption DEF ScanWrite, TypeOK
  <2>6. /\ minStart' \in Nat /\ time' \in Int /\ time' >= -1 /\ timer' = "run"
        /\ UNCHANGED <<flag, hpc, handleFrame>> /\ okSent' \in BOOLEAN
    BY <1>5, RecvAssumption DEF ScanWrite, TypeOK, ResetMinStart
  <2>7. cursor' \in 0 .. Len(blocks')
    BY <2>1, <2>3
  <2>8. start' \in Nat \ {0} /\ pre' \in Nat \ {0}
    BY <2>2
  <2> QED
    BY <2>3, <2>4, <2>5, <2>6, <2>7, <2>8 DEF TypeOK, handleFrame, getVars, parseVars
<1>6. CASE HandleClock
  <2>1. time' \in Int /\ time' >= -1
    BY <1>6 DEF HandleClock, TypeOK, TriesInv
  <2>2. asked' \in SUBSET [first : Nat, last : Nat]
    BY <1>6 DEF HandleClock, TypeOK
  <2> QED
    BY <1>6, <2>1, <2>2 DEF TypeOK, HandleClock, handleFrame, getVars, parseVars
<1>7. CASE HandleEnd
  <2>1. /\ flag' \in {flag, "suspend"} /\ hpc' \in {"close", "done"}
        /\ okSent' \in BOOLEAN
        /\ UNCHANGED <<blocks, cursor, start, pre, minStart, time, timer, written,
                       asked, handleFrame>>
    BY <1>7 DEF TypeOK, HandleEnd
  <2> QED
    BY <2>1 DEF TypeOK, handleFrame, getVars, parseVars
<1>8. CASE HandleClose
  BY <1>8 DEF TypeOK, HandleClose, handleFrame, getVars, parseVars
<1> QED
  BY <1>1, <1>2, <1>3, <1>4, <1>5, <1>6, <1>7, <1>8 DEF Handle

\* Every step keeps the types.
LEMMA TypeStep ==
  TypeOK /\ ReadyInFile /\ PrefixWritten /\ TriesInv /\ [Next]_vars => TypeOK'
<1> SUFFICES ASSUME TypeOK, ReadyInFile, PrefixWritten, TriesInv, [Next]_vars
             PROVE  TypeOK'
  OBVIOUS
<1>1. CASE Tick
  BY <1>1 DEF TypeOK, Tick, handleFrame, getVars, parseVars
<1>2. CASE CloseCall
  BY <1>2 DEF TypeOK, CloseCall, getVars, parseVars, handleVars
<1>3. CASE CloseJoin
  BY <1>3 DEF TypeOK, CloseJoin, getVars, parseVars, handleVars
<1>4. CASE UNCHANGED vars
  BY <1>4 DEF TypeOK, vars, getVars, parseVars, handleVars
<1> QED
  BY <1>1, <1>2, <1>3, <1>4, TypeStepGet, TypeStepParse, TypeStepHandle
  DEF Next, Terminating

-----------------------------------------------------------------------------
(* Packets.                                                                *)

\* Packets keep their numbers and their places: a step of one thread leaves the
\* block of the other alone.
LEMMA BlockStep == TypeOK /\ BlockInv /\ [Next]_vars => BlockInv'
<1> SUFFICES ASSUME TypeOK, BlockInv, [Next]_vars PROVE BlockInv'
  OBVIOUS
<1>1. /\ rblocks \in Seq(RecvBlock) /\ gblk \in DOMAIN rblocks /\ pblk \in DOMAIN rblocks
      /\ gcount \in Nat \ {0} /\ pcount \in Nat \ {0}
  BY DEF TypeOK
<1>2. ASSUME NEW m \in Packets, GetPacket(m) PROVE BlockInv'
  <2>1. /\ gpc = "get" /\ gpc' = "pick" /\ gcount' = gcount + 1
        /\ UNCHANGED <<size, gblk, ppc, pblk, pcount>>
        /\ rblocks' = [rblocks EXCEPT ![gblk] = Numbered(m)]
    BY <1>2 DEF GetPacket, getFrame, parseVars
  <2>2. /\ DOMAIN rblocks' = DOMAIN rblocks /\ rblocks'[gblk].state = "recv"
        /\ rblocks'[gblk].count = gcount /\ rblocks'[gblk].mess = m
        /\ \A i \in DOMAIN rblocks : i # gblk => rblocks'[i] = rblocks[i]
    BY <1>1, <2>1 DEF Numbered, Held
  <2>3. ~Held(gblk) /\ Packets' = Packets
    BY <2>1 DEF BlockInv, Packets
  <2>4. \A i \in DOMAIN rblocks : i # gblk /\ Held(i)' =>
           Held(i) /\ rblocks'[i].count < gcount /\ rblocks'[i].count >= pcount
    BY <1>1, <2>2 DEF BlockInv, Held
  <2>5. \A i \in DOMAIN rblocks' :
          Held(i)' => rblocks'[i].count \in pcount' .. gcount' - 1
                      /\ rblocks'[i].mess \in Packets'
    BY <1>1, <2>1, <2>2, <2>3, <2>4 DEF BlockInv, Held
  <2>6. \A i, j \in DOMAIN rblocks' :
          Held(i)' /\ Held(j)' /\ rblocks'[i].count = rblocks'[j].count => i = j
    BY <1>1, <2>1, <2>2, <2>4 DEF BlockInv, Held
  <2>7. \A n \in pcount' .. gcount' - 1 :
          \E i \in DOMAIN rblocks' : Held(i)' /\ rblocks'[i].count = n
    <3> SUFFICES ASSUME NEW n \in pcount .. gcount
                 PROVE  \E i \in DOMAIN rblocks' : Held(i)' /\ rblocks'[i].count = n
      BY <1>1, <2>1
    <3>1. CASE n = gcount
      BY <1>1, <2>2, <3>1 DEF Held
    <3>2. CASE n # gcount
      <4>1. PICK i \in DOMAIN rblocks : Held(i) /\ rblocks[i].count = n
        BY <1>1, <3>2 DEF BlockInv
      <4> QED
        BY <2>2, <2>3, <4>1 DEF Held
    <3> QED
      BY <3>1, <3>2
  <2>8. ppc' \in {"export", "free"} => Held(pblk)' /\ rblocks'[pblk].count = pcount'
    BY <1>1, <2>1, <2>2, <2>3 DEF BlockInv, Held
  <2> QED
    BY <1>1, <2>1, <2>5, <2>6, <2>7, <2>8 DEF BlockInv
<1>3. CASE GetFreeBlock
  <2>1. /\ DOMAIN rblocks \subseteq DOMAIN rblocks' /\ gblk' \in DOMAIN rblocks'
        /\ \A i \in DOMAIN rblocks : rblocks'[i] = rblocks[i]
        /\ \A i \in DOMAIN rblocks' \ DOMAIN rblocks : ~Held(i)'
        /\ rblocks'[gblk'].state = "free"
    <3>1. CASE UNCHANGED rblocks /\ gblk' \in DOMAIN rblocks
                 /\ rblocks[gblk'].state = "free"
      BY <3>1 DEF Held
    <3>2. CASE rblocks' = Append(rblocks, NewRecvBlock) /\ gblk' = Len(rblocks) + 1
      BY <1>1, <3>2 DEF Held, NewRecvBlock
    <3> QED
      BY <1>3, <3>1, <3>2 DEF GetFreeBlock
  <2>2. UNCHANGED <<size, ppc, pblk, pcount, gcount>> /\ Packets' = Packets
    BY <1>3 DEF GetFreeBlock, getFrame, parseVars, Packets
  <2>3. \A i \in DOMAIN rblocks' : Held(i)' => i \in DOMAIN rblocks /\ Held(i)
    BY <2>1 DEF Held
  <2>4. \A i \in DOMAIN rblocks : Held(i) => Held(i)'
    BY <2>1 DEF Held
  <2>5. ~Held(gblk)'
    BY <2>1 DEF Held
  <2>6. ppc' \in {"export", "free"} => Held(pblk)' /\ rblocks'[pblk].count = pcount'
    BY <1>1, <2>1, <2>2, <2>4 DEF BlockInv
  <2> QED
    BY <2>1, <2>2, <2>3, <2>4, <2>5, <2>6 DEF BlockInv
<1>4. CASE ParseLook
  <2>1. /\ UNCHANGED <<size, rblocks, gpc, gblk, gcount, pcount>>
        /\ ppc' \in {"export", "free"} => Held(pblk') /\ rblocks[pblk'].count = pcount
    BY <1>4 DEF ParseLook, Awaited, Held, parseFrame, getVars
  <2> QED
    BY <2>1 DEF BlockInv, Held, Packets
<1>5. CASE ParseFree
  <2>1. /\ ppc = "free" /\ ppc' = "test" /\ pcount' = pcount + 1
        /\ UNCHANGED <<size, gpc, gblk, gcount, pblk>>
        /\ rblocks' = [rblocks EXCEPT ![pblk] = NewRecvBlock]
    BY <1>5 DEF ParseFree, parseFrame, getVars
  <2>2. /\ DOMAIN rblocks' = DOMAIN rblocks /\ rblocks'[pblk].state = "free"
        /\ \A i \in DOMAIN rblocks : i # pblk => rblocks'[i] = rblocks[i]
    BY <1>1, <2>1 DEF Held, NewRecvBlock
  <2>3. Held(pblk) /\ rblocks[pblk].count = pcount /\ Packets' = Packets
    BY <2>1 DEF BlockInv, Packets
  <2>4. pcount' <= gcount'
    BY <1>1, <2>1, <2>3 DEF BlockInv
  <2>5. \A i \in DOMAIN rblocks :
          Held(i)' => i # pblk /\ Held(i) /\ rblocks'[i] = rblocks[i]
    BY <2>2 DEF Held
  <2>6. \A i \in DOMAIN rblocks :
          Held(i)' => rblocks'[i].count \in pcount' .. gcount' - 1
                      /\ rblocks'[i].mess \in Packets'
    BY <1>1, <2>1, <2>3, <2>5 DEF BlockInv
  <2>7. \A i, j \in DOMAIN rblocks :
          Held(i)' /\ Held(j)' /\ rblocks'[i].count = rblocks'[j].count => i = j
    BY <2>5 DEF BlockInv
  <2>8. \A n \in pcount' .. gcount' - 1 :
          \E i \in DOMAIN rblocks' : Held(i)' /\ rblocks'[i].count = n
    <3> SUFFICES ASSUME NEW n \in pcount + 1 .. gcount - 1
                 PROVE  \E i \in DOMAIN rblocks' : Held(i)' /\ rblocks'[i].count = n
      BY <2>1
    <3>1. PICK i \in DOMAIN rblocks : Held(i) /\ rblocks[i].count = n
      BY <1>1 DEF BlockInv
    <3>2. i # pblk
      BY <1>1, <2>3, <3>1
    <3> QED
      BY <2>2, <3>1, <3>2 DEF Held
  <2>9. gpc' \in {"start", "test", "get"} => ~Held(gblk)'
    BY <1>1, <2>1, <2>2 DEF BlockInv, Held
  <2> QED
    BY <2>1, <2>2, <2>4, <2>6, <2>7, <2>8, <2>9 DEF BlockInv
<1>6. CASE /\ UNCHANGED <<size, rblocks, gblk, gcount, pblk, pcount>>
           /\ gpc' \in {"start", "test", "get"} => gpc \in {"start", "test", "get"}
           /\ ppc' \in {"export", "free"} => ppc \in {"export", "free"}
  BY <1>6 DEF BlockInv, Held, Packets
<1>7. CASE GetStart \/ GetTest \/ GetNothing \/ GetBroken \/ GetExit
  BY <1>6, <1>7 DEF GetStart, GetTest, GetNothing, GetBroken, GetExit, getFrame, parseVars
<1>8. CASE ParseTest \/ Export \/ ExportFault
  BY <1>6, <1>8 DEF ParseTest, Export, ExportFault, parseFrame, getVars
<1>9. CASE Handle \/ Tick
  <2>1. UNCHANGED handleFrame
    BY <1>9 DEF Handle, HandleTest, ScanPass, ScanAbort, ScanLater, ScanWrite,
       HandleClock, HandleEnd, HandleClose, Tick
  <2> QED
    BY <1>6, <2>1 DEF handleFrame, getVars, parseVars
<1>10. CASE CloseCall \/ CloseJoin \/ UNCHANGED vars
  BY <1>6, <1>10 DEF CloseCall, CloseJoin, vars, getVars, parseVars
<1> QED
  BY <1>2, <1>3, <1>4, <1>5, <1>7, <1>8, <1>9, <1>10 DEF Next, Get, Parse, Terminating

-----------------------------------------------------------------------------
(* The position.                                                           *)

\* Export brings messages of the file into the data blocks and touches no ready
\* block.
LEMMA ExportLemma ==
  ASSUME TypeOK, BlockInv, Export
  PROVE  /\ ReadyInFile => ReadyInFile'
         /\ \A i \in DOMAIN blocks : blocks[i].state = "ready" => blocks'[i] = blocks[i]
<1> DEFINE m == rblocks[pblk].mess
           b == [state |-> "ready", mess |-> m]
<1>1. Held(pblk) /\ pblk \in DOMAIN rblocks
  BY DEF Export, BlockInv, TypeOK
<1>2. m \in Packets /\ Packets' = Packets
  BY <1>1 DEF BlockInv, Export, Packets, parseFrame
<1>3. CASE m = NoMess
  BY <1>2, <1>3 DEF Export, ReadyInFile
<1>4. CASE m # NoMess
  <2>1. b \in DataBlock
    BY <1>2, PacketLemma, NewBlocks
  <2>2. IntoBlock(b) /\ blocks \in Seq(DataBlock)
    BY <1>4 DEF Export, TypeOK
  <2>3. b.mess \in Packets \ {NoMess} /\ b.state # "free"
    BY <1>2, <1>4
  <2> HIDE DEF b
  <2>4. /\ \A i \in DOMAIN blocks : blocks'[i] = blocks[i]
                                     \/ (blocks[i].state = "free" /\ blocks'[i] = b)
        /\ \A i \in DOMAIN blocks' \ DOMAIN blocks : blocks'[i] = b
    BY <2>1, <2>2, IntoBlockLemma
  <2> QED
    BY <1>2, <2>3, <2>4 DEF ReadyInFile
<1> QED
  BY <1>3, <1>4

\* Writing a message extends the written prefix, and a refused one leaves it.
LEMMA WriteLemma ==
  ASSUME TypeOK, PositionInv, NEW ok \in BOOLEAN, ScanWrite(ok)
  PROVE  PositionInv'
<1> DEFINE r == blocks[cursor].mess.range
<1>1. /\ cursor \in DOMAIN blocks /\ r \in Pieces /\ r.last <= size
      /\ ~NotYet(r) /\ blocks' = [blocks EXCEPT ![cursor].state = "free"]
  BY UnderCursor DEF ScanWrite, PositionInv
<1>2. /\ start \in Nat \ {0} /\ pre \in Nat \ {0} /\ pre <= start /\ size \in Nat
      /\ start <= size + 1
  BY RecvAssumption DEF TypeOK, PositionInv, PrefixWritten
<1>3. /\ start' = PositionAfter(r, ok) /\ pre' = Advance(r)[2] /\ UNCHANGED size
      /\ written' = IF ok THEN written \cup Octets(r) ELSE written
      /\ asked' = IF ok THEN asked ELSE asked \cup {r}
      /\ minStart' = size
  BY DEF ScanWrite, ResetMinStart, handleFrame
<1>4. /\ r.first \in Nat /\ r.last \in Nat /\ r.first <= r.last
      /\ start' \in Nat /\ pre' \in Nat /\ pre' <= start'
      /\ ok => start' = IF start < r.last + 1 THEN r.last + 1 ELSE start
      /\ ~ok => start' <= start
      /\ r.first <= start
  <2>1. r.first \in Nat /\ r.last \in Nat /\ r.first <= r.last
    BY <1>1, RecvAssumption
  <2> HIDE DEF r
  <2>2. r.first <= start
    BY <1>1, <1>2, <2>1 DEF NotYet
  <2> QED
    BY <1>1, <1>2, <1>3, <2>1, <2>2, AdvanceLemma
<1> HIDE DEF r
<1>5. ReadyInFile'
  <2>1. /\ DOMAIN blocks' = DOMAIN blocks /\ blocks'[cursor].state = "free"
        /\ \A j \in DOMAIN blocks : j # cursor => blocks'[j] = blocks[j]
    BY <1>1, GiveBack DEF TypeOK
  <2>2. Packets' = Packets
    BY <1>3 DEF Packets
  <2> QED
    BY <2>1, <2>2 DEF PositionInv, ReadyInFile
<1>6. PrefixWritten'
  <2>1. ASSUME NEW b \in 1 .. start' - 1 PROVE b \in written'
    <3>1. CASE b < start
      BY <1>2, <1>3, <1>4, <3>1 DEF PositionInv, PrefixWritten
    <3>2. CASE b >= start
      BY <1>2, <1>3, <1>4, <3>2 DEF Octets
    <3> QED
      BY <1>2, <3>1, <3>2
  <2> QED
    BY <1>4, <2>1 DEF PrefixWritten
<1>7. start' <= size' + 1
  BY <1>1, <1>2, <1>3, <1>4
<1>8. ReportSane'
  BY <1>1, <1>3, <1>4 DEF PositionInv, ReportSane
<1> QED
  BY <1>2, <1>3, <1>5, <1>6, <1>7, <1>8 DEF PositionInv

\* Every step keeps the written prefix, the place of min_start and the reports
\* within the file.
LEMMA PositionStep ==
  TypeOK /\ BlockInv /\ PositionInv /\ [Next]_vars => PositionInv'
<1> SUFFICES ASSUME TypeOK, BlockInv, PositionInv, [Next]_vars PROVE PositionInv'
  OBVIOUS
<1>1. CASE UNCHANGED <<size, blocks, start, pre, minStart, written, asked>>
  BY <1>1 DEF PositionInv, ReadyInFile, Packets, PrefixWritten, ReportSane
<1>2. CASE Export
  <2>1. UNCHANGED <<size, start, pre, minStart, written, asked>>
    BY <1>2 DEF Export, parseFrame, handleVars
  <2> QED
    BY <1>2, <2>1, ExportLemma DEF PositionInv, PrefixWritten, ReportSane
<1>3. CASE ScanLater
  <2> DEFINE r == blocks[cursor].mess.range
  <2>1. r \in Pieces /\ r.last <= size /\ NotYet(r)
    BY <1>3, UnderCursor DEF ScanLater, PositionInv
  <2>2. r.first \in Nat /\ r.last \in Nat /\ r.first <= r.last
    BY <2>1, RecvAssumption
  <2>3. /\ minStart' = IF r.first < minStart THEN r.first ELSE minStart
        /\ UNCHANGED <<size, blocks, start, pre, written, asked>>
    BY <1>3 DEF ScanLater, handleFrame
  <2>4. start \in Nat /\ minStart \in Nat /\ size \in Nat
    BY RecvAssumption DEF TypeOK
  <2> HIDE DEF r
  <2>5. minStart' <= size /\ (minStart' = size \/ start < minStart')
    BY <2>1, <2>2, <2>3, <2>4 DEF NotYet, PositionInv
  <2> QED
    BY <2>3, <2>5 DEF PositionInv, ReadyInFile, Packets, PrefixWritten, ReportSane
<1>4. ASSUME NEW ok \in BOOLEAN, ScanWrite(ok) PROVE PositionInv'
  BY <1>4, WriteLemma
<1>5. CASE HandleClock
  <2>1. /\ asked' = asked \/ asked' = asked \cup {[first |-> start, last |-> minStart]}
        /\ UNCHANGED <<size, blocks, start, pre, minStart, written>>
    BY <1>5 DEF HandleClock, handleFrame
  <2>2. start \in Nat /\ minStart \in Nat /\ size \in Nat
    BY RecvAssumption DEF TypeOK
  <2>3. minStart <= size /\ start <= minStart + 1
    BY <2>2 DEF PositionInv
  <2>4. ReportSane'
    BY <2>1, <2>3 DEF PositionInv, ReportSane
  <2> QED
    BY <2>1, <2>4 DEF PositionInv, ReadyInFile, Packets, PrefixWritten
<1>6. CASE Get
  BY <1>1, <1>6 DEF Get, GetStart, GetTest, GetNothing, GetBroken, GetFreeBlock, GetExit,
     GetPacket, getFrame, handleVars
<1>7. CASE ParseTest \/ ParseLook \/ ExportFault \/ ParseFree
  BY <1>1, <1>7 DEF ParseTest, ParseLook, ExportFault, ParseFree, parseFrame, handleVars
<1>8. CASE HandleTest \/ ScanPass \/ ScanAbort \/ HandleEnd \/ HandleClose \/ Tick
  BY <1>1, <1>8 DEF HandleTest, ScanPass, ScanAbort, HandleEnd, HandleClose, Tick,
     handleFrame
<1>9. CASE CloseCall \/ CloseJoin \/ UNCHANGED vars
  BY <1>1, <1>9 DEF CloseCall, CloseJoin, vars, handleVars
<1> QED
  BY <1>2, <1>3, <1>4, <1>5, <1>6, <1>7, <1>8, <1>9 DEF Next, Parse, Handle, Terminating

-----------------------------------------------------------------------------
(* Stopping.                                                               *)

\* Every thread that writes the flag writes a value that stops the loops.
LEMMA StopStep == ASSUME [Next]_vars, Stopped PROVE Stopped'
<1>1. CASE Get
  BY <1>1 DEF Stopped, Get, GetStart, GetTest, GetNothing, GetBroken, GetFreeBlock,
     GetExit, GetPacket
<1>2. CASE Parse
  BY <1>2 DEF Stopped, Parse, ParseTest, ParseLook, Export, ExportFault, ParseFree,
     parseFrame
<1>3. CASE Handle
  BY <1>3 DEF Stopped, Handle, HandleTest, ScanPass, ScanAbort, ScanLater, ScanWrite,
     HandleClock, HandleEnd, HandleClose
<1>4. CASE Tick \/ CloseCall \/ CloseJoin \/ UNCHANGED vars
  BY <1>4 DEF Stopped, Tick, CloseCall, CloseJoin, vars
<1> QED
  BY <1>1, <1>2, <1>3, <1>4 DEF Next, Terminating

\* A handle thread without tries left does not scan again.
LEMMA TriesStep == TypeOK /\ TriesInv /\ [Next]_vars => TriesInv'
<1> SUFFICES ASSUME TypeOK, TriesInv, [Next]_vars PROVE TriesInv'
  OBVIOUS
<1>1. Stopped => Stopped'
  BY StopStep
<1>2. CASE Get
  BY <1>1, <1>2 DEF TriesInv, Get, GetStart, GetTest, GetNothing, GetBroken,
     GetFreeBlock, GetExit, GetPacket, getFrame, handleVars
<1>3. CASE Parse
  BY <1>1, <1>3 DEF TriesInv, Parse, ParseTest, ParseLook, Export, ExportFault,
     ParseFree, parseFrame, handleVars
<1>4. CASE HandleTest \/ ScanPass \/ ScanAbort \/ ScanLater \/ HandleEnd \/ HandleClose
  BY <1>1, <1>4 DEF TriesInv, Stopped, HandleTest, ScanPass, ScanAbort, ScanLater,
     HandleEnd, HandleClose
<1>5. ASSUME NEW ok \in BOOLEAN, ScanWrite(ok) PROVE TriesInv'
  <2>1. time' = Tries
    BY <1>5 DEF ScanWrite
  <2> QED
    BY <2>1, RecvAssumption DEF TriesInv
<1>6. CASE HandleClock
  BY <1>6 DEF TriesInv, Stopped, HandleClock, GaveUp
<1>7. CASE Tick \/ CloseCall \/ CloseJoin \/ UNCHANGED vars
  BY <1>1, <1>7 DEF TriesInv, Tick, CloseCall, CloseJoin, vars, handleVars
<1> QED
  BY <1>2, <1>3, <1>4, <1>5, <1>6, <1>7 DEF Next, Handle, Terminating

\* After the 200 the position does not move, and "close" comes only after it.
LEMMA EndStep == TypeOK /\ EndInv /\ [Next]_vars => EndInv'
<1> SUFFICES ASSUME TypeOK, EndInv, [Next]_vars PROVE EndInv'
  OBVIOUS
<1> USE DEF EndInv
<1>1. CASE Get
  <2>1. CASE GetStart
    BY <2>1 DEF GetStart
  <2>2. CASE GetTest \/ GetNothing \/ GetBroken \/ GetFreeBlock \/ GetExit
    BY <2>2 DEF GetTest, GetNothing, GetBroken, GetFreeBlock, GetExit, getFrame,
       handleVars
  <2>3. ASSUME NEW m \in Packets, GetPacket(m) PROVE EndInv'
    BY <2>3 DEF GetPacket, getFrame, handleVars
  <2> QED
    BY <1>1, <2>1, <2>2, <2>3 DEF Get
<1>2. CASE ParseTest \/ ParseLook \/ Export \/ ParseFree
  BY <1>2 DEF ParseTest, ParseLook, Export, ParseFree, parseFrame, getVars, handleVars
<1>3. CASE ExportFault
  BY <1>3 DEF ExportFault
<1>4. CASE HandleTest \/ ScanPass \/ ScanAbort \/ ScanLater
  BY <1>4 DEF HandleTest, ScanPass, ScanAbort, ScanLater, handleFrame, getVars
<1>5. ASSUME NEW ok \in BOOLEAN, ScanWrite(ok) PROVE EndInv'
  BY <1>5 DEF ScanWrite, handleFrame, getVars
<1>6. CASE HandleClock \/ HandleEnd \/ HandleClose
  BY <1>6 DEF HandleClock, HandleEnd, HandleClose, handleFrame, getVars
<1>7. CASE Tick \/ CloseCall \/ CloseJoin \/ UNCHANGED vars
  BY <1>7 DEF Tick, CloseCall, CloseJoin, vars, handleFrame, getVars, handleVars
<1> QED
  BY <1>1, <1>2, <1>3, <1>4, <1>5, <1>6, <1>7 DEF Next, Parse, Handle, Terminating

-----------------------------------------------------------------------------
(* The hand-over of data blocks.                                           *)

\* Only the scan takes a ready block, and only the one under its cursor.
LEMMA BlockKeptStep ==
  ASSUME TypeOK, BlockInv, PositionInv, [Next]_vars,
         NEW i \in DOMAIN blocks, blocks[i].state = "ready"
  PROVE  blocks'[i] = blocks[i] \/ (hpc = "scan" /\ cursor = i)
<1>1. CASE Export
  BY <1>1, ExportLemma
<1>2. ASSUME NEW ok \in BOOLEAN, ScanWrite(ok)
      PROVE  blocks'[i] = blocks[i] \/ (hpc = "scan" /\ cursor = i)
  <2>1. /\ cursor \in DOMAIN blocks /\ hpc = "scan"
        /\ blocks' = [blocks EXCEPT ![cursor].state = "free"]
    BY <1>2, UnderCursor DEF ScanWrite, PositionInv
  <2>2. \A j \in DOMAIN blocks : j # cursor => blocks'[j] = blocks[j]
    BY <2>1, GiveBack DEF TypeOK
  <2> QED
    BY <2>1, <2>2
<1>3. CASE UNCHANGED blocks
  BY <1>3
<1>4. CASE Get
  BY <1>3, <1>4 DEF Get, GetStart, GetTest, GetNothing, GetBroken, GetFreeBlock, GetExit,
     GetPacket, getFrame
<1>5. CASE ParseTest \/ ParseLook \/ ExportFault \/ ParseFree
  BY <1>3, <1>5 DEF ParseTest, ParseLook, ExportFault, ParseFree
<1>6. CASE HandleTest \/ ScanPass \/ ScanAbort \/ ScanLater \/ HandleClock \/ HandleEnd
             \/ HandleClose \/ Tick
  BY <1>3, <1>6 DEF HandleTest, ScanPass, ScanAbort, ScanLater, HandleClock, HandleEnd,
     HandleClose, Tick
<1>7. CASE CloseCall \/ CloseJoin \/ UNCHANGED vars
  BY <1>3, <1>7 DEF CloseCall, CloseJoin, vars
<1> QED
  BY <1>1, <1>2, <1>4, <1>5, <1>6, <1>7 DEF Next, Parse, Handle, Terminating

-----------------------------------------------------------------------------
(* The invariant and what follows from it.                                 *)

\* A fresh session satisfies the invariant.
LEMMA IInvInit == Init => IInv
<1> SUFFICES ASSUME Init PROVE IInv
  OBVIOUS
<1>1. TypeOK
  BY TypeInit
<1>2. \A i \in DOMAIN rblocks : ~Held(i)
  BY RecvAssumption DEF Init, Held, NewRecvBlock
<1>3. \A i \in DOMAIN blocks : blocks[i].state = "free"
  BY RecvAssumption DEF Init, NewDataBlock
<1>4. BlockInv
  BY <1>1, <1>2, RecvAssumption DEF TypeOK, Init, BlockInv
<1>5. PositionInv
  BY <1>3, RecvAssumption DEF Init, PositionInv, ReadyInFile, PrefixWritten, ReportSane
<1>6. TriesInv /\ EndInv
  BY RecvAssumption DEF Init, TriesInv, EndInv
<1> QED
  BY <1>1, <1>4, <1>5, <1>6 DEF IInv

\* The invariant holds in every state of every behaviour.
THEOREM Inductive == Spec => []IInv
<1>1. IInv /\ [Next]_vars => IInv'
  BY TypeStep, BlockStep, PositionStep, TriesStep, EndStep DEF IInv, PositionInv
<1> QED
  BY IInvInit, <1>1, PTL DEF Spec

\* Types, and the blocks the threads hold are in their lists.
THEOREM TypeCorrect == Spec => []TypeOK
<1>1. IInv => TypeOK
  BY DEF IInv
<1> QED
  BY Inductive, <1>1, PTL

\* Every packet is parsed once and in order, however many blocks there are.
THEOREM PacketsCorrect == Spec => []PacketsInOrder
<1>1. IInv => PacketsInOrder
  BY DEF IInv, BlockInv, PacketsInOrder, Held
<1> QED
  BY Inductive, <1>1, PTL

\* The octets before the position are in the file, whatever comes in.
THEOREM PrefixCorrect == Spec => []PrefixWritten
<1>1. IInv => PrefixWritten
  BY DEF IInv, PositionInv
<1> QED
  BY Inductive, <1>1, PTL

\* The sender is told 200 and the user "done" only for a complete file.
THEOREM OkCorrect == Spec => []OkMeansComplete
<1>1. IInv => OkMeansComplete
  <2> SUFFICES ASSUME IInv, okSent PROVE 1 .. size \subseteq written
    BY DEF IInv, EndInv, OkMeansComplete
  <2>1. start = size + 1 /\ size \in Nat
    BY RecvAssumption DEF IInv, EndInv, TypeOK
  <2> QED
    BY <2>1 DEF IInv, PositionInv, PrefixWritten
<1> QED
  BY Inductive, <1>1, PTL

\* The 413 reports stay within the file.
THEOREM ReportCorrect == Spec => []ReportSane
<1>1. IInv => ReportSane
  BY DEF IInv, PositionInv
<1> QED
  BY Inductive, <1>1, PTL

\* The unlocked list of messages is handed over block by block.
THEOREM BlockKeptCorrect == Spec => BlockKept
<1> DEFINE Kept == \A i \in DOMAIN blocks :
                     blocks[i].state = "ready" =>
                       \/ blocks'[i] = blocks[i]
                       \/ hpc = "scan" /\ cursor = i
<1>1. IInv /\ [Next]_vars => [Kept]_vars
  BY BlockKeptStep DEF IInv
<1> QED
  BY Inductive, <1>1, PTL DEF Spec, BlockKept

\* No thread starts the loops again after one has stopped them.
THEOREM StopIsFinalCorrect == Spec => StopIsFinal
<1>1. [Next]_vars => [Stopped => Stopped']_vars
  BY StopStep
<1> QED
  BY <1>1, PTL DEF Spec, StopIsFinal

-----------------------------------------------------------------------------
(***************************************************************************)
(* The receive blocks, which the get thread fills and the parse thread     *)
(* empties without a lock, implement PacketQueue, for every number of      *)
(* blocks and packets.  What a packet waits in is found by its number, and *)
(* BlockInv says that there is exactly one such block.                     *)
(***************************************************************************)

\* The packets of the blocks bs whose numbers are first, first + 1, ... last - 1.
Line(bs, first, last) == [k \in 1 .. last - first |-> bs[At(bs, first + k - 1)].mess]

Once(bs, n) ==
  \E i \in DOMAIN bs : Carries(bs[i], n) /\ \A j \in DOMAIN bs : Carries(bs[j], n) => i = j

\* The last of the numbers from a to b.
LEMMA CountLemma ==
  ASSUME NEW a \in Nat, NEW b \in Nat, a <= b
  PROVE  a + ((b - a) + 1) - 1 = b /\ (b - a) + 1 \in 1 .. (b - a) + 1
OBVIOUS

\* A number that is there once is found.
LEMMA AtLemma ==
  ASSUME NEW bs, NEW n, NEW i \in DOMAIN bs, Carries(bs[i], n),
         \A j \in DOMAIN bs : Carries(bs[j], n) => i = j
  PROVE  At(bs, n) = i
BY Zenon DEF At

\* Two lists of blocks that have the same packet under a number.
LEMMA SameLemma ==
  ASSUME NEW bs, NEW cs, NEW n, Once(bs, n), Once(cs, n),
         \A i \in DOMAIN bs : Carries(bs[i], n) =>
           i \in DOMAIN cs /\ Carries(cs[i], n) /\ cs[i].mess = bs[i].mess
  PROVE  bs[At(bs, n)].mess = cs[At(cs, n)].mess
<1>1. PICK i \in DOMAIN bs : Carries(bs[i], n) /\ \A j \in DOMAIN bs : Carries(bs[j], n) => i = j
  BY DEF Once
<1>2. PICK k \in DOMAIN cs : Carries(cs[k], n) /\ \A j \in DOMAIN cs : Carries(cs[j], n) => k = j
  BY DEF Once
<1>3. At(bs, n) = i /\ At(cs, n) = k
  BY <1>1, <1>2, AtLemma
<1>4. i = k
  BY <1>1, <1>2
<1> QED
  BY <1>1, <1>3, <1>4

\* Two lists of blocks that have the same packets under a range of numbers.
LEMMA LineLemma ==
  ASSUME NEW bs, NEW cs, NEW first \in Nat, NEW last \in Nat,
         \A n \in first .. last - 1 :
           /\ Once(bs, n) /\ Once(cs, n)
           /\ \A i \in DOMAIN bs : Carries(bs[i], n) =>
                i \in DOMAIN cs /\ Carries(cs[i], n) /\ cs[i].mess = bs[i].mess
  PROVE  Line(bs, first, last) = Line(cs, first, last)
<1>1. ASSUME NEW k \in 1 .. last - first
      PROVE  bs[At(bs, first + k - 1)].mess = cs[At(cs, first + k - 1)].mess
  <2>1. first + k - 1 \in first .. last - 1
    OBVIOUS
  <2> QED
    BY <2>1, SameLemma
<1> QED
  BY <1>1 DEF Line

\* The tail of a sequence.
LEMMA TailLemma ==
  ASSUME NEW n \in Nat, n > 0, NEW f, f = [k \in 1 .. n |-> f[k]]
  PROVE  Tail(f) = [k \in 1 .. n - 1 |-> f[k + 1]]
<1>1. Len(f) = n
  OBVIOUS
<1> QED
  BY <1>1

\* The get thread makes the parse thread, and takes no step once the process is gone.
GoneInv ==
  /\ gpc = "start" => ppc = "none"
  /\ ppc = "gone" => gpc = "gone"

QInv == TypeOK /\ BlockInv /\ GoneInv

\* Every step keeps what is known of a process that is gone.
LEMMA GoneStep == GoneInv /\ [Next]_vars => GoneInv'
<1> SUFFICES ASSUME GoneInv, [Next]_vars PROVE GoneInv'
  OBVIOUS
<1>1. CASE Get
  BY <1>1 DEF Get, GetStart, GetTest, GetNothing, GetBroken, GetFreeBlock, GetExit, GetPacket,
              getFrame, parseVars, GoneInv
<1>2. CASE Parse
  BY <1>2 DEF Parse, ParseTest, ParseLook, Export, ExportFault, ParseFree, parseFrame, getVars,
              GoneInv
<1>3. CASE Handle
  BY <1>3 DEF Handle, HandleTest, ScanPass, ScanAbort, ScanLater, ScanWrite, HandleClock,
              HandleEnd, HandleClose, handleFrame, getVars, parseVars, GoneInv
<1>4. CASE Tick \/ CloseCall \/ CloseJoin \/ Terminating \/ UNCHANGED vars
  BY <1>4 DEF Tick, CloseCall, CloseJoin, Terminating, handleFrame, getVars, parseVars, vars,
              GoneInv
<1> QED
  BY <1>1, <1>2, <1>3, <1>4 DEF Next

\* Every number that waits is there once.
LEMMA OnceLemma ==
  ASSUME TypeOK, BlockInv, NEW n \in pcount .. gcount - 1
  PROVE  Once(rblocks, n)
<1>1. PICK i \in DOMAIN rblocks : Held(i) /\ rblocks[i].count = n
  BY DEF BlockInv
<1>2. ASSUME NEW j \in DOMAIN rblocks, Carries(rblocks[j], n)
      PROVE  i = j
  BY <1>1, <1>2 DEF BlockInv, Held, Carries
<1> QED
  BY <1>1, <1>2 DEF Once, Held, Carries

\* The mapping's queue is a line of packets.
LEMMA WaitingLemma == Waiting = Line(rblocks, FirstWaiting, gcount)
BY DEF Waiting, Line

\* The packet the parse thread has in its hands carries its number.
LEMMA HandsLemma ==
  ASSUME TypeOK, BlockInv, ppc \in {"export", "free"}
  PROVE  pcount < gcount /\ Held(pblk) /\ rblocks[pblk].count = pcount
<1>1. Held(pblk) /\ rblocks[pblk].count = pcount /\ pblk \in DOMAIN rblocks
  BY DEF BlockInv, TypeOK
<1>2. pcount \in pcount .. gcount - 1
  BY <1>1 DEF BlockInv
<1> QED
  BY <1>1, <1>2 DEF TypeOK

-----------------------------------------------------------------------------
(* Steps.                                                                  *)

\* Steps that change no block, no number and not what the parse thread holds.
LEMMA StutterStep ==
  ASSUME UNCHANGED <<rblocks, gcount, pcount, pblk>>, Parsing' <=> Parsing
  PROVE  UNCHANGED (Queue!vars)
<1>1. FirstWaiting' = FirstWaiting /\ InHands' = InHands
  BY DEF FirstWaiting, InHands
<1>2. Waiting' = Waiting
  BY <1>1 DEF Waiting
<1> QED
  BY <1>1, <1>2 DEF Queue!vars

\* A new packet goes to the end of the queue.
LEMMA PutStep ==
  ASSUME QInv, QInv', NEW m \in Packets, GetPacket(m)
  PROVE  Queue!Put
<1> USE DEF QInv
<1>1. /\ gcount' = gcount + 1 /\ pcount' = pcount /\ ppc' = ppc /\ pblk' = pblk
      /\ rblocks' = [rblocks EXCEPT ![gblk] = Numbered(m)]
      /\ gpc = "get" /\ ~Held(gblk) /\ gblk \in DOMAIN rblocks
  BY DEF GetPacket, getFrame, parseVars, BlockInv, TypeOK
<1>2. FirstWaiting' = FirstWaiting /\ FirstWaiting \in pcount .. gcount
      /\ FirstWaiting \in Nat /\ gcount \in Nat /\ pcount \in Nat
  <2>1. gcount \in Nat /\ pcount \in Nat /\ pcount <= gcount
    BY DEF TypeOK, BlockInv
  <2>2. Parsing => pcount < gcount
    <3>1. Parsing => ppc \in {"export", "free"}
      BY <1>1 DEF GoneInv, Parsing
    <3> QED
      BY <3>1, HandsLemma
  <2>3. FirstWaiting' = FirstWaiting
    BY <1>1 DEF FirstWaiting, Parsing
  <2> QED
    BY <2>1, <2>2, <2>3 DEF FirstWaiting
<1>3. InHands' = InHands
  <2>1. CASE Parsing
    <3>1. ppc \in {"export", "free"}
      BY <1>1, <2>1 DEF Parsing, GoneInv
    <3>2. pblk # gblk /\ pblk \in DOMAIN rblocks
      BY <1>1, <3>1, HandsLemma DEF TypeOK
    <3> QED
      BY <1>1, <2>1, <3>2 DEF InHands, Parsing
  <2> QED
    BY <1>1, <2>1 DEF InHands, Parsing
<1>4. Line(rblocks', FirstWaiting, gcount) = Line(rblocks, FirstWaiting, gcount)
  <2>1. ASSUME NEW n \in FirstWaiting .. gcount - 1
        PROVE  /\ Once(rblocks, n) /\ Once(rblocks', n)
               /\ \A i \in DOMAIN rblocks : Carries(rblocks[i], n) =>
                    i \in DOMAIN rblocks' /\ Carries(rblocks'[i], n)
                      /\ rblocks'[i].mess = rblocks[i].mess
    <3>1. n \in pcount .. gcount - 1
      BY <1>2
    <3>2. Once(rblocks, n)
      BY <3>1, OnceLemma
    <3>3. \A i \in DOMAIN rblocks : Carries(rblocks[i], n) =>
                    i \in DOMAIN rblocks' /\ Carries(rblocks'[i], n)
                      /\ rblocks'[i].mess = rblocks[i].mess
      BY <1>1 DEF Held, Carries
    <3>4. Once(rblocks', n)
      <4>1. \A i \in DOMAIN rblocks' : Carries(rblocks'[i], n) => Carries(rblocks[i], n)
        BY <1>1, <3>1 DEF Carries, Numbered
      <4> QED
        BY <1>1, <3>2, <3>3, <4>1 DEF Once
    <3> QED
      BY <3>2, <3>3, <3>4
  <2>2. \A n \in FirstWaiting .. gcount - 1 :
               /\ Once(rblocks, n) /\ Once(rblocks', n)
               /\ \A i \in DOMAIN rblocks : Carries(rblocks[i], n) =>
                    i \in DOMAIN rblocks' /\ Carries(rblocks'[i], n)
                      /\ rblocks'[i].mess = rblocks[i].mess
    BY <2>1
  <2>3. FirstWaiting \in Nat /\ gcount \in Nat
    BY <1>2
  <2> QED
    BY <2>2, <2>3, LineLemma, Zenon
<1>5. rblocks'[At(rblocks', gcount)].mess = m
  <2>1. gblk \in DOMAIN rblocks' /\ Carries(rblocks'[gblk], gcount) /\ rblocks'[gblk].mess = m
    BY <1>1 DEF Carries, Numbered
  <2>2. \A j \in DOMAIN rblocks' : Carries(rblocks'[j], gcount) => gblk = j
    <3>1. \A j \in DOMAIN rblocks : Held(j) => rblocks[j].count # gcount
      BY <1>2 DEF BlockInv
    <3> QED
      BY <1>1, <3>1 DEF Carries, Held
  <2> QED
    BY <2>1, <2>2, AtLemma
<1>6. Line(rblocks', FirstWaiting, gcount + 1) = Append(Line(rblocks', FirstWaiting, gcount), m)
  <2> DEFINE n == gcount - FirstWaiting
             f == Line(rblocks', FirstWaiting, gcount)
             g == Line(rblocks', FirstWaiting, gcount + 1)
  <2>1. n \in Nat /\ (gcount + 1) - FirstWaiting = n + 1
    BY <1>2
  <2>2. /\ f = [k \in 1 .. n |-> rblocks'[At(rblocks', FirstWaiting + k - 1)].mess]
        /\ g = [k \in 1 .. n + 1 |-> rblocks'[At(rblocks', FirstWaiting + k - 1)].mess]
    <3>1. f = [k \in 1 .. gcount - FirstWaiting |->
                 rblocks'[At(rblocks', FirstWaiting + k - 1)].mess]
      BY Zenon DEF Line
    <3>2. g = [k \in 1 .. (gcount + 1) - FirstWaiting |->
                 rblocks'[At(rblocks', FirstWaiting + k - 1)].mess]
      BY Zenon DEF Line
    <3>3. (gcount + 1) - FirstWaiting = n + 1
      BY <2>1
    <3> QED
      BY <3>1, <3>2, <3>3, Zenon
  <2>3. g[n + 1] = m
    <3>1. FirstWaiting + (n + 1) - 1 = gcount /\ n + 1 \in 1 .. n + 1
      BY <1>2, CountLemma
    <3> QED
      BY <1>5, <2>2, <3>1
  <2>4. Len(f) = n
    BY <2>1, <2>2
  <2> HIDE DEF f, g
  <2>5. Append(f, m) = [k \in 1 .. n + 1 |-> IF k = n + 1 THEN m ELSE f[k]]
    BY <2>1, <2>2, <2>4
  <2>6. \A k \in 1 .. n + 1 : g[k] = IF k = n + 1 THEN m ELSE f[k]
    BY <2>1, <2>2, <2>3
  <2>7. g = Append(f, m)
    BY <2>1, <2>2, <2>5, <2>6
  <2> QED
    BY <2>7 DEF f, g
<1>7. Waiting' = Append(Waiting, m)
  <2>1. Waiting' = Line(rblocks', FirstWaiting, gcount + 1)
    BY <1>1, <1>2 DEF Waiting, Line
  <2> QED
    BY <1>4, <1>6, <2>1, WaitingLemma
<1>8. m \in Message
  BY PacketLemma
<1> QED
  BY <1>3, <1>7, <1>8 DEF Queue!Put

\* The packet with the next number is the head of the queue.
LEMMA TakeStep ==
  ASSUME QInv, ParseLook, ppc' = "export"
  PROVE  Queue!Take
<1> USE DEF QInv
<1>1. /\ ppc = "look" /\ UNCHANGED <<rblocks, pcount, gcount>>
      /\ pblk' \in DOMAIN rblocks /\ Awaited(pblk')
  BY DEF ParseLook, parseFrame, getVars
<1>2. /\ FirstWaiting = pcount /\ FirstWaiting' = pcount + 1
      /\ InHands = <<>> /\ InHands' = <<rblocks[pblk'].mess>>
  BY <1>1 DEF FirstWaiting, InHands, Parsing
<1>3. /\ gcount \in Nat /\ pcount \in Nat /\ pcount < gcount
      /\ At(rblocks, pcount) = pblk'
  <2>1. pcount \in pcount .. gcount - 1
    BY <1>1 DEF BlockInv, Awaited, Held
  <2>2. \A j \in DOMAIN rblocks : Carries(rblocks[j], pcount) => pblk' = j
    BY <1>1 DEF BlockInv, Held, Awaited, Carries
  <2>3. At(rblocks, pcount) = pblk'
    BY <1>1, <2>2, AtLemma DEF Awaited, Carries
  <2> QED
    BY <2>1, <2>3 DEF TypeOK
<1> DEFINE f == [k \in 1 .. gcount - pcount |-> rblocks[At(rblocks, pcount + k - 1)].mess]
           g == [k \in 1 .. gcount - (pcount + 1) |->
                   rblocks[At(rblocks, pcount + 1 + k - 1)].mess]
<1>4. Waiting = f /\ Waiting' = g
  BY <1>1, <1>2 DEF Waiting
<1>5. Len(f) = gcount - pcount /\ f # <<>> /\ Head(f) = rblocks[pblk'].mess
  <2>1. 1 \in 1 .. gcount - pcount /\ pcount + 1 - 1 = pcount
    BY <1>3
  <2>2. f[1] = rblocks[pblk'].mess
    BY <1>3, <2>1
  <2> QED
    BY <1>3, <2>1, <2>2
<1>6. Tail(f) = g
  <2>1. Tail(f) = [k \in 1 .. gcount - pcount - 1 |-> f[k + 1]]
    <3> DEFINE n == gcount - pcount
    <3>1. n \in Nat /\ n > 0 /\ f = [k \in 1 .. n |-> f[k]]
      BY <1>3
    <3> HIDE DEF n, f
    <3> QED
      BY <3>1, TailLemma DEF n
  <2>2. \A k \in 1 .. gcount - pcount - 1 :
          k + 1 \in 1 .. gcount - pcount /\ pcount + (k + 1) - 1 = pcount + 1 + k - 1
    BY <1>3
  <2>3. gcount - pcount - 1 = gcount - (pcount + 1)
    BY <1>3
  <2> QED
    BY <2>1, <2>2, <2>3
<1> QED
  BY <1>2, <1>4, <1>5, <1>6 DEF Queue!Take

\* The block is free again: the queue does not change.
LEMMA FinishStep ==
  ASSUME QInv, QInv', ParseFree
  PROVE  Queue!Finish
<1> USE DEF QInv
<1>1. /\ ppc = "free" /\ ppc' = "test" /\ pcount' = pcount + 1 /\ gcount' = gcount
      /\ rblocks' = [rblocks EXCEPT ![pblk] = NewRecvBlock]
  BY DEF ParseFree, parseFrame, getVars
<1>2. /\ FirstWaiting = pcount + 1 /\ FirstWaiting' = pcount + 1
      /\ InHands # <<>> /\ InHands' = <<>>
  BY <1>1 DEF FirstWaiting, InHands, Parsing
<1>3. gcount \in Nat /\ pcount + 1 \in Nat
  BY DEF TypeOK
<1>4. ASSUME NEW n \in pcount + 1 .. gcount - 1
      PROVE  /\ Once(rblocks, n) /\ Once(rblocks', n)
             /\ \A i \in DOMAIN rblocks : Carries(rblocks[i], n) =>
                  i \in DOMAIN rblocks' /\ Carries(rblocks'[i], n)
                    /\ rblocks'[i].mess = rblocks[i].mess
  <2>1. n \in pcount .. gcount - 1 /\ n # pcount /\ n \in pcount' .. gcount' - 1
    <3>1. pcount \in Nat
      BY DEF TypeOK
    <3>2. n \in Int /\ pcount + 1 <= n /\ n <= gcount - 1
      BY <1>3
    <3>3. n \in pcount .. gcount - 1 /\ n # pcount
      BY <1>3, <3>1, <3>2
    <3> QED
      BY <1>1, <3>3
  <2>2. Once(rblocks, n)
    BY <2>1, OnceLemma
  <2>3. rblocks[pblk].count = pcount
    BY <1>1, HandsLemma
  <2>4. \A i \in DOMAIN rblocks : Carries(rblocks[i], n) =>
                  i \in DOMAIN rblocks' /\ Carries(rblocks'[i], n)
                    /\ rblocks'[i].mess = rblocks[i].mess
    BY <1>1, <2>1, <2>3 DEF Carries
  <2>5. \A i \in DOMAIN rblocks' : Carries(rblocks'[i], n) => Carries(rblocks[i], n)
    BY <1>1 DEF Carries, NewRecvBlock
  <2>6. Once(rblocks', n)
    BY <1>1, <2>2, <2>4, <2>5 DEF Once
  <2> QED
    BY <2>2, <2>4, <2>6
<1>5. Line(rblocks', pcount + 1, gcount) = Line(rblocks, pcount + 1, gcount)
  BY <1>3, <1>4, LineLemma
<1>6. Waiting' = Waiting
  BY <1>1, <1>2, <1>5 DEF Waiting, Line
<1> QED
  BY <1>2, <1>6 DEF Queue!Finish

\* A free block more, or none, for the get thread.
LEMMA PickStep ==
  ASSUME QInv, QInv', GetFreeBlock
  PROVE  UNCHANGED (Queue!vars)
<1> USE DEF QInv
<1>1. CASE UNCHANGED rblocks
  BY <1>1, StutterStep DEF GetFreeBlock, getFrame, parseVars, Parsing
<1>2. CASE rblocks' = Append(rblocks, NewRecvBlock)
  <2>1. /\ UNCHANGED <<gcount, pcount, pblk, ppc>> /\ rblocks \in Seq(RecvBlock)
        /\ pblk \in DOMAIN rblocks /\ gcount \in Nat /\ pcount \in Nat
    BY DEF GetFreeBlock, getFrame, parseVars, TypeOK
  <2>2. FirstWaiting' = FirstWaiting /\ FirstWaiting \in Nat
          /\ FirstWaiting .. gcount - 1 \subseteq pcount .. gcount - 1
    BY <2>1 DEF FirstWaiting, Parsing
  <2>3. InHands' = InHands
    BY <1>2, <2>1 DEF InHands, Parsing
  <2>4. ASSUME NEW n \in FirstWaiting .. gcount - 1
        PROVE  /\ Once(rblocks, n) /\ Once(rblocks', n)
               /\ \A i \in DOMAIN rblocks : Carries(rblocks[i], n) =>
                    i \in DOMAIN rblocks' /\ Carries(rblocks'[i], n)
                      /\ rblocks'[i].mess = rblocks[i].mess
    <3>1. n \in pcount .. gcount - 1 /\ n \in pcount' .. gcount' - 1
      BY <2>1, <2>2
    <3>2. Once(rblocks, n)
      BY <3>1, OnceLemma
    <3>3. \A i \in DOMAIN rblocks : i \in DOMAIN rblocks' /\ rblocks'[i] = rblocks[i]
      BY <1>2, <2>1
    <3>4. \A i \in DOMAIN rblocks' : Carries(rblocks'[i], n) => i \in DOMAIN rblocks
      BY <1>2, <2>1 DEF Carries, NewRecvBlock
    <3>5. Once(rblocks', n)
      BY <3>2, <3>3, <3>4 DEF Once
    <3> QED
      BY <3>2, <3>3, <3>5
  <2>5. Line(rblocks', FirstWaiting, gcount) = Line(rblocks, FirstWaiting, gcount)
    BY <2>1, <2>2, <2>4, LineLemma
  <2>6. Waiting' = Waiting
    BY <2>1, <2>2, <2>5 DEF Waiting, Line
  <2> QED
    BY <2>3, <2>6 DEF Queue!vars
<1> QED
  BY <1>1, <1>2 DEF GetFreeBlock

\* Every step is a step of the queue or changes nothing in it.
LEMMA QueueStep ==
  ASSUME QInv, QInv', [Next]_vars
  PROVE  [Queue!Next]_(Queue!vars)
<1>1. CASE \E m \in Packets : GetPacket(m)
  BY <1>1, PutStep DEF Queue!Next
<1>2. CASE GetFreeBlock
  BY <1>2, PickStep
<1>3. CASE ParseLook /\ ppc' = "export"
  BY <1>3, TakeStep DEF Queue!Next
<1>4. CASE ParseFree
  BY <1>4, FinishStep DEF Queue!Next
<1>5. CASE GetStart
  <2>1. ~Parsing
    BY <1>5 DEF GetStart, QInv, GoneInv, Parsing
  <2> QED
    BY <1>5, <2>1, StutterStep DEF GetStart, Parsing
<1>6. CASE GetTest \/ GetNothing \/ GetBroken \/ GetExit
  BY <1>6, StutterStep DEF GetTest, GetNothing, GetBroken, GetExit, getFrame, parseVars, Parsing
<1>7. CASE ParseTest \/ (ParseLook /\ ppc' = "test")
  BY <1>7, StutterStep DEF ParseTest, ParseLook, parseFrame, getVars, Parsing
<1>8. CASE Export \/ ExportFault
  BY <1>8, StutterStep DEF Export, ExportFault, parseFrame, getVars, Parsing
<1>9. CASE Handle
  BY <1>9, StutterStep
  DEF Handle, HandleTest, ScanPass, ScanAbort, ScanLater, ScanWrite, HandleClock,
      HandleEnd, HandleClose, handleFrame, getVars, parseVars, Parsing
<1>10. CASE Tick \/ CloseCall \/ CloseJoin \/ Terminating \/ UNCHANGED vars
  BY <1>10, StutterStep
  DEF Tick, CloseCall, CloseJoin, Terminating, handleFrame, getVars, parseVars, vars, Parsing
<1>11. ParseLook => ppc' \in {"export", "test"}
  BY DEF ParseLook
<1> QED
  BY <1>1, <1>2, <1>3, <1>4, <1>5, <1>6, <1>7, <1>8, <1>9, <1>10, <1>11 DEF Next, Get, Parse

\* In the beginning nothing waits.
LEMMA QueueInit == Init => Queue!Init /\ GoneInv
<1> SUFFICES ASSUME Init PROVE Queue!Init /\ GoneInv
  OBVIOUS
<1>1. ppc = "none" /\ pcount = 1 /\ gcount = 1
  BY DEF Init
<1>2. InHands = <<>> /\ FirstWaiting = 1 /\ GoneInv
  BY <1>1 DEF InHands, FirstWaiting, Parsing, GoneInv
<1>3. Waiting = <<>>
  BY <1>1, <1>2 DEF Waiting
<1> QED
  BY <1>2, <1>3 DEF Queue!Init

\* The blocks are a queue: no packet is written over while it waits or is parsed.
THEOREM QueueCorrect == Spec => ImplementsQueue
<1>1. IInv /\ GoneInv => QInv
  BY DEF IInv, QInv
<1>2. GoneInv /\ [Next]_vars => GoneInv'
  BY GoneStep
<1>3. QInv /\ QInv' /\ [Next]_vars => [Queue!Next]_(Queue!vars)
  BY QueueStep
<1> QED
  BY <1>1, <1>2, <1>3, Inductive, QueueInit, PTL DEF Spec, ImplementsQueue, Queue!Spec

=============================================================================
