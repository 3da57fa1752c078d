-------------------------- MODULE SendStreamProofs --------------------------
(***************************************************************************)
(* Proofs about SendStream for every file size, message size, list length  *)
(* and set of 413 requests.  The inductive invariant has four parts, each  *)
(* preserved with the help of TypeOK and the parts before it.              *)
(***************************************************************************)
EXTENDS SendStream, TLAPS

(***************************************************************************)
(* The first pass.  The message in hand starts at the session's position   *)
(* and ends ByteRead octets further or with the file; "end" and "wait"     *)
(* (and the handle thread about to write "wait") mean that the pass is     *)
(* over but for that message.                                              *)
(***************************************************************************)
ChunkInHand ==
  spc = "send" =>
    /\ cur = [first |-> start, last |-> end]
    /\ end = IF start + ByteRead - 1 > total THEN total ELSE start + ByteRead - 1

PassOver == start > total \/ (spc = "send" /\ end = total)

EndMeansOver == flag \in {"end", "wait"} \/ hpc = "setwait" => PassOver

PassInv == ChunkInHand /\ NoGap /\ EndMeansOver

(***************************************************************************)
(* Who holds which node: the handle thread a free one, the session thread  *)
(* an active one whose range it copied.                                    *)
(***************************************************************************)
HandleHoldsFree ==
  hpc \notin {"none", "start", "alloc", "realloc", "crashed"} =>
    res \in DOMAIN slots /\ ~slots[res].active

SessionHoldsActive ==
  spc = "resend" =>
    slot \in DOMAIN slots /\ slots[slot].active /\ slots[slot].range = cur

NodeInv == HandleHoldsFree /\ SessionHoldsActive

(***************************************************************************)
(* A close that found no handle thread to join came before the first look  *)
(* at the flag, so neither thread gets into its loop.                      *)
(***************************************************************************)
CloseInv ==
  /\ spc = "start" => hpc = "none"
  /\ hpc = "none" => spc \in {"start", "done"}
  /\ hpc = "none" /\ apc # "idle" => flag = "suspend"
  /\ apc \in {"joinsession", "done"} /\ hpc # "done" =>
       /\ flag = "suspend"
       /\ hpc \in {"none", "start", "test", "crashed"}
       /\ spc \in {"start", "test", "exit", "done"}

\* The size of what waits to be sent and of what was sent.
SizeInv ==
  /\ \A i \in DOMAIN slots : slots[i].active =>
       slots[i].range.last - slots[i].range.first < ByteRead + 1
  /\ MessageBounded

IInv == TypeOK /\ PassInv /\ NodeInv /\ CloseInv /\ OwedTracked /\ SizeInv

-----------------------------------------------------------------------------
(* Types.                                                                  *)

\* The initial state has the types TypeOK gives.
LEMMA TypeInit == Init => TypeOK
<1> SUFFICES ASSUME Init PROVE TypeOK
  OBVIOUS
<1>1. slots \in Seq(Slot) /\ Len(slots) = InitSlots
  BY SendAssumption DEF Init, NewNode, NoPiece, Slot, Piece
<1> QED
  BY <1>1, SendAssumption
  DEF Init, TypeOK, NoPiece, Piece, Flag, Answer, Kind

\* A search of the handle thread returns a node of the list and leaves the list
\* as it was or longer by one free node.
LEMMA GetFreeLotLemma ==
  ASSUME slots \in Seq(Slot), GetFreeLot
  PROVE  /\ slots' \in Seq(Slot)
         /\ res' \in DOMAIN slots'
         /\ Len(slots) <= Len(slots')
         /\ ~slots'[res'].active
         /\ \A i \in DOMAIN slots : slots'[i] = slots[i]
         /\ \A i \in DOMAIN slots' \ DOMAIN slots : slots'[i] = NewNode
<1>1. CASE UNCHANGED slots /\ \E i \in DOMAIN slots : Found(i, FALSE) /\ res' = i
  BY <1>1 DEF Found
<1>2. CASE slots' = Append(slots, NewNode) /\ res' = Len(slots) + 1
  <2>1. NewNode \in Slot
    BY DEF NewNode, NoPiece, Slot, Piece
  <2> QED
    BY <1>2, <2>1 DEF NewNode
<1> QED
  BY <1>1, <1>2 DEF GetFreeLot

\* Marking the node the handle thread holds changes that node only.
LEMMA PublishLemma ==
  ASSUME slots \in Seq(Slot), NEW r \in Piece, res \in DOMAIN slots, Publish(r)
  PROVE  /\ slots' \in Seq(Slot) /\ DOMAIN slots' = DOMAIN slots
         /\ Len(slots') = Len(slots)
         /\ slots'[res] = [active |-> TRUE, range |-> r]
         /\ \A i \in DOMAIN slots : i # res => slots'[i] = slots[i]
BY DEF Publish, Slot

\* Every step keeps the types; only the steps that touch the list or the ranges
\* need more than the range of one variable.
LEMMA TypeStep == TypeOK /\ NodeInv /\ [Next]_vars => TypeOK'
<1> SUFFICES ASSUME TypeOK, NodeInv, [Next]_vars PROVE TypeOK'
  OBVIOUS
<1> USE SendAssumption DEF TypeOK
<1>1. CASE Session
  <2>6. CASE SessionEmpty
    BY <2>6 DEF SessionEmpty, handleVars, history
  <2>7. CASE SessionBegin
    BY <2>7 DEF SessionBegin, history
  <2>8. CASE SessionTest
    BY <2>8 DEF SessionTest, handleVars, history
  <2>9. CASE SessionExit
    BY <2>9 DEF SessionExit, handleVars, history
  <2>1. CASE PickNothing
    BY <2>1 DEF PickNothing, handleVars, history
  <2>2. CASE PickResend
    <3>1. PICK i \in DOMAIN slots : slot' = i /\ cur' = slots[i].range
      BY <2>2 DEF PickResend
    <3>2. slots[i] \in Slot /\ i \in 0 .. Len(slots)
      OBVIOUS
    <3>3. cur' \in Piece
      BY <3>1, <3>2 DEF Slot
    <3> QED
      BY <2>2, <3>1, <3>2, <3>3 DEF PickResend, handleVars, history
  <2>3. CASE Resend
    <3>1. slot \in DOMAIN slots /\ slots[slot] \in Slot
      BY <2>3 DEF Resend, NodeInv, SessionHoldsActive
    <3>2. [slots[slot] EXCEPT !.active = FALSE] \in Slot
      BY <3>1 DEF Slot
    <3>3. slots' = [slots EXCEPT ![slot] = [slots[slot] EXCEPT !.active = FALSE]]
      BY <2>3 DEF Resend
    <3>4. slots' \in Seq(Slot) /\ Len(slots') = Len(slots)
      BY <3>1, <3>2, <3>3
    <3> QED
      BY <2>3, <3>4 DEF Resend, handleVars
  <2>4. CASE NextChunk
    BY <2>4 DEF NextChunk, Piece, Flag, handleVars, history
  <2>5. CASE SendChunk
    BY <2>5 DEF SendChunk, handleVars
  <2> QED
    BY <1>1, <2>1, <2>2, <2>3, <2>4, <2>5, <2>6, <2>7, <2>8, <2>9 DEF Session
<1>2. CASE Handle
  <2>1. CASE HandleStart \/ HandleAlloc
    <3>1. GetFreeLot
      BY <2>1 DEF HandleStart, HandleAlloc
    <3>2. slots' \in Seq(Slot) /\ res' \in 0 .. Len(slots') /\ slot \in 0 .. Len(slots')
      BY <3>1, GetFreeLotLemma
    <3>3. CASE HandleStart
      BY <3>2, <3>3 DEF HandleStart, sessionVars, history
    <3>4. CASE HandleAlloc
      BY <3>2, <3>4 DEF HandleAlloc, sessionVars, history
    <3> QED
      BY <2>1, <3>3, <3>4
  <2>2. CASE HandleFault
    BY <2>2 DEF HandleFault, sessionVars, history
  <2>3. CASE HandleTest
    BY <2>3 DEF HandleTest, sessionVars, history
  <2>4. CASE CheckEnd
    BY <2>4 DEF CheckEnd, sessionVars, history
  <2>5. CASE SetWait
    BY <2>5 DEF SetWait, Flag, sessionVars, history
  <2>6. CASE CheckWait
    BY <2>6 DEF CheckWait, Flag, sessionVars, history
  <2>7. CASE AnswerIdle
    BY <2>7 DEF AnswerIdle, sessionVars, history
  <2>8. CASE AnswerBroken
    BY <2>8 DEF AnswerBroken, Flag, sessionVars, history
  <2>9. CASE AnswerOk
    BY <2>9 DEF AnswerOk, Flag, sessionVars, history
  <2>10. CASE AnswerResend
    <3>1. answer.range \in Piece
      BY DEF Answer
    <3>2. Octets(answer.range) \subseteq Nat
      BY <3>1 DEF Piece, Octets
    <3> QED
      BY <2>10, <3>1, <3>2 DEF AnswerResend, sessionVars
  <2>11. CASE SplitMore
    <3> DEFINE r == [first |-> rest.first, last |-> rest.first + ByteRead - 1]
    <3>9. rest.first \in Nat /\ rest.last \in Nat
      BY DEF Piece
    <3>1. r \in Piece /\ rest' \in Piece
      <4>1. rest.first + ByteRead - 1 \in Nat /\ rest.first + ByteRead \in Nat
        BY <3>9
      <4>2. rest' = [rest EXCEPT !.first = rest.first + ByteRead]
        BY <2>11 DEF SplitMore
      <4> QED
        BY <3>9, <4>1, <4>2 DEF Piece
    <3>2. res \in DOMAIN slots
      BY <2>11 DEF SplitMore, NodeInv, HandleHoldsFree
    <3>3. slots' \in Seq(Slot) /\ Len(slots') = Len(slots)
      BY <2>11, <3>1, <3>2, PublishLemma DEF SplitMore
    <3> QED
      BY <2>11, <3>1, <3>3 DEF SplitMore, sessionVars, history
  <2>12. CASE SplitLast
    <3>1. res \in DOMAIN slots
      BY <2>12 DEF SplitLast, NodeInv, HandleHoldsFree
    <3>2. slots' \in Seq(Slot) /\ Len(slots') = Len(slots)
      BY <2>12, <3>1, PublishLemma DEF SplitLast
    <3> QED
      BY <2>12, <3>2 DEF SplitLast, sessionVars, history
  <2> QED
    BY <1>2, <2>1, <2>2, <2>3, <2>4, <2>5, <2>6, <2>7, <2>8, <2>9, <2>10, <2>11,
       <2>12 DEF Handle
<1>3. CASE Report
  <2>1. \A a \in Answers : a \in Answer
    BY DEF Answers, Answer, Kind, NoPiece, Piece
  <2> QED
    BY <1>3, <2>1 DEF Report, Poll, sessionVars, history
<1>4. CASE Tick \/ CloseCall \/ Close
  <2>1. CASE Tick
    BY <2>1 DEF Tick, sessionVars, history
  <2>2. CASE CloseCall
    BY <2>2 DEF CloseCall, Flag, sessionVars, handleVars, history
  <2>3. CASE CloseLook
    BY <2>3 DEF CloseLook, sessionVars, handleVars, history
  <2>4. CASE CloseJoinHandle
    BY <2>4 DEF CloseJoinHandle, sessionVars, handleVars, history
  <2>5. CASE CloseJoinSession
    BY <2>5 DEF CloseJoinSession, sessionVars, handleVars, history
  <2> QED
    BY <1>4, <2>1, <2>2, <2>3, <2>4, <2>5 DEF Close
<1>5. CASE UNCHANGED vars
  BY <1>5 DEF vars, sessionVars, handleVars, history
<1> QED
  BY <1>1, <1>2, <1>3, <1>4, <1>5 DEF Next, Terminating

-----------------------------------------------------------------------------
(* Nodes and close.                                                        *)

\* The handle thread's node stays free and the session thread's node stays
\* active: neither thread's step touches the node of the other.
LEMMA NodeStep == TypeOK /\ NodeInv /\ [Next]_vars => NodeInv'
<1> SUFFICES ASSUME TypeOK, NodeInv, [Next]_vars PROVE NodeInv'
  OBVIOUS
<1> USE DEF NodeInv, HandleHoldsFree, SessionHoldsActive
<1>1. slots \in Seq(Slot) /\ slot \in 0 .. Len(slots) /\ res \in 0 .. Len(slots)
  BY DEF TypeOK
<1>2. CASE Session
  <2>1. CASE SessionEmpty \/ SessionTest \/ SessionExit \/ PickNothing
    BY <2>1 DEF SessionEmpty, SessionTest, SessionExit, PickNothing,
       handleVars, history
  <2>2. CASE SessionBegin
    BY <2>2 DEF SessionBegin, history
  <2>3. CASE PickResend
    BY <2>3 DEF PickResend, Found, handleVars
  <2>4. CASE Resend
    <3>1. slots' = [slots EXCEPT ![slot] = [slots[slot] EXCEPT !.active = FALSE]]
      BY <2>4 DEF Resend
    <3>2. slot \in DOMAIN slots /\ slots[slot] \in Slot
      BY <1>1, <2>4 DEF Resend
    <3>3. ~slots'[slot].active
      BY <3>1, <3>2 DEF Slot
    <3>4. DOMAIN slots' = DOMAIN slots
            /\ \A i \in DOMAIN slots : i # slot => slots'[i] = slots[i]
      BY <3>1, <3>2
    <3> QED
      BY <2>4, <3>3, <3>4 DEF Resend, handleVars
  <2>5. CASE NextChunk
    BY <2>5 DEF NextChunk, handleVars
  <2>6. CASE SendChunk
    BY <2>6 DEF SendChunk, handleVars
  <2> QED
    BY <1>2, <2>1, <2>2, <2>3, <2>4, <2>5, <2>6 DEF Session
<1>3. CASE Handle
  <2>1. CASE HandleStart \/ HandleAlloc
    <3>1. GetFreeLot /\ UNCHANGED sessionVars
      BY <2>1 DEF HandleStart, HandleAlloc
    <3>2. /\ res' \in DOMAIN slots' /\ ~slots'[res'].active
          /\ Len(slots) <= Len(slots') /\ slots' \in Seq(Slot)
          /\ \A i \in DOMAIN slots : slots'[i] = slots[i]
      BY <1>1, <3>1, GetFreeLotLemma
    <3>3. DOMAIN slots \subseteq DOMAIN slots'
      BY <1>1, <3>2
    <3> QED
      BY <3>1, <3>2, <3>3 DEF sessionVars
  <2>2. CASE HandleFault \/ HandleTest \/ CheckEnd \/ SetWait \/ CheckWait
    BY <2>2 DEF HandleFault, HandleTest, CheckEnd, SetWait, CheckWait, sessionVars
  <2>3. CASE AnswerIdle \/ AnswerBroken \/ AnswerOk \/ AnswerResend
    BY <2>3 DEF AnswerIdle, AnswerBroken, AnswerOk, AnswerResend, sessionVars
  <2>4. CASE SplitMore \/ SplitLast
    <3>1. /\ UNCHANGED sessionVars /\ hpc' \in {"alloc", "realloc"}
          /\ res \in DOMAIN slots /\ ~slots[res].active
      BY <2>4 DEF SplitMore, SplitLast
    <3>2. PICK r : Publish(r)
      BY <2>4 DEF SplitMore, SplitLast
    <3>3. DOMAIN slots' = DOMAIN slots
            /\ \A i \in DOMAIN slots : i # res => slots'[i] = slots[i]
      BY <1>1, <3>1, <3>2 DEF Publish
    <3> QED
      BY <3>1, <3>3 DEF sessionVars
  <2> QED
    BY <1>3, <2>1, <2>2, <2>3, <2>4 DEF Handle
<1>4. CASE Report
  BY <1>4 DEF Report, Poll, sessionVars
<1>5. CASE Tick \/ CloseCall \/ Close
  BY <1>5 DEF Tick, CloseCall, Close, CloseLook, CloseJoinHandle, CloseJoinSession,
     sessionVars, handleVars
<1>6. CASE UNCHANGED vars
  BY <1>6 DEF vars, sessionVars, handleVars
<1> QED
  BY <1>2, <1>3, <1>4, <1>5, <1>6 DEF Next, Terminating

\* A close that came before the handle thread was made keeps both threads out of
\* their loops; any other close has waited for the handle thread.
LEMMA CloseStep == TypeOK /\ CloseInv /\ [Next]_vars => CloseInv'
<1> SUFFICES ASSUME TypeOK, CloseInv, [Next]_vars PROVE CloseInv'
  OBVIOUS
<1> USE DEF CloseInv
<1>1. CASE Session
  <2>1. CASE SessionEmpty \/ SessionBegin
    BY <2>1 DEF SessionEmpty, SessionBegin, handleVars
  <2>2. CASE SessionTest \/ SessionExit \/ PickNothing \/ PickResend
    BY <2>2 DEF SessionTest, SessionExit, PickNothing, PickResend, Stopped, handleVars
  <2>3. CASE Resend \/ NextChunk \/ SendChunk
    BY <2>3 DEF Resend, NextChunk, SendChunk, handleVars
  <2> QED
    BY <1>1, <2>1, <2>2, <2>3 DEF Session
<1>2. CASE Handle
  <2>1. CASE HandleStart \/ HandleFault \/ HandleTest \/ HandleAlloc
    BY <2>1 DEF HandleStart, HandleFault, HandleTest, HandleAlloc, Stopped, sessionVars
  <2>2. CASE CheckEnd \/ SetWait \/ CheckWait
    BY <2>2 DEF CheckEnd, SetWait, CheckWait, sessionVars
  <2>3. CASE AnswerIdle \/ AnswerBroken \/ AnswerOk \/ AnswerResend
    BY <2>3 DEF AnswerIdle, AnswerBroken, AnswerOk, AnswerResend, sessionVars
  <2>4. CASE SplitMore \/ SplitLast
    BY <2>4 DEF SplitMore, SplitLast, sessionVars
  <2> QED
    BY <1>2, <2>1, <2>2, <2>3, <2>4 DEF Handle
<1>3. CASE Report
  BY <1>3 DEF Report, Poll, sessionVars
<1>4. CASE Tick \/ CloseCall
  BY <1>4 DEF Tick, CloseCall, sessionVars, handleVars
<1>5. CASE Close
  BY <1>5 DEF Close, CloseLook, CloseJoinHandle, CloseJoinSession, sessionVars,
     handleVars
<1>6. CASE UNCHANGED vars
  BY <1>6 DEF vars, sessionVars, handleVars
<1> QED
  BY <1>1, <1>2, <1>3, <1>4, <1>5, <1>6 DEF Next, Terminating

-----------------------------------------------------------------------------
(* The first pass.                                                         *)

\* Sending the message in hand extends the sent prefix by exactly that message,
\* and only the last message lets the flag announce the end.
LEMMA PassStep == TypeOK /\ PassInv /\ [Next]_vars => PassInv'
<1> SUFFICES ASSUME TypeOK, PassInv, [Next]_vars PROVE PassInv'
  OBVIOUS
<1> USE DEF PassInv, PassOver
<1>1. total \in Nat /\ start \in Nat /\ end \in Nat /\ ByteRead \in Nat \ {0}
  BY SendAssumption DEF TypeOK
<1>2. CASE NextChunk
  <2>1. ChunkInHand'
    BY <1>2 DEF NextChunk, ChunkInHand
  <2>2. NoGap'
    BY <1>2 DEF NextChunk, NoGap, Sent, history
  <2>3. EndMeansOver'
    BY <1>1, <1>2 DEF NextChunk, PastEnd, EndMeansOver, handleVars
  <2> QED
    BY <2>1, <2>2, <2>3
<1>3. CASE SendChunk
  <2>1. ChunkInHand'
    BY <1>3 DEF SendChunk, ChunkInHand
  <2>2. cur = [first |-> start, last |-> end] /\ start' = start + ByteRead
          /\ end = IF start + ByteRead - 1 > total THEN total
                                                    ELSE start + ByteRead - 1
    BY <1>3 DEF SendChunk, ChunkInHand
  <2>3. NoGap'
    <3> SUFFICES ASSUME NEW b \in 1 .. total, b < start + ByteRead
                 PROVE  \E m \in out \cup {cur} : b \in Octets(m)
      BY <1>3, <2>2 DEF SendChunk, NoGap, Sent
    <3>1. CASE b < start
      BY <3>1 DEF NoGap, Sent
    <3>2. CASE b >= start
      BY <1>1, <2>2, <3>2 DEF Octets
    <3> QED
      BY <1>1, <3>1, <3>2
  <2>4. EndMeansOver'
    BY <1>1, <1>3, <2>2 DEF SendChunk, EndMeansOver, handleVars
  <2> QED
    BY <2>1, <2>3, <2>4
<1>4. CASE SessionEmpty \/ SessionBegin \/ SessionTest \/ SessionExit
             \/ PickResend \/ PickNothing
  BY <1>4 DEF SessionEmpty, SessionBegin, SessionTest, SessionExit, PickResend,
     PickNothing, ChunkInHand, NoGap, Sent, EndMeansOver, handleVars, history
<1>5. CASE Resend
  <2>1. out \subseteq out' /\ UNCHANGED <<total, start, end, flag, hpc>>
          /\ spc = "resend" /\ spc' = "test"
    BY <1>5 DEF Resend, handleVars
  <2> QED
    BY <2>1 DEF ChunkInHand, NoGap, Sent, EndMeansOver
<1>6. CASE Handle \/ Report \/ Tick \/ CloseCall \/ Close \/ UNCHANGED vars
  <2>1. UNCHANGED <<sessionVars, out>>
    BY <1>6 DEF Handle, HandleStart, HandleFault, HandleTest, HandleAlloc, CheckEnd,
       SetWait, CheckWait, AnswerIdle, AnswerBroken, AnswerOk, AnswerResend,
       SplitMore, SplitLast, Report, Poll, Tick, CloseCall, Close, CloseLook,
       CloseJoinHandle, CloseJoinSession, vars, history
  <2>2. flag' \in {"end", "wait"} \/ hpc' = "setwait" =>
          flag \in {"end", "wait"} \/ hpc = "setwait"
    BY <1>6 DEF Handle, HandleStart, HandleFault, HandleTest, HandleAlloc, CheckEnd,
       SetWait, CheckWait, AnswerIdle, AnswerBroken, AnswerOk, AnswerResend,
       SplitMore, SplitLast, Report, Poll, Tick, CloseCall, Close, CloseLook,
       CloseJoinHandle, CloseJoinSession, vars, handleVars
  <2> QED
    BY <2>1, <2>2 DEF sessionVars, ChunkInHand, NoGap, Sent, EndMeansOver
<1> QED
  BY <1>2, <1>3, <1>4, <1>5, <1>6 DEF Next, Session, Terminating

\* When the flag says that the end is announced, every octet of the file was
\* sent or is in the message in hand.
LEMMA PassInvImpliesAnnounced == TypeOK /\ PassInv => AnnouncedAllSent
<1> SUFFICES ASSUME TypeOK, PassInv, flag \in {"end", "wait"}, NEW b \in 1 .. total
             PROVE  Sent(b) \/ (spc = "send" /\ b \in Octets(cur))
  BY DEF AnnouncedAllSent
<1>1. total \in Nat /\ start \in Nat /\ end \in Nat
  BY SendAssumption DEF TypeOK
<1>2. b < start => Sent(b)
  BY DEF PassInv, NoGap
<1>3. CASE start > total
  BY <1>1, <1>2, <1>3
<1>4. CASE spc = "send" /\ end = total
  BY <1>1, <1>2, <1>4 DEF PassInv, ChunkInHand, Octets
<1> QED
  BY <1>3, <1>4 DEF PassInv, EndMeansOver, PassOver

-----------------------------------------------------------------------------
(* Resends.                                                                *)

\* Steps that change neither the list, nor what is owed, nor what is being cut
\* keep OwedTracked.
LEMMA OwedFrame ==
  ASSUME OwedTracked, UNCHANGED <<slots, rest, owed>>,
         hpc \in {"split", "alloc"} => hpc' \in {"split", "alloc"}
  PROVE  OwedTracked'
BY DEF OwedTracked

\* An octet asked for moves from the request to a node and leaves the node only
\* when it is sent; nothing is dropped on the way.
LEMMA OwedStep ==
  TypeOK /\ NodeInv /\ CloseInv /\ OwedTracked /\ [Next]_vars => OwedTracked'
<1> SUFFICES ASSUME TypeOK, NodeInv, CloseInv, OwedTracked, [Next]_vars
             PROVE  OwedTracked'
  OBVIOUS
<1>1. /\ slots \in Seq(Slot) /\ rest \in Piece /\ ByteRead \in Nat \ {0}
      /\ rest.first \in Nat /\ rest.last \in Nat
  BY SendAssumption DEF TypeOK, Piece
<1>2. CASE Resend
  <2> SUFFICES ASSUME NEW b \in owed, b \notin Octets(cur),
                      NEW i \in DOMAIN slots, slots[i].active,
                      b \in Octets(slots[i].range)
               PROVE  \E j \in DOMAIN slots' : slots'[j].active /\ b \in Octets(slots'[j].range)
    BY <1>2 DEF Resend, OwedTracked, handleVars
  <2>1. i # slot
    BY <1>2 DEF Resend, NodeInv, SessionHoldsActive
  <2>2. i \in DOMAIN slots' /\ slots'[i] = slots[i]
    BY <1>1, <1>2, <2>1 DEF Resend
  <2> QED
    BY <2>2
<1>3. CASE HandleStart \/ HandleAlloc
  <2>1. GetFreeLot /\ UNCHANGED <<rest, owed>>
          /\ (hpc \in {"split", "alloc"} => hpc' \in {"split", "alloc"})
    BY <1>3 DEF HandleStart, HandleAlloc, history
  <2>2. \A i \in DOMAIN slots : i \in DOMAIN slots' /\ slots'[i] = slots[i]
    BY <1>1, <2>1, GetFreeLotLemma
  <2> QED
    BY <2>1, <2>2 DEF OwedTracked
<1>4. CASE HandleFault
  <2>1. hpc = "start"
    BY <1>4 DEF HandleFault, CloseInv, Freed
  <2> QED
    BY <1>4, <2>1, OwedFrame DEF HandleFault, history
<1>5. CASE AnswerResend
  <2>1. owed' = owed \cup Octets(rest') /\ hpc = "answer" /\ hpc' = "split"
          /\ UNCHANGED slots
    BY <1>5 DEF AnswerResend
  <2> QED
    BY <2>1 DEF OwedTracked
<1>6. CASE SplitMore
  <2> DEFINE r == [first |-> rest.first, last |-> rest.first + ByteRead - 1]
  <2>1. Publish(r) /\ r \in Piece /\ res \in DOMAIN slots /\ ~slots[res].active
    BY <1>1, <1>6 DEF SplitMore, Piece, NodeInv, HandleHoldsFree
  <2>2. DOMAIN slots' = DOMAIN slots
          /\ slots'[res] = [active |-> TRUE, range |-> r]
          /\ \A i \in DOMAIN slots : i # res => slots'[i] = slots[i]
    BY <1>1, <2>1, PublishLemma
  <2>3. rest'.first = rest.first + ByteRead /\ rest'.last = rest.last
    BY <1>1, <1>6 DEF SplitMore, Piece
  <2>4. Octets(rest) \subseteq Octets(r) \cup Octets(rest')
    BY <1>1, <2>3 DEF Octets
  <2>5. hpc = "split" /\ hpc' = "alloc" /\ UNCHANGED owed
    BY <1>6 DEF SplitMore, history
  <2> SUFFICES ASSUME NEW b \in owed
               PROVE  \/ \E i \in DOMAIN slots' :
                           slots'[i].active /\ b \in Octets(slots'[i].range)
                      \/ b \in Octets(rest')
    BY <2>5 DEF OwedTracked
  <2>6. CASE b \in Octets(rest)
    BY <2>1, <2>2, <2>4, <2>6
  <2>7. CASE \E i \in DOMAIN slots : slots[i].active /\ b \in Octets(slots[i].range)
    BY <2>1, <2>2, <2>7
  <2> QED
    BY <2>6, <2>7 DEF OwedTracked
<1>7. CASE SplitLast
  <2>1. Publish(rest) /\ res \in DOMAIN slots /\ ~slots[res].active /\ UNCHANGED owed
    BY <1>7 DEF SplitLast, NodeInv, HandleHoldsFree, history
  <2>2. DOMAIN slots' = DOMAIN slots
          /\ slots'[res] = [active |-> TRUE, range |-> rest]
          /\ \A i \in DOMAIN slots : i # res => slots'[i] = slots[i]
    BY <1>1, <2>1, PublishLemma
  <2> SUFFICES ASSUME NEW b \in owed
               PROVE  \E i \in DOMAIN slots' :
                        slots'[i].active /\ b \in Octets(slots'[i].range)
    BY <2>1 DEF OwedTracked
  <2>3. CASE b \in Octets(rest)
    BY <2>1, <2>2, <2>3
  <2>4. CASE \E i \in DOMAIN slots : slots[i].active /\ b \in Octets(slots[i].range)
    BY <2>1, <2>2, <2>4
  <2> QED
    BY <2>3, <2>4 DEF OwedTracked
<1>8. CASE SessionEmpty \/ SessionBegin \/ SessionTest \/ SessionExit \/ PickResend
             \/ PickNothing \/ NextChunk \/ SendChunk
  <2>1. UNCHANGED <<slots, rest, owed>> /\ (hpc' = hpc \/ hpc = "none")
    BY <1>8 DEF SessionEmpty, SessionBegin, SessionTest, SessionExit, PickResend,
       PickNothing, NextChunk, SendChunk, CloseInv, handleVars, history
  <2> QED
    BY <2>1, OwedFrame
<1>9. CASE HandleTest \/ CheckEnd \/ SetWait \/ CheckWait \/ AnswerIdle \/ AnswerBroken
             \/ AnswerOk \/ Report
  <2>1. UNCHANGED <<slots, rest, owed>> /\ hpc \notin {"split", "alloc"}
    BY <1>9 DEF HandleTest, CheckEnd, SetWait, CheckWait, AnswerIdle, AnswerBroken,
       AnswerOk, Report, Poll, history
  <2> QED
    BY <2>1, OwedFrame
<1>10. CASE Tick \/ CloseCall \/ Close \/ UNCHANGED vars
  <2>1. UNCHANGED <<slots, rest, owed, hpc>>
    BY <1>10 DEF Tick, CloseCall, Close, CloseLook, CloseJoinHandle, CloseJoinSession,
       vars, handleVars, history
  <2> QED
    BY <2>1, OwedFrame
<1> QED
  BY <1>2, <1>3, <1>4, <1>5, <1>6, <1>7, <1>8, <1>9, <1>10
  DEF Next, Session, Handle, Terminating

-----------------------------------------------------------------------------
(* Sizes and the hand-over of nodes.                                       *)

\* A node never holds more than ByteRead + 1 octets, so no message does.
LEMMA SizeStep ==
  TypeOK /\ NodeInv /\ PassInv /\ SizeInv /\ [Next]_vars => SizeInv'
<1> SUFFICES ASSUME TypeOK, NodeInv, PassInv, SizeInv, [Next]_vars PROVE SizeInv'
  OBVIOUS
<1> USE DEF SizeInv, MessageBounded
<1>1. /\ slots \in Seq(Slot) /\ rest \in Piece /\ ByteRead \in Nat \ {0}
      /\ rest.first \in Nat /\ rest.last \in Nat
      /\ total \in Nat /\ start \in Nat /\ end \in Nat
  BY SendAssumption DEF TypeOK, Piece
<1>2. CASE Resend
  <2>1. slot \in DOMAIN slots /\ slots[slot].active /\ slots[slot].range = cur
          /\ slots[slot] \in Slot /\ out' = out \cup {cur}
    BY <1>1, <1>2 DEF Resend, NodeInv, SessionHoldsActive
  <2>2. slots' = [slots EXCEPT ![slot] = [slots[slot] EXCEPT !.active = FALSE]]
    BY <1>2 DEF Resend
  <2>3. ~slots'[slot].active /\ DOMAIN slots' = DOMAIN slots
          /\ \A i \in DOMAIN slots : i # slot => slots'[i] = slots[i]
    BY <1>1, <2>1, <2>2 DEF Slot
  <2> QED
    BY <2>1, <2>3
<1>3. CASE SendChunk
  <2>1. cur.last - cur.first < ByteRead + 1
    BY <1>1, <1>3 DEF SendChunk, PassInv, ChunkInHand
  <2> QED
    BY <1>3, <2>1 DEF SendChunk
<1>4. CASE HandleStart \/ HandleAlloc
  <2>1. GetFreeLot /\ UNCHANGED out
    BY <1>4 DEF HandleStart, HandleAlloc, history
  <2> QED
    BY <1>1, <2>1, GetFreeLotLemma DEF NewNode
<1>5. CASE SplitMore \/ SplitLast
  <2>1. res \in DOMAIN slots /\ UNCHANGED out
    BY <1>5 DEF SplitMore, SplitLast, NodeInv, HandleHoldsFree, history
  <2>2. PICK r \in Piece : Publish(r) /\ r.last - r.first < ByteRead + 1
    <3>1. CASE SplitMore
      BY <1>1, <3>1 DEF SplitMore, Piece
    <3>2. CASE SplitLast
      BY <1>1, <3>2 DEF SplitLast, MoreToCut
    <3> QED
      BY <1>5, <3>1, <3>2
  <2>3. DOMAIN slots' = DOMAIN slots
          /\ slots'[res] = [active |-> TRUE, range |-> r]
          /\ \A i \in DOMAIN slots : i # res => slots'[i] = slots[i]
    BY <1>1, <2>1, <2>2, PublishLemma
  <2> QED
    BY <2>1, <2>2, <2>3
<1>6. CASE UNCHANGED <<slots, out>>
  BY <1>6
<1>7. CASE SessionEmpty \/ SessionBegin \/ SessionTest \/ SessionExit \/ PickResend
             \/ PickNothing \/ NextChunk
  BY <1>7, <1>6 DEF SessionEmpty, SessionBegin, SessionTest, SessionExit, PickResend,
     PickNothing, NextChunk, history
<1>8. CASE HandleFault \/ HandleTest \/ CheckEnd \/ SetWait \/ CheckWait \/ AnswerIdle
             \/ AnswerBroken \/ AnswerOk \/ AnswerResend \/ Report
  BY <1>8, <1>6 DEF HandleFault, HandleTest, CheckEnd, SetWait, CheckWait, AnswerIdle,
     AnswerBroken, AnswerOk, AnswerResend, Report, Poll, history
<1>9. CASE Tick \/ CloseCall \/ Close \/ UNCHANGED vars
  BY <1>9, <1>6 DEF Tick, CloseCall, Close, CloseLook, CloseJoinHandle,
     CloseJoinSession, vars, history
<1> QED
  BY <1>2, <1>3, <1>4, <1>5, <1>7, <1>8, <1>9 DEF Next, Session, Handle, Terminating

\* Only the session thread takes back an active node, and only by the step that
\* sends the node's range.
LEMMA SlotKeptStep ==
  ASSUME TypeOK, NodeInv, [Next]_vars, NEW i \in DOMAIN slots, slots[i].active
  PROVE  slots'[i] = slots[i] \/ (spc = "resend" /\ slot = i /\ slots[i].range \in out')
<1>1. slots \in Seq(Slot)
  BY DEF TypeOK
<1>2. CASE Resend
  <2>1. slots[slot].range = cur /\ out' = out \cup {cur} /\ spc = "resend"
    BY <1>2 DEF Resend, NodeInv, SessionHoldsActive
  <2>2. i # slot => slots'[i] = slots[i]
    BY <1>1, <1>2 DEF Resend
  <2> QED
    BY <2>1, <2>2
<1>3. CASE HandleStart \/ HandleAlloc
  BY <1>1, <1>3, GetFreeLotLemma DEF HandleStart, HandleAlloc
<1>4. CASE SplitMore \/ SplitLast
  <2>1. ~slots[res].active
    BY <1>4 DEF SplitMore, SplitLast, NodeInv, HandleHoldsFree
  <2> QED
    BY <1>1, <1>4, <2>1 DEF SplitMore, SplitLast, Publish
<1>5. CASE SessionEmpty \/ SessionBegin \/ SessionTest \/ SessionExit \/ PickResend
             \/ PickNothing \/ NextChunk \/ SendChunk
  BY <1>5 DEF SessionEmpty, SessionBegin, SessionTest, SessionExit, PickResend,
     PickNothing, NextChunk, SendChunk
<1>6. CASE HandleFault \/ HandleTest \/ CheckEnd \/ SetWait \/ CheckWait \/ AnswerIdle
             \/ AnswerBroken \/ AnswerOk \/ AnswerResend \/ Report
  BY <1>6 DEF HandleFault, HandleTest, CheckEnd, SetWait, CheckWait, AnswerIdle,
     AnswerBroken, AnswerOk, AnswerResend, Report, Poll
<1>7. CASE Tick \/ CloseCall \/ Close \/ UNCHANGED vars
  BY <1>7 DEF Tick, CloseCall, Close, CloseLook, CloseJoinHandle, CloseJoinSession, vars
<1> QED
  BY <1>2, <1>3, <1>4, <1>5, <1>6, <1>7 DEF Next, Session, Handle, Terminating

-----------------------------------------------------------------------------
(* The invariant and what follows from it.                                 *)

\* A fresh session satisfies the invariant.
LEMMA IInvInit == Init => IInv
<1> SUFFICES ASSUME Init PROVE IInv
  OBVIOUS
<1>1. TypeOK
  BY TypeInit
<1>2. \A i \in DOMAIN slots : ~slots[i].active
  BY SendAssumption DEF Init, NewNode
<1>3. PassInv
  BY SendAssumption DEF Init, PassInv, ChunkInHand, NoGap, EndMeansOver
<1>4. NodeInv /\ CloseInv /\ OwedTracked /\ SizeInv
  BY <1>2 DEF Init, NodeInv, HandleHoldsFree, SessionHoldsActive, CloseInv,
     OwedTracked, SizeInv, MessageBounded
<1> QED
  BY <1>1, <1>3, <1>4 DEF IInv

\* The invariant holds in every state of every behaviour.
THEOREM Inductive == Spec => []IInv
<1>1. IInv /\ [Next]_vars => IInv'
  BY TypeStep, PassStep, NodeStep, CloseStep, OwedStep, SizeStep DEF IInv
<1> QED
  BY IInvInit, <1>1, PTL DEF Spec

\* Types, and the nodes both threads hold are in the list.
THEOREM TypeCorrect == Spec => []TypeOK
<1>1. IInv => TypeOK
  BY DEF IInv
<1> QED
  BY Inductive, <1>1, PTL

\* The first pass leaves no hole, for every file and every message size.
THEOREM NoGapCorrect == Spec => []NoGap
<1>1. IInv => NoGap
  BY DEF IInv, PassInv
<1> QED
  BY Inductive, <1>1, PTL

\* The flag announces the end only when the whole file was handed out.
THEOREM AnnouncedCorrect == Spec => []AnnouncedAllSent
<1>1. IInv => AnnouncedAllSent
  BY PassInvImpliesAnnounced DEF IInv
<1> QED
  BY Inductive, <1>1, PTL

\* No octet a 413 asked for is forgotten, however many reports come.
THEOREM OwedCorrect == Spec => []OwedTracked
<1>1. IInv => OwedTracked
  BY DEF IInv
<1> QED
  BY Inductive, <1>1, PTL

\* A message is at most one octet too long.
THEOREM BoundedCorrect == Spec => []MessageBounded
<1>1. IInv => MessageBounded
  BY DEF IInv, SizeInv
<1> QED
  BY Inductive, <1>1, PTL

\* The unlocked list is handed over node by node.
THEOREM SlotKeptCorrect == Spec => SlotKept
<1> DEFINE Kept == \A i \in DOMAIN slots :
                     slots[i].active =>
                       \/ slots'[i] = slots[i]
                       \/ spc = "resend" /\ slot = i /\ slots[i].range \in out'
<1>1. IInv /\ [Next]_vars => Kept
  BY SlotKeptStep DEF IInv
<1>2. IInv /\ [Next]_vars => [Kept]_vars
  BY <1>1
<1> QED
  BY Inductive, <1>2, PTL DEF Spec, SlotKept

=============================================================================
