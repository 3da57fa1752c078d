--------------------------- MODULE TransferProofs ---------------------------
(***************************************************************************)
(* Proofs about Transfer for every file size, message size, period, number *)
(* of tries and number of faults: the types, that a transfer is a          *)
(* FileTransfer when decode_buff has room for one octet more than a        *)
(* message, and that on a fast network neither end gives up too soon.      *)
(***************************************************************************)
EXTENDS Transfer, TLAPS

\* The session's next message begins right after the last one.
SendInv ==
  \/ sstart = 1 /\ send = 1
  \/ sstart = send + 1
  \/ send >= size

\* The receiver that used up its tries has stopped.
TriesInv == time < 0 => Stopped(rflag)

\* Nobody says "close" before the receiver has sent the 200.
VerdictInv == Ok \in reports \/ sflag = "close" => ended /\ rflag = "close"

\* What is written stands in its place, and nothing is missing before the
\* position.
CopyInv ==
  \A b \in 1 .. size : file[b] \in {0, b} /\ (b < rstart => file[b] = b)

\* A message fits into decode_buff, also one that is an octet too long.
Room == ByteRead < RealLen

(***************************************************************************)
(* What keeps both ends patient in a calm behaviour.                       *)
(***************************************************************************)
Period == RecvPeriod + 1

\* More questions than faults, and a sender whose period is longer than as many
\* periods of the receiver as there may be faults.
Persistent ==
  /\ MaxFaults < FirstTries /\ MaxFaults <= Tries
  /\ Period * MaxFaults <= SendPeriod

\* The octet b is still to be sent, or on its way.
Coming(b) ==
  \/ send < size /\ sstart <= b
  \/ \E m \in pending \cup messages \cup held : b \in Octets(m)

\* So is the octet at the position, or it was asked for.
Near ==
  \/ Coming(rstart)
  \/ \E a \in reports : a.kind = "resend" /\ a.range.first = rstart

\* Nobody has anything to send or to write.
Still == pending = {} /\ messages = {} /\ Takeable = {} /\ send >= size

\* Before the receiver has ended nobody has given up, and it ends well.
FlagsInv ==
  /\ ended => rflag = "close"
  /\ ~ended => /\ rflag = "continue" /\ sflag \in {"continue", "end", "wait"}
               /\ told = "open" \/ (size = 0 /\ told = "close")
               /\ sflag # "continue" => send >= size
               /\ size = 1 => send = 1 /\ sflag = "continue"

\* As long as there was no fault every octet from the position on is coming, and none
\* was asked for.
FullInv ==
  faults = MaxFaults /\ size > 1 /\ ~ended =>
    /\ \A b \in rstart .. size : Coming(b)
    /\ reports = {}

Waiting == ~ended /\ rstart <= size

\* Time passes for the receiver only when nothing is going on.
StillInv == Waiting /\ rclock > 0 => Still /\ reports = {}

\* There is a try left for every fault, and one more for an octet that is not near.
HopeInv == Waiting => time >= faults + (IF Near THEN 0 ELSE 1)

\* The sender's clock is behind the periods that faults have cost the receiver.
ClockInv ==
  ~ended /\ sflag = "wait" /\ sclock > 0 =>
    /\ Waiting /\ Still /\ faults < MaxFaults
    /\ sclock <= Period * (MaxFaults - faults - 1) + rclock
                   + (IF reports = {} THEN 0 ELSE Period)

CalmInv ==
  calm => faults <= MaxFaults /\ FlagsInv /\ FullInv /\ StillInv /\ HopeInv /\ ClockInv

IInv == TypeOK /\ SendInv /\ TriesInv /\ VerdictInv /\ (Room => CopyInv)

\* What the pieces of the reports are.
LEMMA ReportLemma ==
  /\ Ok.kind = "ok"
  /\ \A r : Resend(r) # Ok /\ Resend(r).kind = "resend" /\ Resend(r).range = r
BY DEF Ok, Resend

\* A requested range is cut into pieces that lie in it, none of them more than one
\* octet longer than a message.
LEMMA CutsLemma ==
  ASSUME NEW r \in Range, 1 <= r.first, r.first <= r.last, r.last <= size,
         size \in Nat
  PROVE  \A c \in Cuts(r) : Sane(c) /\ Length(c) <= ByteRead + 1
<1> DEFINE Stop(s) == IF s + ByteRead < r.last THEN s + ByteRead - 1 ELSE r.last
<1>1. SUFFICES ASSUME NEW s \in r.first .. r.last
               PROVE  Sane([first |-> s, last |-> Stop(s)])
                        /\ Length([first |-> s, last |-> Stop(s)]) <= ByteRead + 1
  <2>1. \A s \in r.first + 1 .. r.last - 1 : s \in r.first .. r.last
    BY DEF Range
  <2> QED
    BY <1>1, <2>1 DEF Cuts, Range
<1>2. s \in Nat /\ Stop(s) \in Nat /\ 1 <= s /\ s <= Stop(s) /\ Stop(s) <= size
        /\ Stop(s) + 1 - s <= ByteRead + 1
  BY TransferAssumption DEF Range
<1> QED
  BY <1>2 DEF Sane, Range, Length

-----------------------------------------------------------------------------
(* Types.                                                                  *)

\* The types hold at the start.
LEMMA TypeInit == Init => TypeOK
<1> SUFFICES ASSUME Init PROVE TypeOK
  OBVIOUS
<1>1. size \in Nat /\ size \in Sizes
  BY TransferAssumption DEF Init
<1>2. file \in [1 .. size -> 0 .. size] /\ buffer \in [1 .. RealLen -> 0 .. size]
  BY <1>1, TransferAssumption DEF Init
<1>3. rstart \in 1 .. size + 1 /\ pre \in 1 .. rstart /\ faults \in Nat
  BY <1>1, TransferAssumption DEF Init
<1>4. time \in Int /\ time >= -1 /\ sclock \in 0 .. SendPeriod + 1
        /\ rclock \in 0 .. RecvPeriod + 1
  BY TransferAssumption DEF Init
<1>5. /\ \A m \in messages \cup held \cup pending :
             Sane(m) /\ Length(m) <= ByteRead + 1
      /\ \A a \in reports : a = Ok \/ (a = Resend(a.range) /\ Sane(a.range))
  BY DEF Init
<1>6. calm \in BOOLEAN
  BY DEF Init
<1>7. /\ sflag \in {"continue", "end", "wait", "suspend", "close"}
      /\ told \in {"open", "close", "suppend"}
      /\ rflag \in {"continue", "suspend", "close"}
      /\ sstart \in Nat \ {0} /\ send \in Nat
  BY DEF Init
<1>8. ended \in BOOLEAN
  BY Zenon DEF Init
<1> QED
  BY <1>1, <1>2, <1>3, <1>4, <1>5, <1>6, <1>7, <1>8 DEF TypeOK

\* What the steps of the sender leave alone.
LEMMA TypeSession == TypeOK /\ SendInv /\ Session => TypeOK'
<1> SUFFICES ASSUME TypeOK, SendInv, Session PROVE TypeOK'
  OBVIOUS
<1> USE TransferAssumption
<1>1. CASE SendEmpty
  BY <1>1 DEF SendEmpty, TypeOK, receiver, Sane
<1>2. CASE SendPending
  BY <1>2 DEF SendPending, TypeOK, receiver, Sane
<1>3. CASE SendNext
  <2> DEFINE m == [first |-> sstart, last |-> send']
  <2>1. size \in Nat /\ sstart \in Nat \ {0} /\ send \in Nat /\ send < size
    BY <1>3 DEF SendNext, TypeOK
  <2>2. send' \in Nat /\ sstart <= send' /\ send' <= size
          /\ send' + 1 - sstart <= ByteRead + 1
    BY <1>3, <2>1, TransferAssumption DEF SendNext, SendInv
  <2> HIDE TransferAssumption
  <2>a. m \in Range /\ m.first = sstart /\ m.last = send'
    BY <2>1, <2>2 DEF Range
  <2> HIDE DEF m
  <2>3. Sane(m) /\ Length(m) <= ByteRead + 1
    BY <2>1, <2>2, <2>a DEF Sane, Length
  <2>4. messages' = messages \cup {m} /\ size' = size
    BY <1>3 DEF SendNext, m
  <2>5. \A x \in (messages \cup held \cup pending)' :
          Sane(x)' /\ Length(x) <= ByteRead + 1
    BY <1>3, <2>3, <2>4 DEF SendNext, TypeOK, receiver, Sane
  <2>6. sflag' \in {"continue", "end", "wait", "suspend", "close"}
          /\ sstart' \in Nat \ {0}
    BY <1>3, <2>1, TransferAssumption DEF SendNext, TypeOK
  <2> QED
    BY <1>3, <2>2, <2>5, <2>6, TransferAssumption DEF SendNext, TypeOK, receiver, Sane, Length
<1>4. CASE SendExit
  BY <1>4 DEF SendExit, TypeOK, receiver, Sane
<1> QED
  BY <1>1, <1>2, <1>3, <1>4 DEF Session

\* The sender cuts what it was asked for into ranges of the file.
LEMMA TypeHandle == TypeOK /\ Handle => TypeOK'
<1> SUFFICES ASSUME TypeOK, Handle PROVE TypeOK'
  OBVIOUS
<1> USE TransferAssumption
<1>a. FlagAfterLook \in {"continue", "end", "wait", "suspend", "close"}
  BY DEF TypeOK, FlagAfterLook
<1>b. ClockAfterLook \in 0 .. SendPeriod + 1
  BY DEF TypeOK, ClockAfterLook
<1>1. CASE HandleIdle
  BY <1>1, <1>a, <1>b DEF HandleIdle, handleFrame, TypeOK, receiver, Sane
<1>2. CASE HandleResend
  <2>1. PICK a \in reports :
          /\ a.kind = "resend"
          /\ pending' = pending \cup Cuts(a.range)
          /\ reports' = reports \ {a}
    BY <1>2 DEF HandleResend
  <2>2. Sane(a.range)
    BY <2>1, ReportLemma DEF TypeOK
  <2>3. \A c \in Cuts(a.range) : Sane(c) /\ Length(c) <= ByteRead + 1
    BY <2>2, CutsLemma DEF Sane, TypeOK
  <2>4. \A x \in (messages \cup held \cup pending)' :
          Sane(x)' /\ Length(x) <= ByteRead + 1
    BY <1>2, <2>1, <2>3 DEF HandleResend, handleFrame, TypeOK, receiver, Sane
  <2> QED
    BY <1>2, <1>a, <1>b, <2>1, <2>4 DEF HandleResend, handleFrame, TypeOK, receiver, Sane,
       Length
<1>3. CASE HandleOk
  BY <1>3, <1>a, <1>b DEF HandleOk, handleFrame, TypeOK, receiver, Sane
<1> QED
  BY <1>1, <1>2, <1>3 DEF Handle

\* The position moves within the file.
LEMMA AdvanceLemma ==
  ASSUME TypeOK, NEW m \in held
  PROVE  /\ m.first \in Nat /\ m.last \in Nat /\ 1 <= m.first /\ m.first <= m.last
         /\ m.last <= size /\ Length(m) <= ByteRead + 1 /\ size \in Nat
         /\ Advance(m)[1] \in rstart .. size + 1
         /\ Advance(m)[1] = rstart \/ Advance(m)[1] = m.last + 1
         /\ m.last < Advance(m)[1]
         /\ Advance(m)[2] \in 1 .. rstart
<1>1. size \in Nat /\ rstart \in 1 .. size + 1 /\ pre \in 1 .. rstart
        /\ Sane(m) /\ Length(m) <= ByteRead + 1
  BY TransferAssumption DEF TypeOK
<1> QED
  BY <1>1 DEF Sane, Range, Advance

\* decode_buff and the copy have octets of the file in them, or none.
LEMMA WriteLemma ==
  ASSUME TypeOK, NEW m \in held
  PROVE  /\ Decode(m) \in [1 .. RealLen -> 0 .. size]
         /\ Write(m, Decode(m)) \in [1 .. size -> 0 .. size]
<1>1. size \in Nat /\ RealLen \in Nat /\ file \in [1 .. size -> 0 .. size]
        /\ buffer \in [1 .. RealLen -> 0 .. size]
        /\ m.first \in Nat /\ m.last \in Nat /\ 1 <= m.first /\ m.last <= size
  BY AdvanceLemma, TransferAssumption DEF TypeOK
<1>2. Decode(m) \in [1 .. RealLen -> 0 .. size]
  <2>1. ASSUME NEW i \in 1 .. RealLen, i <= Length(m)
        PROVE  m.first + i - 1 \in 0 .. size
    <3>1. i \in Nat /\ 1 <= i /\ i <= m.last + 1 - m.first
      BY <1>1, <2>1 DEF Length
    <3>2. m.first \in Nat /\ m.last \in Nat /\ 1 <= m.first /\ m.last <= size /\ size \in Nat
      BY <1>1
    <3> QED
      BY <3>1, <3>2
  <2>2. \A i \in 1 .. RealLen : buffer[i] \in 0 .. size
    BY <1>1
  <2>3. CASE Length(m) <= RealLen
    BY <2>1, <2>2, <2>3 DEF Decode
  <2>4. CASE ~(Length(m) <= RealLen)
    BY <1>1, <2>4 DEF Decode
  <2> QED
    BY <2>3, <2>4
<1>3. \A o \in 1 .. size :
        o \in Octets(m) /\ o - m.first < RealLen => o - m.first + 1 \in 1 .. RealLen
  BY <1>1 DEF Octets
<1> HIDE DEF Decode
<1> QED
  BY <1>1, <1>2, <1>3 DEF Write

\* A message taken from those held, whether its write fails or not.
LEMMA TypeTake ==
  ASSUME TypeOK, NEW m \in held, Take(m) \/ TakeFails(m)
  PROVE  TypeOK'
<1>1. /\ size' = size /\ calm' = calm /\ UNCHANGED sender
      /\ rflag' = rflag /\ ended' = ended /\ messages' = messages
      /\ held' = held \ {m} /\ time' = Tries /\ rclock' = 0 /\ buffer' = Decode(m)
      /\ file' \in {file, Write(m, buffer')}
      /\ rstart' \in {Advance(m)[1], Advance(m)[2]} /\ pre' = Advance(m)[2]
      /\ reports' \in {reports, reports \cup {Resend(m)}}
      /\ faults' = faults \/ (faults > 0 /\ faults' = faults - 1)
  BY DEF Take, TakeFails, receiveFrame
<1>2. rstart' \in 1 .. size + 1 /\ pre' \in 1 .. rstart'
  BY <1>1, AdvanceLemma DEF TypeOK
<1>3. file' \in [1 .. size -> 0 .. size] /\ buffer' \in [1 .. RealLen -> 0 .. size]
  BY <1>1, WriteLemma DEF TypeOK
<1>4. time' \in Int /\ time' >= -1 /\ rclock' \in 0 .. RecvPeriod + 1 /\ faults' \in Nat
  BY <1>1, TransferAssumption DEF TypeOK
<1>5. \A a \in reports' : a = Ok \/ (a = Resend(a.range) /\ Sane(a.range)')
  <2>1. Sane(m)
    BY DEF TypeOK
  <2> QED
    BY <1>1, <2>1, ReportLemma DEF TypeOK, Sane
<1>6. \A x \in (messages \cup held \cup pending)' :
        Sane(x)' /\ Length(x) <= ByteRead + 1
  BY <1>1 DEF TypeOK, sender, Sane
<1> QED
  BY <1>1, <1>2, <1>3, <1>4, <1>5, <1>6 DEF TypeOK, sender, Length

\* The other steps of the receiver's handle thread.
LEMMA TypeReceive == TypeOK /\ TriesInv /\ Receive => TypeOK'
<1> SUFFICES ASSUME TypeOK, TriesInv, Receive PROVE TypeOK'
  OBVIOUS
<1>1. CASE Ask
  <2>1. PICK s \in 1 .. size : IsMinStart(s) /\ reports' = reports \cup {Resend(Hole(s))}
    BY <1>1 DEF Ask
  <2>2. Sane(Hole(s))
    <3>1. size \in Nat /\ rstart \in 1 .. size + 1 /\ rstart < size + 1
      BY <1>1, TransferAssumption DEF Ask, Running, TypeOK
    <3>2. \A m \in held : m.first \in Nat /\ rstart < m.first
      BY <1>1, <3>1 DEF Ask, Takeable, TypeOK, Sane, Range
    <3>3. rstart <= s /\ s <= size
      BY <2>1, <3>1, <3>2 DEF IsMinStart
    <3> QED
      BY <2>1, <3>1, <3>3 DEF Hole, Sane, Range
  <2>3. \A a \in reports' : a = Ok \/ (a = Resend(a.range) /\ Sane(a.range))
    BY <2>1, <2>2, ReportLemma DEF TypeOK
  <2>4. time' \in Int /\ time' >= -1
    BY <1>1 DEF Ask, Running, TypeOK, TriesInv
  <2>5. rflag' \in {"continue", "suspend", "close"} /\ rclock' \in 0 .. RecvPeriod + 1
    BY <1>1, TransferAssumption DEF Ask, TypeOK
  <2> QED
    BY <1>1, <2>3, <2>4, <2>5 DEF Ask, TypeOK, receiveFrame, sender, Sane, Length
<1>2. CASE End
  <2>1. \A a \in reports' : a = Ok \/ (a = Resend(a.range) /\ Sane(a.range))
    BY <1>2 DEF End, TypeOK
  <2>2. rflag' \in {"continue", "suspend", "close"}
    BY <1>2 DEF End, TypeOK
  <2>3. ended' \in BOOLEAN
    BY <1>2, Zenon DEF End
  <2> QED
    BY <1>2, <2>1, <2>2, <2>3 DEF End, TypeOK, receiveFrame, sender, Sane, Length
<1>3. CASE \E m \in held : Take(m) \/ TakeFails(m)
  BY <1>3, TypeTake
<1> QED
  BY <1>1, <1>2, <1>3 DEF Receive

\* Stops, the network and the time keep the types.
LEMMA TypeOthers ==
  ASSUME TypeOK,
         SenderStops \/ Deliver \/ ReceiverStops \/ Lose \/ Duplicate \/ Tick
  PROVE  TypeOK'
<1> USE TransferAssumption
<1>1. CASE SenderStops
  BY <1>1 DEF SenderStops, TypeOK, receiver, Sane
<1>2. CASE Deliver
  BY <1>2 DEF Deliver, TypeOK, receiveFrame, sender, Sane
<1>3. CASE ReceiverStops
  BY <1>3 DEF ReceiverStops, TypeOK, receiveFrame, sender, Sane
<1>4. CASE Lose
  BY <1>4 DEF Lose, TypeOK, receiver, sender, Sane
<1>5. CASE Duplicate
  BY <1>5 DEF Duplicate, TypeOK, sender, Sane
<1>6. CASE Tick
  BY <1>6 DEF Tick, TypeOK, Sane
<1> QED
  BY <1>1, <1>2, <1>3, <1>4, <1>5, <1>6

-----------------------------------------------------------------------------
(* The other parts of the invariant.                                       *)

\* The four invariants hold at the start.
LEMMA InvInit == Init => SendInv /\ TriesInv /\ VerdictInv /\ CopyInv
<1> SUFFICES ASSUME Init PROVE SendInv /\ TriesInv /\ VerdictInv /\ CopyInv
  OBVIOUS
<1>1. SendInv /\ VerdictInv
  BY DEF Init, SendInv, VerdictInv
<1>2. TriesInv
  BY TransferAssumption DEF Init, TriesInv
<1>3. CopyInv
  BY TransferAssumption DEF Init, CopyInv
<1> QED
  BY <1>1, <1>2, <1>3

\* Every message sent begins where the last one ended.
LEMMA SendStep == TypeOK /\ SendInv /\ [Next]_vars => SendInv'
<1> SUFFICES ASSUME TypeOK, SendInv, [Next]_vars PROVE SendInv'
  OBVIOUS
<1>1. CASE SendNext
  <2>1. size \in Nat /\ sstart \in Nat \ {0} /\ send \in Nat /\ size' = size
    BY <1>1, TransferAssumption DEF SendNext, TypeOK
  <2> QED
    BY <1>1, <2>1, TransferAssumption DEF SendNext, SendInv
<1>2. CASE UNCHANGED <<size, sstart, send>>
  BY <1>2 DEF SendInv
<1>3. SendNext \/ UNCHANGED <<size, sstart, send>>
  BY DEF Next, vars, Session, SendEmpty, SendPending, SendExit, Handle, HandleIdle,
     HandleResend, HandleOk, handleFrame, SenderStops, Deliver, Receive, Take, TakeFails,
     Ask, End, receiveFrame, sender, ReceiverStops, Lose, Duplicate, Tick
<1> QED
  BY <1>1, <1>2, <1>3

\* A receiver that used up its tries has stopped.
LEMMA TriesStep == TypeOK /\ TriesInv /\ [Next]_vars => TriesInv'
<1> SUFFICES ASSUME TypeOK, TriesInv, [Next]_vars PROVE TriesInv'
  OBVIOUS
<1>1. CASE Ask
  BY <1>1 DEF Ask, GivesUp, TriesInv, Stopped
<1>2. CASE \E m \in held : Take(m) \/ TakeFails(m)
  BY <1>2, TransferAssumption DEF Take, TakeFails, TriesInv
<1>3. CASE End \/ ReceiverStops
  BY <1>3 DEF End, ReceiverStops, TriesInv, Stopped
<1>4. CASE UNCHANGED <<time, rflag>>
  BY <1>4 DEF TriesInv, Stopped
<1>5. \/ Ask \/ End \/ ReceiverStops \/ UNCHANGED <<time, rflag>>
      \/ \E m \in held : Take(m) \/ TakeFails(m)
  BY DEF Next, vars, Session, SendEmpty, SendPending, SendNext, SendExit, Handle,
     HandleIdle, HandleResend, HandleOk, handleFrame, SenderStops, Deliver, Receive,
     receiver, Lose, Duplicate, Tick
<1> QED
  BY <1>1, <1>2, <1>3, <1>4, <1>5

\* Success is told only after the receiver has ended with it.
LEMMA VerdictStep == TypeOK /\ VerdictInv /\ [Next]_vars => VerdictInv'
<1> SUFFICES ASSUME TypeOK, VerdictInv, [Next]_vars PROVE VerdictInv'
  OBVIOUS
<1> USE DEF VerdictInv
<1>1. CASE Session
  BY <1>1 DEF Session, SendEmpty, SendPending, SendNext, SendExit, receiver
<1>2. CASE Handle
  <2>1. FlagAfterLook = "close" => sflag = "close"
    BY DEF FlagAfterLook
  <2> QED
    BY <1>2, <2>1 DEF Handle, HandleIdle, HandleResend, HandleOk, handleFrame, receiver
<1>3. CASE Ask
  <2>1. PICK r : reports' = reports \cup {Resend(r)}
    BY <1>3 DEF Ask
  <2> QED
    BY <1>3, <2>1, ReportLemma DEF Ask, Running, receiveFrame, sender
<1>4. CASE End
  BY <1>4 DEF End, receiveFrame, sender
<1>5. CASE \E m \in held : Take(m) \/ TakeFails(m)
  BY <1>5, ReportLemma DEF Take, TakeFails, Running, receiveFrame, sender
<1>6. CASE SenderStops \/ ReceiverStops
  BY <1>6 DEF SenderStops, ReceiverStops, receiver, receiveFrame, sender
<1>7. CASE Deliver \/ Lose \/ Duplicate \/ Tick \/ UNCHANGED vars
  BY <1>7 DEF Deliver, Lose, Duplicate, Tick, vars, receiver, receiveFrame, sender
<1> QED
  BY <1>1, <1>2, <1>3, <1>4, <1>5, <1>6, <1>7 DEF Next, Receive

\* In a buffer with room for it every message's octets are found, and the copy
\* gets them in their places.
LEMMA RoomLemma ==
  ASSUME TypeOK, Room, NEW m \in held
  PROVE  /\ Write(m, Decode(m)) =
              [o \in 1 .. size |-> IF o \in Octets(m) THEN o ELSE file[o]]
         /\ Octets(m) \subseteq 1 .. size
<1>1. /\ m.first \in Nat /\ m.last \in Nat /\ 1 <= m.first /\ m.last <= size
      /\ Length(m) <= ByteRead + 1 /\ size \in Nat
  BY AdvanceLemma
<1>2. Length(m) <= RealLen
  BY <1>1, TransferAssumption DEF Room, Length
<1>3. \A i \in 1 .. RealLen : i <= Length(m) => Decode(m)[i] = m.first + i - 1
  BY <1>2 DEF Decode
<1>4. ASSUME NEW o \in 1 .. size, o \in Octets(m)
      PROVE  o - m.first < RealLen /\ Decode(m)[o - m.first + 1] = o
  <2>1. o - m.first + 1 \in 1 .. RealLen /\ o - m.first + 1 <= Length(m)
    BY <1>1, <1>2, <1>4, TransferAssumption DEF Octets, Length
  <2>2. Decode(m)[o - m.first + 1] = m.first + (o - m.first + 1) - 1
    BY <1>3, <2>1
  <2> QED
    BY <1>1, <2>1, <2>2, TransferAssumption DEF Octets
<1> QED
  BY <1>1, <1>4 DEF Write, Octets

\* The position never passes an octet that is not written.
LEMMA CopyTake ==
  ASSUME TypeOK, CopyInv, Room, NEW m \in held, Take(m)
  PROVE  CopyInv'
<1>1. /\ size' = size /\ size \in Nat /\ rstart \in Nat /\ m.first <= rstart
      /\ rstart' = Advance(m)[1]
      /\ file' = [o \in 1 .. size |-> IF o \in Octets(m) THEN o ELSE file[o]]
      /\ m.first \in Nat /\ m.last \in Nat
  BY AdvanceLemma, RoomLemma DEF Take, Takeable, receiveFrame, TypeOK
<1>2. rstart' = rstart \/ rstart' = m.last + 1
  BY <1>1, AdvanceLemma
<1>3. SUFFICES ASSUME NEW b \in 1 .. size
               PROVE  file'[b] \in {0, b} /\ (b < rstart' => file'[b] = b)
  BY <1>1 DEF CopyInv
<1>4. CASE b \in Octets(m)
  BY <1>1, <1>4
<1>5. CASE b \notin Octets(m)
  <2>1. file'[b] = file[b]
    BY <1>1, <1>5
  <2>2. b < rstart' => b < rstart
    BY <1>1, <1>2, <1>5 DEF Octets
  <2> QED
    BY <2>1, <2>2 DEF CopyInv
<1> QED
  BY <1>4, <1>5

\* With room for a piece of one octet more each octet comes to its place.
LEMMA CopyStep == TypeOK /\ Room /\ CopyInv /\ [Next]_vars => CopyInv'
<1> SUFFICES ASSUME TypeOK, Room, CopyInv, [Next]_vars PROVE CopyInv'
  OBVIOUS
<1>1. CASE \E m \in held : Take(m)
  BY <1>1, CopyTake
<1>2. CASE \E m \in held : TakeFails(m)
  <2>1. PICK m \in held : TakeFails(m)
    BY <1>2
  <2>2. size' = size /\ file' = file /\ rstart' = Advance(m)[2]
    BY <2>1 DEF TakeFails, receiveFrame
  <2>3. rstart \in Nat /\ rstart' \in Nat /\ rstart' <= rstart /\ size \in Nat
    BY <2>2, AdvanceLemma DEF TypeOK
  <2> QED
    BY <2>2, <2>3 DEF CopyInv
<1>3. CASE UNCHANGED <<size, file, rstart>>
  BY <1>3 DEF CopyInv
<1>4. \/ \E m \in held : Take(m) \/ TakeFails(m)
      \/ UNCHANGED <<size, file, rstart>>
  BY DEF Next, vars, Session, SendEmpty, SendPending, SendNext, SendExit, Handle,
     HandleIdle, HandleResend, HandleOk, handleFrame, SenderStops, Deliver, Receive,
     Ask, End, receiveFrame, receiver, ReceiverStops, Lose, Duplicate, Tick
<1> QED
  BY <1>1, <1>2, <1>3, <1>4

-----------------------------------------------------------------------------
(* The fast network.                                                       *)

Calm == TypeOK /\ VerdictInv /\ CalmInv /\ calm /\ Persistent

\* The five parts of the invariant of a fast network hold at the start.
LEMMA CalmInit == Init /\ Persistent => CalmInv
<1> SUFFICES ASSUME Init, Persistent, calm
             PROVE  faults <= MaxFaults /\ FlagsInv /\ FullInv /\ StillInv /\ HopeInv
                      /\ ClockInv
  BY DEF CalmInv
<1>1. size \in Nat /\ faults = MaxFaults /\ MaxFaults \in Nat
  BY TransferAssumption DEF Init
<1>2. size > 1 => \A b \in rstart .. size : Coming(b)
  BY <1>1 DEF Init, Coming
<1>3. FullInv
  BY <1>2 DEF Init, FullInv
<1>4. StillInv /\ ClockInv
  BY DEF Init, StillInv, ClockInv
<1>5. HopeInv
  BY <1>1, TransferAssumption DEF Init, HopeInv, Persistent
<1>6. FlagsInv
  BY <1>1 DEF Init, FlagsInv
<1> QED
  BY <1>1, <1>3, <1>4, <1>5, <1>6

\* The numbers in a step.
LEMMA CalmNumbers ==
  ASSUME Calm
  PROVE  /\ size \in Nat /\ send \in Nat /\ sstart \in Nat /\ rstart \in Nat /\ 1 <= rstart
         /\ sclock \in Nat /\ rclock \in Nat /\ rclock <= Period /\ time \in Int
         /\ faults \in Nat /\ faults <= MaxFaults /\ MaxFaults \in Nat /\ Period \in Nat
         /\ SendPeriod \in Nat /\ RecvPeriod \in Nat /\ Period = RecvPeriod + 1
         /\ FirstTries \in Nat /\ Tries \in Nat /\ ByteRead \in Nat \ {0}
         /\ FlagsInv /\ FullInv /\ StillInv /\ HopeInv /\ ClockInv
BY TransferAssumption DEF Calm, TypeOK, CalmInv, Period

\* Where nothing is going on and the position is before the end, its octet is not
\* coming; there was a fault, then, or the file has one octet.
LEMMA StillNotComing ==
  ASSUME Calm, Waiting, Still
  PROVE  ~Coming(rstart) /\ (faults < MaxFaults \/ size = 1)
<1>1. ~Coming(rstart)
  <2>1. ASSUME NEW m \in held PROVE rstart \notin Octets(m)
    <3>1. m \in Range /\ ~(m.first <= rstart)
      BY <2>1 DEF Still, Takeable, Calm, TypeOK, Sane
    <3> QED
      BY <3>1, CalmNumbers DEF Octets, Range
  <2>2. pending \cup messages \cup held = held /\ ~(send < size)
    BY CalmNumbers DEF Still
  <2> QED
    BY <2>1, <2>2 DEF Coming
<1>2. ASSUME faults = MaxFaults, size > 1
      PROVE  FALSE
  BY <1>1, <1>2, CalmNumbers DEF FullInv, Waiting
<1> QED
  BY <1>1, <1>2, CalmNumbers DEF Waiting

\* The sender's time is not up before the receiver has ended.
LEMMA NotUp == ASSUME Calm, ~ended PROVE ~TimeIsUp
<1> SUFFICES ASSUME sflag = "wait", sclock > SendPeriod PROVE FALSE
  BY DEF TimeIsUp
<1> DEFINE Lost == MaxFaults - faults - 1
<1>1. Waiting /\ faults < MaxFaults
        /\ sclock <= Period * Lost + rclock + (IF reports = {} THEN 0 ELSE Period)
  BY CalmNumbers DEF ClockInv
<1>2. rclock + (IF reports = {} THEN 0 ELSE Period) <= Period
  BY <1>1, CalmNumbers DEF StillInv
<1>3. Lost \in Nat /\ Lost + 1 <= MaxFaults
  BY <1>1, CalmNumbers
<1>4. Period * Lost + Period <= Period * MaxFaults
  BY <1>3, CalmNumbers
<1> HIDE DEF Lost
<1>5. Period * Lost \in Nat /\ Period * MaxFaults \in Nat
  BY <1>3, CalmNumbers
<1>6. sclock <= Period * MaxFaults
  BY <1>1, <1>2, <1>4, <1>5, CalmNumbers
<1> QED
  BY <1>5, <1>6, CalmNumbers DEF Calm, Persistent

\* A receiver asks when nothing is going on, and its tries are not used up.
LEMMA AskLemma ==
  ASSUME Calm, Ask
  PROVE  /\ Waiting /\ Still /\ reports = {} /\ (faults < MaxFaults \/ size = 1)
         /\ time' >= faults /\ rflag' = "continue" /\ rclock = Period
         /\ \E s \in 1 .. size : reports' = {Resend(Hole(s))}
<1>1. Waiting /\ rclock > RecvPeriod
  BY CalmNumbers DEF Ask, Running, Waiting
<1>2. Still /\ reports = {} /\ rclock = Period
  BY <1>1, CalmNumbers DEF StillInv
<1>3. ~Near
  BY <1>1, <1>2, StillNotComing DEF Near
<1>4. time >= faults + 1
  BY <1>1, <1>3, CalmNumbers DEF HopeInv
<1>5. time' >= faults /\ rflag' = "continue"
  BY <1>1, <1>4, CalmNumbers DEF Ask, GivesUp, FlagsInv, Waiting
<1> QED
  BY <1>1, <1>2, <1>5, StillNotComing DEF Ask

\* The steps of a calm behaviour after which the receiver has not ended.
LEMMA CalmSteps ==
  ASSUME Calm, [Next]_vars, ~ended'
  PROVE  /\ ~ended /\ calm' = calm /\ size' = size
         /\ \/ SendEmpty \/ SendPending \/ SendNext \/ HandleIdle \/ HandleResend
            \/ Deliver \/ Ask \/ Lose \/ Duplicate \/ UNCHANGED vars
            \/ \E m \in held : Take(m) \/ TakeFails(m)
            \/ Tick /\ Quiet
<1>1. ~End
  BY Zenon DEF End
<1>2. ~ended /\ calm' = calm /\ size' = size
  BY <1>1 DEF Next, vars, Session, SendEmpty, SendPending, SendNext, SendExit, Handle,
     HandleIdle, HandleResend, HandleOk, handleFrame, SenderStops, Deliver, Receive, Take,
     TakeFails, Ask, receiveFrame, ReceiverStops, Lose, Duplicate, Tick, receiver, sender
<1>3. ~SenderStops /\ ~ReceiverStops
  BY DEF Calm, SenderStops, ReceiverStops
<1>4. ~SendExit
  BY <1>2, CalmNumbers DEF SendExit, FlagsInv, Stopped
<1>5. ~HandleOk
  BY <1>2 DEF HandleOk, Calm, VerdictInv
<1>6. Tick => Quiet
  BY DEF Tick, Calm
<1> QED
  BY <1>1, <1>2, <1>3, <1>4, <1>5, <1>6 DEF Next, Session, Handle, Receive

\* What a message that is taken does to the numbers of the receiver.
LEMMA TakeNumbers ==
  ASSUME Calm, NEW m \in held, Take(m) \/ TakeFails(m)
  PROVE  /\ size' = size /\ UNCHANGED sender /\ messages' = messages /\ held' = held \ {m}
         /\ Waiting /\ m \in Takeable /\ ended' = ended /\ rflag' = rflag
         /\ time' = Tries /\ rclock' = 0 /\ rstart' \in Nat
         /\ m.first \in Nat /\ m.last \in Nat /\ m.first <= m.last /\ m.last <= size
         /\ \/ /\ Take(m) /\ faults' = faults /\ reports' = reports
               /\ rstart' >= rstart /\ m.last < rstart'
            \/ /\ TakeFails(m) /\ faults > 0 /\ faults' = faults - 1
<1>1. /\ m.first \in Nat /\ m.last \in Nat /\ m.first <= m.last /\ m.last <= size
      /\ Advance(m)[1] \in rstart .. size + 1 /\ m.last < Advance(m)[1]
      /\ Advance(m)[2] \in 1 .. rstart
  BY AdvanceLemma DEF Calm
<1>2. /\ size' = size /\ UNCHANGED sender /\ messages' = messages /\ held' = held \ {m}
      /\ Waiting /\ m \in Takeable /\ ended' = ended /\ rflag' = rflag
      /\ time' = Tries /\ rclock' = 0
  BY CalmNumbers DEF Take, TakeFails, receiveFrame, Running, Waiting
<1>3. CASE Take(m)
  BY <1>1, <1>2, <1>3, CalmNumbers DEF Take
<1>4. CASE TakeFails(m)
  BY <1>1, <1>2, <1>4, CalmNumbers DEF TakeFails
<1> QED
  BY <1>3, <1>4

\* What is coming goes on to come: an octet that is sent is on its way, and one on its
\* way stays there until it is lost or taken.
LEMMA ComingStep ==
  ASSUME Calm, SendInv, NEW b \in Nat, b <= size, Coming(b),
         \/ SendEmpty \/ SendPending \/ SendNext \/ HandleIdle \/ HandleResend
         \/ Deliver \/ Ask \/ Duplicate \/ Tick \/ UNCHANGED vars
  PROVE  Coming(b)'
<1>1. CASE SendNext
  <2> DEFINE n == [first |-> sstart, last |-> send']
  <2>1. /\ send < size /\ sstart' = sstart + ByteRead /\ n \in messages'
        /\ send' = IF sstart + ByteRead - 1 > size THEN size ELSE sstart + ByteRead - 1
        /\ messages' = messages \cup {n} /\ UNCHANGED <<size, pending, held>>
    BY <1>1 DEF SendNext, receiver
  <2>2. CASE sstart <= b
    <3>1. CASE b <= send'
      <4>1. b \in Octets(n)
        BY <2>2, <3>1, <2>1, CalmNumbers DEF Octets
      <4> QED
        BY <2>1, <4>1 DEF Coming
    <3>2. CASE b > send'
      <4>1. send' < size' /\ sstart' <= b
        BY <2>1, <3>2, CalmNumbers
      <4> QED
        BY <4>1 DEF Coming
    <3> QED
      BY <3>1, <3>2, <2>1, CalmNumbers
  <2>3. CASE ~(sstart <= b)
    BY <2>1, <2>3 DEF Coming, Octets
  <2> QED
    BY <2>2, <2>3
<1>2. CASE ~SendNext
  <2>1. /\ UNCHANGED <<size, send, sstart>>
        /\ pending \cup messages \cup held \subseteq (pending \cup messages \cup held)'
    BY <1>2 DEF SendEmpty, SendPending, HandleIdle, HandleResend, handleFrame, Deliver, Ask,
       Duplicate, Tick, vars, receiver, receiveFrame, sender
  <2> QED
    BY <2>1 DEF Coming, Octets
<1> QED
  BY <1>1, <1>2

\* An octet at or behind the new position is not in the message that was taken.
LEMMA ComingTake ==
  ASSUME Calm, NEW m \in held, Take(m), NEW b \in Nat, rstart' <= b, Coming(b)
  PROVE  Coming(b)'
<1>1. /\ UNCHANGED <<size, send, sstart, pending, messages>> /\ held' = held \ {m}
      /\ m.last < rstart' /\ rstart' \in Nat /\ m.last \in Nat
  <2>1. m.last < Advance(m)[1] /\ Advance(m)[1] \in rstart .. size + 1 /\ m.last \in Nat
    BY AdvanceLemma DEF Calm
  <2> QED
    BY <2>1, CalmNumbers DEF Take, receiveFrame, sender
<1>2. b \notin Octets(m)
  BY <1>1 DEF Octets
<1> QED
  BY <1>1, <1>2 DEF Coming, Octets

\* Before the receiver has ended nobody gives up.
LEMMA FlagsStep ==
  ASSUME Calm, SendInv, [Next]_vars PROVE FlagsInv'
<1>1. CASE ended'
  <2>1. CASE ended
    <3>1. rflag = "close"
      BY <2>1, CalmNumbers DEF FlagsInv
    <3>2. rflag' = rflag
      BY <2>1, <3>1 DEF Next, vars, Session, SendEmpty, SendPending, SendNext, SendExit,
         Handle, HandleIdle, HandleResend, HandleOk, handleFrame, SenderStops, Deliver,
         Receive, Take, TakeFails, Ask, End, Running, receiveFrame, ReceiverStops, Lose,
         Duplicate, Tick, receiver, sender
    <3> QED
      BY <1>1, <3>1, <3>2 DEF FlagsInv
  <2>2. CASE ~ended
    <3>1. End
      BY <1>1, <2>2 DEF Next, vars, Session, SendEmpty, SendPending, SendNext, SendExit,
         Handle, HandleIdle, HandleResend, HandleOk, handleFrame, SenderStops, Deliver,
         Receive, Take, TakeFails, Ask, receiveFrame, ReceiverStops, Lose, Duplicate, Tick,
         receiver, sender
    <3>2. rflag' = "close"
      BY <2>2, <3>1, CalmNumbers DEF End, FlagsInv, Stopped
    <3> QED
      BY <1>1, <3>2 DEF FlagsInv
  <2> QED
    BY <2>1, <2>2
<1>2. CASE ~ended'
  <2>1. ~ended /\ size' = size
    BY <1>2, CalmSteps
  <2>2. rflag' = "continue"
    BY <1>2, <2>1, CalmSteps, AskLemma, CalmNumbers DEF FlagsInv, SendEmpty, SendPending,
       SendNext, HandleIdle, HandleResend, handleFrame, Deliver, Lose, Duplicate, vars, Take,
       TakeFails, Tick, receiver
  <2>3. /\ sflag' \in {"continue", "end", "wait"}
        /\ told' = "open" \/ (size' = 0 /\ told' = "close")
        /\ sflag' # "continue" => send' >= size'
        /\ size' = 1 => send' = 1 /\ sflag' = "continue"
    <3>0. /\ sflag \in {"continue", "end", "wait"} /\ (told = "open" \/ (size = 0 /\ told = "close"))
          /\ (sflag # "continue" => send >= size)
          /\ (size = 1 => send = 1 /\ sflag = "continue")
      BY <2>1, CalmNumbers DEF FlagsInv
    <3>1. CASE SendNext
      BY <3>0, <3>1, <2>1, CalmNumbers DEF SendNext, PastEnd
    <3>2. CASE SendEmpty
      BY <3>0, <3>2, <2>1 DEF SendEmpty
    <3>3. CASE HandleIdle \/ HandleResend
      <4>1. FlagAfterLook = IF sflag = "end" THEN "wait" ELSE sflag
        BY <2>1, NotUp DEF FlagAfterLook
      <4> QED
        BY <3>0, <3>3, <4>1, <2>1 DEF HandleIdle, HandleResend, handleFrame
    <3>4. CASE UNCHANGED <<sflag, send, told>>
      BY <3>0, <3>4, <2>1
    <3>5. SendNext \/ SendEmpty \/ HandleIdle \/ HandleResend \/ UNCHANGED <<sflag, send, told>>
      BY <1>2, CalmSteps DEF SendPending, Deliver, Ask, Lose, Duplicate, vars, Take,
         TakeFails, Tick, sender, receiveFrame
    <3> QED
      BY <3>1, <3>2, <3>3, <3>4, <3>5
  <2> QED
    BY <1>2, <2>2, <2>3 DEF FlagsInv
<1> QED
  BY <1>1, <1>2

\* What is left alone by the steps that do not take a message.
LEMMA QuietFrame ==
  ASSUME Calm,
         \/ SendEmpty \/ SendPending \/ SendNext \/ HandleIdle \/ HandleResend
         \/ Deliver \/ Ask \/ Lose \/ Duplicate \/ UNCHANGED vars \/ Tick
  PROVE  /\ rstart' = rstart /\ ended' = ended
         /\ Ask \/ time' = time
         /\ Lose \/ Duplicate \/ faults' = faults
         /\ Lose \/ Duplicate => faults > 0 /\ faults' = faults - 1
         /\ Ask \/ Tick \/ rclock' = rclock
BY CalmNumbers DEF SendEmpty, SendPending, SendNext, HandleIdle, HandleResend, handleFrame,
   Deliver, Ask, Lose, Duplicate, Tick, vars, receiver, receiveFrame, sender

\* As long as there was no fault every octet is coming.
LEMMA FullStep ==
  ASSUME Calm, SendInv, [Next]_vars PROVE FullInv'
<1> SUFFICES ASSUME faults' = MaxFaults, size' > 1, ~ended'
             PROVE  (\A b \in rstart' .. size' : Coming(b)') /\ reports' = {}
  BY DEF FullInv
<1>1. ~ended /\ size' = size
  BY CalmSteps
<1>2. ~Lose /\ ~Duplicate
  BY CalmNumbers, QuietFrame
<1>3. ASSUME NEW m \in held PROVE ~TakeFails(m)
  BY <1>3, CalmNumbers, TakeNumbers DEF TakeFails
<1>4. faults = MaxFaults
  BY <1>2, <1>3, CalmSteps, QuietFrame, TakeNumbers DEF Take
<1>5. (\A b \in rstart .. size : Coming(b)) /\ reports = {}
  BY <1>1, <1>4, CalmNumbers DEF FullInv
<1>6. ~HandleResend /\ ~Ask
  <2>1. size # 1 /\ ~(faults < MaxFaults)
    BY <1>1, <1>4, CalmNumbers
  <2> QED
    BY <1>5, <2>1, AskLemma DEF HandleResend
<1>7. CASE \E m \in held : Take(m)
  <2>1. PICK m \in held : Take(m)
    BY <1>7
  <2>2. rstart' \in Nat /\ rstart' >= rstart /\ reports' = reports
    BY <1>3, <2>1, TakeNumbers
  <2>3. ASSUME NEW b \in rstart' .. size PROVE Coming(b)'
    <3>1. b \in Nat /\ rstart' <= b /\ b \in rstart .. size
      BY <2>2, CalmNumbers
    <3> QED
      BY <1>5, <2>1, <3>1, ComingTake
  <2> QED
    BY <1>1, <1>5, <2>2, <2>3
<1>8. CASE SendEmpty \/ SendPending \/ SendNext \/ HandleIdle \/ Deliver \/ Tick
             \/ UNCHANGED vars
  <2>1. rstart' = rstart /\ reports' = reports
    BY <1>8, QuietFrame DEF SendEmpty, SendPending, SendNext, HandleIdle, Deliver, Tick, vars
  <2>2. ASSUME NEW b \in rstart .. size PROVE Coming(b)'
    <3>1. b \in Nat /\ b <= size /\ Coming(b)
      BY <1>5, CalmNumbers
    <3> QED
      BY <1>8, <3>1, ComingStep
  <2> QED
    BY <1>1, <1>5, <2>1, <2>2
<1> QED
  BY <1>2, <1>3, <1>6, <1>7, <1>8, CalmSteps

\* A tick is over when nobody has anything to do.
LEMMA TickLemma ==
  ASSUME Calm, ~ended, Tick, Quiet
  PROVE  /\ Waiting => Still /\ reports = {} /\ rclock < Period /\ rclock' = rclock + 1
         /\ ~Waiting => FALSE
         /\ UNCHANGED <<size, send, sstart, sflag, pending, messages, held, reports, rstart,
                        faults, time, ended>>
         /\ sclock' <= sclock + 1 /\ sclock' \in Nat
<1>1. rflag = "continue" /\ sflag \in {"continue", "end", "wait"}
        /\ (told = "open" \/ size = 0)
  BY CalmNumbers DEF FlagsInv
<1>2. Running
  BY DEF Quiet
<1>3. Waiting /\ SessionRuns
  BY <1>1, <1>2, CalmNumbers DEF Running, Waiting, SessionRuns, Stopped
<1>4. Still /\ reports = {} /\ rclock < Period /\ rclock' = rclock + 1
  BY <1>2, <1>3, CalmNumbers DEF Quiet, Still, Tick
<1> QED
  BY <1>3, <1>4, CalmNumbers DEF Tick

\* The receiver's clock moves only when nothing is under way.
LEMMA StillStep ==
  ASSUME Calm, SendInv, [Next]_vars PROVE StillInv'
<1> SUFFICES ASSUME Waiting', rclock' > 0 PROVE Still' /\ reports' = {}
  BY DEF StillInv
<1>1. ~ended' /\ ~ended /\ size' = size /\ rstart' <= size
  BY CalmSteps DEF Waiting
<1>2. CASE Tick /\ Quiet
  BY <1>1, <1>2, TickLemma DEF Still, Takeable
<1>3. ASSUME NEW m \in held PROVE ~Take(m) /\ ~TakeFails(m)
  BY <1>3, CalmNumbers DEF Take, TakeFails
<1>4. ~Ask
  BY CalmNumbers DEF Ask
<1>5. CASE ~(Tick /\ Quiet)
  <2>1. /\ \/ SendEmpty \/ SendPending \/ SendNext \/ HandleIdle \/ HandleResend
           \/ Deliver \/ Lose \/ Duplicate \/ UNCHANGED vars
    BY <1>1, <1>3, <1>4, <1>5, CalmSteps
  <2>2. rclock > 0 /\ Waiting
    BY <1>1, <2>1, QuietFrame DEF Waiting, Lose, receiver, SendEmpty, SendPending, SendNext,
       HandleIdle, HandleResend, handleFrame, Deliver, Duplicate, vars
  <2>3. Still /\ reports = {}
    BY <2>2, CalmNumbers DEF StillInv
  <2>4. HandleIdle \/ UNCHANGED vars
    BY <2>1, <2>2, <2>3, CalmNumbers DEF Still, SendEmpty, SendPending, SendNext, HandleResend,
       Deliver, Lose, Duplicate, Waiting
  <2> QED
    BY <2>3, <2>4 DEF HandleIdle, handleFrame, vars, receiver, sender, Still, Takeable
<1> QED
  BY <1>2, <1>5

\* A range that is asked for is cut into pieces that its first octet is in.
LEMMA CutsFirst ==
  ASSUME Calm, NEW r \in Range, r.first <= r.last
  PROVE  \E c \in Cuts(r) : r.first \in Octets(c)
<1> DEFINE e == IF r.first + ByteRead < r.last THEN r.first + ByteRead - 1 ELSE r.last
           c == [first |-> r.first, last |-> e]
<1>1. c \in Cuts(r)
  BY DEF Cuts
<1>2. r.first <= e /\ e \in Nat /\ r.first \in Nat
  BY CalmNumbers DEF Range
<1> QED
  BY <1>1, <1>2 DEF Octets

\* The same for an octet that is near, when nothing is lost or taken.
LEMMA NearStep ==
  ASSUME Calm, SendInv, Waiting, Near,
         \/ SendEmpty \/ SendPending \/ SendNext \/ HandleIdle \/ HandleResend
         \/ Deliver \/ Ask \/ Duplicate \/ Tick \/ UNCHANGED vars
  PROVE  Near'
<1>1. rstart' = rstart /\ rstart \in Nat /\ rstart <= size
  BY QuietFrame, CalmNumbers DEF Waiting
<1>2. CASE Coming(rstart)
  <2>1. \A b \in Nat : b <= size /\ Coming(b) => Coming(b)'
    BY ComingStep
  <2>2. \A b \in Nat : b = rstart => b <= size /\ Coming(b)
    BY <1>1, <1>2 DEF Coming
  <2>3. \A b \in Nat : b = rstart /\ Coming(b)' => Coming(rstart)'
    BY <1>1 DEF Coming
  <2> QED
    BY <1>1, <2>1, <2>2, <2>3 DEF Near
<1>3. CASE \E a \in reports : a.kind = "resend" /\ a.range.first = rstart
  <2>1. PICK a \in reports : a.kind = "resend" /\ a.range.first = rstart
    BY <1>3
  <2>2. CASE a \in reports'
    BY <1>1, <2>1, <2>2 DEF Near
  <2>3. CASE a \notin reports'
    <3>1. HandleResend
      BY <2>1, <2>3 DEF SendEmpty, SendPending, SendNext, HandleIdle, handleFrame, Deliver,
         Ask, Duplicate, Tick, vars
    <3>2. pending' = pending \cup Cuts(a.range)
      BY <2>1, <2>3, <3>1 DEF HandleResend
    <3>3. Sane(a.range)
      BY <2>1, ReportLemma DEF Calm, TypeOK
    <3>4. \E c \in Cuts(a.range) : a.range.first \in Octets(c)
      BY <3>3, CutsFirst DEF Sane
    <3> QED
      BY <1>1, <2>1, <3>2, <3>4 DEF Near, Coming
  <2> QED
    BY <2>2, <2>3
<1> QED
  BY <1>2, <1>3 DEF Near

\* There stays a try for every fault that may come.
LEMMA HopeStep ==
  ASSUME Calm, SendInv, [Next]_vars PROVE HopeInv'
<1> DEFINE Hope == time' >= faults' + (IF Near' THEN 0 ELSE 1)
<1> SUFFICES ASSUME Waiting' PROVE Hope
  BY DEF HopeInv
<1>1. ~ended' /\ ~ended /\ size' = size /\ rstart' <= size
  BY CalmSteps DEF Waiting
<1>2. CASE \E m \in held : TakeFails(m)
  <2>1. PICK m \in held : TakeFails(m)
    BY <1>2
  <2>2. time' = Tries /\ faults' = faults - 1 /\ faults > 0
    BY <2>1, TakeNumbers DEF TakeFails
  <2> QED
    BY <2>2, CalmNumbers DEF Calm, Persistent
<1>3. CASE \E m \in held : Take(m)
  <2>1. PICK m \in held : Take(m)
    BY <1>3
  <2>2. /\ time' = Tries /\ rstart' \in Nat /\ Waiting /\ m.last < rstart'
        /\ m.first \in Nat /\ m.last \in Nat /\ m.first <= m.last
        /\ rstart' >= rstart /\ faults' = faults
    BY <2>1, TakeNumbers, CalmNumbers, AdvanceLemma DEF Take, Calm
  <2>3. 1 <= m.first
    BY AdvanceLemma DEF Calm
  <2>4. size > 1
    BY <1>1, <2>2, <2>3, CalmNumbers
  <2>5. CASE faults = MaxFaults
    <3>1. \A b \in rstart .. size : Coming(b)
      BY <1>1, <2>4, <2>5, CalmNumbers DEF FullInv
    <3>2. \A b \in Nat : rstart' <= b /\ Coming(b) => Coming(b)'
      BY <2>1, ComingTake
    <3>3. \A b \in Nat : b = rstart' => Coming(b) /\ Coming(b)'
      BY <1>1, <2>2, <3>1, <3>2, CalmNumbers
    <3>4. \A b \in Nat : b = rstart' /\ Coming(b)' => Coming(rstart)'
      BY DEF Coming
    <3>5. Near'
      BY <2>2, <3>3, <3>4 DEF Near
    <3> QED
      BY <2>2, <2>5, <3>5, CalmNumbers DEF Calm, Persistent
  <2>6. CASE faults # MaxFaults
    BY <2>2, <2>6, CalmNumbers DEF Calm, Persistent
  <2> QED
    BY <2>5, <2>6
<1>4. CASE Ask
  <2>1. PICK s \in 1 .. size : reports' = {Resend(Hole(s))}
    BY <1>4, AskLemma
  <2>2. Near'
    <3>1. Resend(Hole(s)).kind = "resend" /\ Resend(Hole(s)).range.first = rstart
      BY DEF Resend, Hole
    <3>2. rstart' = rstart
      BY <1>4, QuietFrame
    <3> QED
      BY <2>1, <3>1, <3>2 DEF Near
  <2>3. time' >= faults /\ faults' = faults /\ time' \in Int
    BY <1>4, AskLemma, CalmNumbers DEF Ask
  <2> QED
    BY <2>2, <2>3, CalmNumbers
<1>5. CASE Lose
  <2>1. time' = time /\ faults' = faults - 1 /\ rstart' = rstart
    BY <1>5 DEF Lose, receiver
  <2>w. Waiting
    BY <1>1, <2>1 DEF Waiting
  <2>2. time >= faults
    BY <2>w, CalmNumbers DEF HopeInv
  <2> QED
    BY <2>1, <2>2, CalmNumbers
<1>6. CASE SendEmpty \/ SendPending \/ SendNext \/ HandleIdle \/ HandleResend
             \/ Deliver \/ Duplicate \/ UNCHANGED vars \/ (Tick /\ Quiet)
  <2>0. /\ time' = time /\ rstart' = rstart
        /\ faults' = faults \/ (faults > 0 /\ faults' = faults - 1)
    BY <1>6 DEF SendEmpty, SendPending, SendNext, HandleIdle, HandleResend, handleFrame,
       Deliver, Duplicate, Tick, vars, receiver, receiveFrame
  <2>1. time' = time /\ faults' \in Nat /\ faults' <= faults /\ rstart' = rstart
    BY <2>0, CalmNumbers
  <2>2. Waiting
    BY <1>1, <2>1 DEF Waiting
  <2>3. Near => Near'
    BY <1>6, <2>2, NearStep
  <2> QED
    BY <2>1, <2>2, <2>3, CalmNumbers DEF HopeInv
<1> QED
  BY <1>1, <1>2, <1>3, <1>4, <1>5, <1>6, CalmSteps

\* What the sender's clock is compared with.
Allowed == Period * (MaxFaults - faults - 1) + rclock
             + (IF reports = {} THEN 0 ELSE Period)

\* One period more.
LEMMA Distribute ==
  ASSUME NEW p \in Nat, NEW n \in Nat
  PROVE  p * n \in Nat /\ p * (n + 1) = p * n + p
OBVIOUS

\* The periods that faults may have cost, for one fault more and for none.
LEMMA AllowedNumbers ==
  ASSUME Calm, faults < MaxFaults
  PROVE  /\ Period * (MaxFaults - faults - 1) \in Nat
         /\ Period * (MaxFaults - (faults - 1) - 1)
              = Period * (MaxFaults - faults - 1) + Period
<1> DEFINE n == MaxFaults - faults - 1
<1>1. n \in Nat /\ MaxFaults - (faults - 1) - 1 = n + 1
  BY CalmNumbers
<1>2. Period * n \in Nat /\ Period * (n + 1) = Period * n + Period
  <2> HIDE DEF n
  <2> QED
    BY <1>1, Distribute, CalmNumbers
<1> QED
  BY <1>1, <1>2

\* The sender's clock stays below what the faults have cost.
LEMMA ClockStep ==
  ASSUME Calm, SendInv, [Next]_vars PROVE ClockInv'
<1> SUFFICES ASSUME ~ended', sflag' = "wait", sclock' > 0
             PROVE  Waiting' /\ Still' /\ faults' < MaxFaults /\ sclock' <= Allowed'
  BY DEF ClockInv, Allowed, Period
<1>1. ~ended /\ size' = size
  BY CalmSteps
<1> DEFINE Before == /\ sflag = "wait" /\ sclock > 0 /\ Waiting /\ Still
                     /\ faults < MaxFaults /\ sclock <= Allowed
<1>2. ASSUME sflag = "wait", sclock > 0 PROVE Before
  BY <1>1, <1>2, CalmNumbers DEF ClockInv, Allowed
<1>3. ~HandleResend
  BY DEF HandleResend
<1>4. CASE Tick /\ Quiet
  <2>1. /\ Waiting /\ Still /\ reports = {} /\ rclock' = rclock + 1
        /\ UNCHANGED <<size, send, sstart, sflag, pending, messages, held, reports, rstart,
                       faults, time, ended>>
        /\ sclock' <= sclock + 1 /\ sclock' \in Nat
    BY <1>1, <1>4, TickLemma
  <2>2. faults < MaxFaults
    <3>1. size # 1
      BY <1>1, <2>1, CalmNumbers DEF FlagsInv
    <3> QED
      BY <2>1, <3>1, StillNotComing
  <2>3. sclock' <= Allowed'
    <3>1. Period * (MaxFaults - faults - 1) \in Nat
      BY <2>2, AllowedNumbers
    <3>2. Allowed' = Period * (MaxFaults - faults - 1) + rclock + 1
      <4>1. Allowed' = Period * (MaxFaults - faults - 1) + (rclock + 1) + 0
        BY <2>1 DEF Allowed, Period
      <4> QED
        BY <3>1, <4>1, CalmNumbers
    <3>3. sclock <= Period * (MaxFaults - faults - 1) + rclock
      <4>1. CASE sclock > 0
        <5>1. Before
          BY <1>2, <2>1, <4>1
        <5> QED
          BY <5>1, <2>1, <3>1, CalmNumbers DEF Allowed
      <4>2. CASE ~(sclock > 0)
        BY <3>1, <4>2, CalmNumbers
      <4> QED
        BY <4>1, <4>2
    <3> QED
      BY <2>1, <3>1, <3>2, <3>3, CalmNumbers
  <2> QED
    BY <2>1, <2>2, <2>3 DEF Waiting, Still, Takeable
<1>5. CASE ~(Tick /\ Quiet)
  <2>1. Before
    <3>1. sflag = "wait" /\ sclock > 0
      <4>1. CASE SendNext
        BY <4>1 DEF SendNext
      <4>2. CASE HandleIdle
        BY <4>2, CalmNumbers DEF HandleIdle, FlagAfterLook, ClockAfterLook
      <4>3. CASE ~SendNext /\ ~HandleIdle
        <5>1. UNCHANGED <<sflag, sclock>>
          BY <1>3, <1>5, <4>3, CalmSteps DEF SendEmpty, SendPending, Deliver, Ask, Lose,
             Duplicate, vars, Take, TakeFails, sender, receiveFrame
        <5> QED
          BY <5>1
      <4> QED
        BY <4>1, <4>2, <4>3
    <3> QED
      BY <1>2, <3>1
  <2>2. /\ Period * (MaxFaults - faults - 1) \in Nat
        /\ Period * (MaxFaults - (faults - 1) - 1)
              = Period * (MaxFaults - faults - 1) + Period
    BY <2>1, AllowedNumbers
  <2>3. pending = {} /\ messages = {} /\ Takeable = {} /\ ~(send < size)
    BY <2>1, CalmNumbers DEF Still
  <2>4. CASE Ask
    <3>1. /\ reports = {} /\ rclock = Period /\ \E s \in 1 .. size : reports' = {Resend(Hole(s))}
      BY <2>4, AskLemma
    <3>2. rclock' = 0 /\ faults' = faults /\ sclock' = sclock /\ Still' /\ Waiting'
      BY <2>1, <2>4 DEF Ask, Still, Takeable, Waiting, receiveFrame, sender
    <3>3. Allowed' = Period * (MaxFaults - faults - 1) + Period
      <4>1. reports' # {}
        BY <3>1
      <4>2. Allowed' = Period * (MaxFaults - faults - 1) + 0 + Period
        BY <3>2, <4>1 DEF Allowed, Period
      <4> QED
        BY <2>2, <4>2, CalmNumbers
    <3> QED
      BY <2>1, <2>2, <3>1, <3>2, <3>3, CalmNumbers DEF Allowed
  <2>5. CASE Lose
    <3>1. faults' = faults - 1 /\ UNCHANGED <<size, sclock, rclock, messages>> /\ Still' /\ Waiting'
      BY <2>1, <2>3, <2>5 DEF Lose, Still, Takeable, Waiting, receiver, sender
    <3>2. Allowed' >= Period * (MaxFaults - faults - 1) + Period + rclock
      <4>1. Allowed' = Period * (MaxFaults - (faults - 1) - 1) + rclock
                         + (IF reports' = {} THEN 0 ELSE Period)
        BY <3>1 DEF Allowed, Period
      <4> QED
        BY <2>2, <4>1, CalmNumbers
    <3> QED
      BY <2>1, <2>2, <3>1, <3>2, CalmNumbers DEF Allowed
  <2>6. CASE UNCHANGED vars \/ SendEmpty \/ HandleIdle
    <3>1. /\ UNCHANGED <<size, send, pending, messages, held, reports, rstart, faults,
                         rclock, ended>>
          /\ sclock' = sclock
      BY <2>1, <2>6 DEF vars, sender, receiver, SendEmpty, HandleIdle, handleFrame,
         ClockAfterLook
    <3>2. Still' /\ Waiting' /\ Allowed' = Allowed
      BY <2>1, <3>1 DEF Still, Takeable, Waiting, Allowed, Period
    <3> QED
      BY <2>1, <3>1, <3>2
  <2>7. ~SendPending /\ ~SendNext /\ ~Deliver /\ ~Duplicate
    BY <2>3 DEF SendPending, SendNext, Deliver, Duplicate
  <2>8. ASSUME NEW m \in held PROVE ~(Take(m) \/ TakeFails(m))
    BY <2>3 DEF Take, TakeFails
  <2> QED
    BY <1>3, <1>5, <2>4, <2>5, <2>6, <2>7, <2>8, CalmSteps
<1> QED
  BY <1>4, <1>5

-----------------------------------------------------------------------------
(* The theorems.                                                           *)

\* IInv is inductive.
THEOREM Inductive == Spec => []IInv
<1>1. Init => IInv
  BY TypeInit, InvInit DEF IInv
<1>2. IInv /\ [Next]_vars => IInv'
  <2> SUFFICES ASSUME IInv, [Next]_vars PROVE IInv'
    OBVIOUS
  <2>1. TypeOK'
    <3>1. CASE UNCHANGED vars
      BY <3>1 DEF IInv, TypeOK, vars, sender, receiver, Sane, Length
    <3> QED
      BY <3>1, TypeSession, TypeHandle, TypeReceive, TypeOthers DEF IInv, Next
  <2>2. SendInv' /\ TriesInv' /\ VerdictInv'
    BY SendStep, TriesStep, VerdictStep DEF IInv
  <2>3. (Room => CopyInv)'
    BY CopyStep DEF IInv, Room
  <2> QED
    BY <2>1, <2>2, <2>3 DEF IInv
<1> QED
  BY <1>1, <1>2, PTL DEF Spec

\* Whatever the network loses, repeats or mixes up, every range that is sent, asked
\* for or cut is a range of the file and fits in a message with one octet to spare.
THEOREM TypeCorrect == Spec => []TypeOK
<1>1. IInv => TypeOK
  BY DEF IInv
<1> QED
  BY <1>1, Inductive, PTL

\* A message that is taken is octets that come to their places.
LEMMA TakeRefines ==
  ASSUME IInv, Room, NEW m \in held, Take(m)
  PROVE  FT!Receive
<1>1. TypeOK /\ file' = Write(m, Decode(m)) /\ ended = FALSE /\ ended' = ended
        /\ size' = size /\ told' = told
  BY DEF IInv, Take, Running, receiveFrame, sender, TypeOK
<1>2. /\ Octets(m) \in SUBSET (1 .. size)
      /\ file' = [b \in 1 .. size |-> IF b \in Octets(m) THEN b ELSE file[b]]
  BY <1>1, RoomLemma
<1> QED
  BY <1>1, <1>2 DEF FT!Receive, Verdict

\* The receiver's end: the position is past the end only when nothing is missing.
LEMMA EndRefines ==
  ASSUME IInv, Room, End
  PROVE  FT!Accept \/ FT!GiveUp
<1>1. /\ ~ended /\ ended' /\ UNCHANGED <<size, told, file>>
      /\ size \in Nat
  BY TransferAssumption DEF IInv, TypeOK, End, receiveFrame, sender
<1>2. Verdict = "open"
  BY <1>1 DEF Verdict
<1>3. CASE rstart = size + 1
  <2>1. FT!Complete
    BY <1>1, <1>3 DEF FT!Complete, IInv, CopyInv
  <2>2. Verdict' = "done"
    BY <1>1, <1>3 DEF End, Verdict
  <2> QED
    BY <1>1, <1>2, <2>1, <2>2 DEF FT!Accept
<1>4. CASE rstart # size + 1
  <2>1. Verdict' = "fail"
    BY <1>1, <1>4 DEF End, Verdict
  <2> QED
    BY <1>1, <1>2, <2>1 DEF FT!GiveUp
<1> QED
  BY <1>3, <1>4

\* What the sending user is told.
LEMMA SessionRefines ==
  ASSUME IInv, Session
  PROVE  FT!SenderSucceeds \/ FT!SenderGivesUp \/ UNCHANGED <<size, file, Verdict, told>>
<1>1. UNCHANGED <<size, file, Verdict>>
  BY DEF Session, SendEmpty, SendPending, SendNext, SendExit, receiver, Verdict
<1>2. CASE SendEmpty
  BY <1>1, <1>2 DEF SendEmpty, FT!SenderSucceeds
<1>3. CASE SendPending \/ SendNext
  BY <1>1, <1>3 DEF SendPending, SendNext
<1>4. CASE SendExit
  <2>1. CASE sflag = "suspend"
    BY <1>1, <1>4, <2>1 DEF SendExit, FT!SenderGivesUp
  <2>2. CASE sflag # "suspend"
    <3>1. sflag = "close"
      BY <1>4, <2>2 DEF SendExit, Stopped
    <3>2. Verdict = "done"
      BY <3>1 DEF IInv, VerdictInv, Verdict
    <3> QED
      BY <1>1, <1>4, <2>2, <3>2 DEF SendExit, FT!SenderSucceeds
  <2> QED
    BY <2>1, <2>2
<1> QED
  BY <1>2, <1>3, <1>4 DEF Session

\* Every step of a transfer is a step of a FileTransfer or changes nothing that it
\* promises.
LEMMA StepRefines ==
  ASSUME IInv, Room, [Next]_vars
  PROVE  [FT!Next]_(FT!vars)
<1> USE DEF FT!vars
<1>1. CASE Session
  BY <1>1, SessionRefines DEF FT!Next
<1>2. CASE End
  BY <1>2, EndRefines DEF FT!Next
<1>3. CASE \E m \in held : Take(m)
  BY <1>3, TakeRefines DEF FT!Next
<1>4. CASE Ask \/ ReceiverStops \/ \E m \in held : TakeFails(m)
  BY <1>4 DEF Ask, ReceiverStops, TakeFails, Running, receiveFrame, sender, Verdict
<1>5. CASE Handle \/ SenderStops
  BY <1>5 DEF Handle, HandleIdle, HandleResend, HandleOk, handleFrame, SenderStops,
     receiver, Verdict
<1>6. CASE Deliver \/ Lose \/ Duplicate \/ Tick \/ UNCHANGED vars
  BY <1>6 DEF Deliver, Lose, Duplicate, Tick, receiveFrame, receiver, sender, vars, Verdict
<1> QED
  BY <1>1, <1>2, <1>3, <1>4, <1>5, <1>6 DEF Next, Receive

\* With room in decode_buff for one octet more than a message a transfer is a
\* FileTransfer: no loss, duplicate, reordering, failing write or late answer puts an
\* octet in a wrong place, has a file accepted that is not whole, or tells the
\* sender of a success that the receiver does not know of.
THEOREM Refinement == ASSUME Room PROVE Spec => Implements
<1>1. Init => FT!Init
  BY DEF Init, FT!Init, Verdict
<1>2. IInv /\ [Next]_vars => [FT!Next]_(FT!vars)
  BY StepRefines
<1> QED
  BY <1>1, <1>2, Inductive, PTL DEF Spec, Implements, FT!Spec

\* Every step keeps the five parts together.
LEMMA CalmStep ==
  ASSUME Persistent, IInv, CalmInv, [Next]_vars PROVE CalmInv'
<1> SUFFICES ASSUME calm' PROVE CalmInv'
  BY DEF CalmInv
<1>1. calm
  BY DEF Next, vars, Session, SendEmpty, SendPending, SendNext, SendExit, Handle,
     HandleIdle, HandleResend, HandleOk, handleFrame, SenderStops, Deliver, Receive, Take,
     TakeFails, Ask, End, receiveFrame, ReceiverStops, Lose, Duplicate, Tick
<1>2. Calm /\ SendInv
  BY <1>1 DEF Calm, IInv
<1>3. faults' <= MaxFaults
  <2>1. faults' = faults \/ (faults > 0 /\ faults' = faults - 1)
    BY DEF Next, vars, Session, SendEmpty, SendPending, SendNext, SendExit, Handle,
       HandleIdle, HandleResend, HandleOk, handleFrame, SenderStops, Deliver, Receive, Take,
       TakeFails, Ask, End, receiveFrame, ReceiverStops, Lose, Duplicate, Tick
  <2> QED
    BY <1>2, <2>1, CalmNumbers
<1> QED
  BY <1>2, <1>3, FlagsStep, FullStep, StillStep, HopeStep, ClockStep DEF CalmInv

\* While the network is fast and there are fewer faults than tries, nobody gives up
\* on a transfer that can still succeed.
THEOREM CalmInductive == ASSUME Persistent PROVE Spec => []CalmInv
<1>1. Init => CalmInv
  BY CalmInit
<1>2. IInv /\ CalmInv /\ [Next]_vars => CalmInv'
  BY CalmStep
<1> QED
  BY <1>1, <1>2, Inductive, PTL DEF Spec

\* Nobody gives up on a fast network: the receiver has a try left for every fault that
\* may still come, and one more when the octet at its position is not under way; a
\* sender that is told "suppend" has sent the whole file, and the receiver accepted it
\* before, whatever was lost, repeated or not written, as long as SendPeriod is as long
\* as the receiver's periods that the faults cost.
THEOREM PatientCorrect == ASSUME Persistent PROVE Spec => []Patient
<1>1. IInv /\ CalmInv => Patient
  <2> SUFFICES ASSUME IInv, CalmInv, calm
               PROVE  Verdict # "fail" /\ (told = "suppend" => Verdict = "done")
    BY DEF Patient
  <2>1. Verdict # "fail"
    BY DEF CalmInv, FlagsInv, Verdict
  <2>2. ASSUME told = "suppend" PROVE Verdict = "done"
    <3>1. ended /\ rflag = "close"
      BY <2>2, Persistent, Zenon DEF CalmInv, FlagsInv
    <3> QED
      BY <3>1 DEF Verdict
  <2> QED
    BY <2>1, <2>2
<1> QED
  BY <1>1, Inductive, CalmInductive, PTL

=============================================================================
