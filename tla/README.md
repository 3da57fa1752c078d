# libmsrp: specifications, model checking and proofs

libmsrp is a C library (on top of PJLIB) that writes and parses MSRP messages
(RFC 4975) and transfers files over them with a retransmission protocol of its own.
This directory holds TLA+ modules that model it, TLC configurations that check them
on small instances, and proofs that TLAPS checks for every value of the constants.

## 1. The system

| component | state it keeps | operations | talks to |
|---|---|---|---|
| send stream (`src/file/fast_msrp/lmsrp_stream_send.c`) | `lmsrp_send_stream`: `flag`, list of report nodes, `codec_size`; two threads with their locals | start, close, session thread, handle thread | user's `lmsrp_send_module` (read, send, get_report, close, suppend) |
| receive stream (`lmsrp_stream_recv.c`) | `lmsrp_recv_stream`: `flag`, `rblock`, `block`, `sizeof_file`; three threads with their locals | start, close, get thread, parse thread, handle thread | user's `lmsrp_recv_module` (get_mess, write, send_report, close), stream context |
| block lists (`lmsrp_frecv.c`, `msrp_local.h`) | rings of receive blocks and of data blocks | search by state, search by number, insert | receive stream |
| stream context (`core/stream/lmsrp_ctx.c`) | `state`, `tmp`, `sum`, `data_read`, the message in the making | update, init, clear | parser; calls `export` of the receive stream |
| message parser (`core/prase/*.c`) | none between calls but what the context keeps | parse a buffer, parse a stream | the context, the handle thread of the sender, the login |
| message writer (`core/to_string/*.c`), construction (`core/create/*.c`) | none | write / build a message | both streams, login |
| authentication (`core/auth/*.c`), MD5 and base64 (`core/util/*.c`) | none | digest, headers | login |
| codecs (`file/encode/*.c`) | none | encode, decode, lengths | both streams |
| login (`file/login/lmsrp_login.c`) | tries left, room for an answer, the text to send | AUTH exchange | transport, authentication |
| transports (`file/transport/*.c`) | a socket | connect, send, recv, recv with timeout | login, user's modules |

How a transfer works.  The sender's *session thread* cuts the file into messages
of `byte_read` octets and sends them.  The receiver's *get thread* puts what the
socket brings into numbered receive blocks; its *parse thread* takes them in order
and exports the messages in them into data blocks; its *handle thread* scans the
data blocks, decodes and writes to the file every message that starts at or before
its position, and asks with a 413 report for what it misses: at once when a write
failed, every two seconds for the hole at its position.  The sender's *handle
thread* cuts the requested range into nodes of a list, and the session thread
resends the nodes before it goes on.  A 200 report ends the transfer.

Everything that is hard in the streams comes from two facts: the threads of one
stream share its structure, `flag` and lists included, **without a lock**; and the
application may call close at any moment.  `flag` has one value for five meanings
(`lmsrp_flag_end`, `continue`, `wait`, `suspend`, `close`) and every thread writes it
without looking at what others wrote.

What makes each component correct:

- *the transfer as a whole*: octets come to their places, a file is accepted only
  when it is whole, the sender is told of success only then, whatever the network
  loses, repeats or reorders; on a fast network every file arrives.
- *send stream*: the first pass leaves no hole; no octet a 413 asked for is
  forgotten while the request is cut and consumed at the same time; a node is not
  reused before it was sent; the end is announced only when everything was sent,
  and then the session ends; close returns and nothing is used afterwards.
- *receive stream*: the get and the parse thread are a queue; the octets before the
  position are in the file; a 200 means a complete file and so does "done"; a
  413 asks for octets of the file; the receiver gives up after a bounded time;
  close returns.
- *block lists*: a block in use is never given out.
- *stream context, stream parser*: the messages exported are the messages sent,
  however the stream is cut into packets, and their words are still there; a refused
  message costs at most itself.
- *construction, writer, one-shot parser*: what is made, written and parsed is what
  was made, for every header and for contents that look like an end line.
- *authentication*: the relay finds in the answer to its challenge what it computes.
- *codecs*: decode inverts encode; the lengths computed are enough.
- *login*: it ends after its tries; it answers the latest challenge; a session is one
  that was granted; it dies over nothing but the answers named.

`PROJECT.json` lists the hazards of this code at their lines with the properties
that cover them, and the reason where none does.

## 2. Modules

| module | models | state and code |
|---|---|---|
| `SendStream` | `lmsrp_stream_send.c` | `flag`, `slots` = `send->list`; `spc, start, end, cur, slot` = locals of `lmsrp_send_session`; `hpc, answer, rest, res, timer` = locals of `lmsrp_report_handle` (`past` is `timer`); `apc` = where `lmsrp_send_stream_close` is |
| `RecvStream` | `lmsrp_stream_recv.c`, `lmsrp_frecv.c` | `flag, size, rblocks, blocks`; `gpc, gblk, gcount` = `lmsrp_get_socket`; `ppc, pblk, pcount` = `session_stream_prase`; `hpc, cursor, start, pre, minStart, time, timer` = `lmsrp_get_handle`; `apc` = `lmsrp_recv_stream_close` |
| `PacketQueue` | what the get and the parse thread promise each other | abstract: a queue of packets and the one being parsed; `RecvStream` implements it (`ImplementsQueue`) |
| `Transfer` | both ends and the network | `sflag, sstart, send, pending, sclock` = the sender; `rflag, rstart, pre, held, time, rclock, file, buffer` = the receiver; `messages, reports` = on their way |
| `FileTransfer` | what a transfer promises to the two users | abstract: the copy, the receiver's verdict, what the sender was told; `Transfer` implements it (`Implements`) |
| `MsrpContext` | `lmsrp_ctx.c` and the stream parser of `lmsrp_mess.c` | `state, tmp, dataRead` = fields of the context (`sum` is `Len(tmp)`); `seen, tid, slen` = what `ctx->mess` has; `lent` = which of its words lie in the caller's packet; `data, keep, find` = locals of `lmsrp_stream_prase`; `buff` = what the loop of `lmsrp_context_update` has left of the packet |
| `Headers` | `core/to_string`, the one-shot parser and the parsers of all headers in `core/prase` | pure operators on texts |
| `Codec` | `lmsrp_base64.c`, `lmsrp_encode_base64.c`, `lmsrp_encode_r128.c` | pure operators on octets |
| `Wire` | `core/create`, `core/auth`, and a message or a block on its way through `Headers` and `Codec` | `mess` = the `lmsrp_mess` in the making, `text` = what was written, `got` = what the peer parsed; `asked` is history |
| `Login` | `lmsrp_login.c` with `lmsrp_tcp.c` under it, and a relay | `dem, slen, out` = locals of `lmsrp_login`; the rest is the relay and the connection |
| `MC...` | | ranges, messages, headers and users of the instances TLC checks |
| `SendStreamProofs`, `RecvStreamProofs`, `TransferProofs`, `MsrpContextProofs`, `LoginProofs` | | theorems about the module of that name |
| `HeaderProofs`, `WireProofs` | | theorems about `Headers`; about `Wire` and `Codec` |
| `SequenceLemmas` | | what the proofs of the context, the texts and the codecs need to know of sequences and numbers |

### The two ends (`SendStream`, `RecvStream`)

**Grain.**  A thread's step ends where another thread may come in between with an
effect: after each load of `flag` that decides something, after each store to it,
and around each search in a list and each call of a module's callback.  The loop
condition `flag != close && flag != suspend` is one load.  So
`NextChunk` writes `flag` blindly, a step after `SessionTest` looked at it;
`CheckEnd` and `SetWait` are two steps; `SessionExit` and `GetExit` read the flag
anew to choose how they tell the user.  Memory is sequentially consistent: the
code has no atomics, and reorderings of compilers are not modelled.

**Lists.**  `pj_list_search` starts after the node it is given, and
`pj_list_insert_after` puts a new node right after the head: the newest node is
met first.  `slots` and `blocks` are the lists without their heads, oldest first,
so that `Found` and `NewestFree` are the last match and the scan of the handle
thread runs downwards; a node inserted during the scan is not met by it.  (The
head of the data blocks is never found free by the search, because the search
skips it, so it carries no data; the scan passes over it.)  The search among the
receive blocks starts from the current one, which differs from call to call: any
other free block may be found.

**Data.**  The octets of a message are its byte range; the file is the set of
octets written.  Headers, base64, random ids and logs are left out.  In the
sender, `mess->flag` (`+` or `$`) is left out: the receiver looks at `#` only.
The timers are `run` or `late`; `late` is what the code's comparison with the
period finds.  History variables (`out`, `owed`, `written`, `asked`, `okSent`)
record what the modules' callbacks were given.

**What the environment may do.**  `get_report` brings a timeout, an error, a
broken connection, a report without meaning, a 200 or a 413 for any of the
ranges in `Requests`, at any time.  `get_mess` brings nothing, an end of the
connection, a packet with any message of the file, a packet without one, or a `#`
message, in any order and any number of times up to the bound.
`module->write` may fail.  Time may pass at any moment.  Close may come at any
moment, once.

**A data block made late.**  `lmsrp_stream_recv.c:13` declares
`lmsrp_get_free_block` with two parameters, `lmsrp_frecv.c:76` defines three: the
size of a data block made while the session runs is what the register holds.
`ExportFault` is the outcome in which the block cannot hold the message: the
process is gone and no thread takes another step.  `GrowthFails` says whether an
instance has it.

**The queue.**  `ImplementsQueue` is the abstract specification `PacketQueue` under
the mapping: the packets that wait are those of the receive blocks with the numbers
from the parse thread's next one to the get thread's last one, in the order of their
numbers; the packet in hands is that of the parse thread's block from the moment it
was found until it is freed.

### The whole transfer (`Transfer`)

A step is one round of a thread's loop; what threads of one end do to each other is
the business of the two modules above.  What this one has and they have not is that
each end gets what the other one sent: the ranges a receiver asks for are ranges the
sender cuts, and the clocks of both ends run together.

- Messages and reports on their way are sets: they come in any order, may be lost,
  and messages may come twice.  The nodes of the sender's list and the receiver's
  data blocks are sets of ranges, too: that nothing in them is lost is what
  `SlotKept`, `OwedTracked` and `BlockKept` show.
- `file` says which octet of the sender's file stands at each place of the copy, and
  `buffer` what `decode_buff` holds: a message that does not fit is not decoded and
  what the buffer held before is written (`Decode`, `Write`).
- `RealLen` is larger than `ByteRead` when the receiver's block is larger than the
  sender's, or its `decode_leng` leaves an octet: `Implements` needs
  `ByteRead < RealLen`, because `start + codec_size < end` cuts pieces of
  `codec_size + 1` octets.  That the sender's own encoder has room for such a piece
  is so for block sizes that are 0 or 1 modulo 4 (`Base64FitsAll`), which this model
  assumes.
- Behaviours are of two kinds.  In `calm` ones nobody closes, no socket breaks and
  the network is fast: time passes only when no message or report is on its way
  and no thread has anything to do (`Quiet`).  In the others time passes at any
  moment, and both ends may be stopped at any moment.  There, loss needs no step of
  its own: what is delivered late enough is lost.
- Clocks count ticks of about three seconds, saturating above their period.  The
  sender's ten seconds are `SendPeriod = 3`, the receiver's two `RecvPeriod = 0`.

### The stream context (`MsrpContext`)

A stream is a sequence of symbols: CR, LF, "MSRP" with the message's id, a header,
the dashes with an id, a flag, a word.  Packets are cut between symbols, so a line is
cut before its end, between CR and LF, and an end line before its dashes, its flag,
its CR and its LF; it is not cut inside a word, where the parser does the same as at
the word's end (it waits for the LF).  The marker `"\n-------" id` is two symbols, so
the step back by its length minus one (line 412) is one symbol.  A call of
`_lmsrp_context_update2` is one of `BeginFresh` (state "done", parse the packet where
it lies), `BeginMore` (append to `tmp`, parse from `data_read`) and `OverData`, then
the parser's steps, then `Finish`.  Of the return values the octets used and
`*report` are kept; `exported` records the calls of `ctx->export`.  `Text` writes a
message as `lmsrp_mess_tostring` does: without contents there is no empty line.

Three headers stand for all: `Hdr` for those whose words `change_point` moves when a
pending message is copied to `tmp` (the paths, the two authentications, a
Content-Type of one entry), `Mid` for those it does not (Message-ID, the two
reports; the reason of a Status and the transports of uris behave like it), `Types`
for a Content-Type with two entries or none, over which its loop does not end.
`lent` is the set of words that lie in the packet, which is the caller's; a message
exported in a later call has lost the ones that are still there, since the receiver's
block may be filled again.  `Hang` is the loop.

The search for the end line takes the place of each false marker away from the
rest again (line 422), from the beginning of the contents and not from the last
marker; `MarkerFalse` does the same.  The place read after contents that are too
long is the difference of a null pointer (line 408): `Garbage` lets it be any place
in the packet, or ends the process.

What a call has used of the packet after a message that was begun in an earlier one is
`size - (sum - data_read) - nlen` (line 149, `UsedCopy`).  With false end lines in the
contents the search may come to the true one only when all of it lay in `tmp` before
this packet, and the count is negative: the loop of `lmsrp_context_update` goes on
before the packet, in memory that is not the context's (`Backwards`).  `Finish` is the
return of a call whose count is not negative.

### Texts (`Headers`, `Wire`)

A text is a sequence of tokens: every character some parser stops at is a token of
its own, any other run of characters is one.  One token stands for all the ways to
write a name in upper and lower case.  Numbers are written and read in decimal
(`Decimal`, `Strtol`).  The words a C string function would find at the very end of a
line, the CR behind it included, are the words `GetStr` finds.  The parser of an
authentication header keeps its `status` across words: `AuthWord` carries whether a
quote is open.  Ids are shorter than the 40 characters `lmsrp_check_end2` looks back.
The loops of the parsers are recursive functions on the text that is left, so that a
module with proofs may extend `Headers`.  `Marks` are the characters
that are tokens of their own.  The list of parameters nobody knows by name is dropped, since nothing reads it.
`TextAssumption` says what an application may hand to the constructors: a word has none
of the marks in it that end it for its parser, a text is of one line, a code is not 0,
and the entries of an unquoted list behind the first are not names the parser knows.
The code checks nothing of this.  The contents may be anything.  `NumbersAssumption`
says that different numbers are printed as different words, `WrittenAssumption` only
that the words the code writes itself are strings.
`Order` is the order of the writer, in which `Add` adds headers: any other order
makes the same `lmsrp_mess`.

`RoundTrip` names what does not arrive as it was (`Arrives`, `Refused`): of a reason
the first word; of a list in `qop` or `domain` and of an `nc` the first entry; the
content types behind the first in reverse order; a message with an expiry is refused,
because the writer's "Expries" is not the parser's name; and so is one with a challenge
and an Authorization, since line 163 of `lmsrp_mess.c` looks at `www` where it should
look at `auth`.  For the same reason `HeaderOnce` excepts the Authorization.

`Md5` is a function that gives different texts different hashes, which are words
without marks; nothing else is used of it, and the proofs need only the words.  The digest is that of `lmsrp_digest.c`; the default build calls pjsip's
function with the same arguments.  `Answerable` says which challenges this library
can answer: MD5 and `auth` the first thing offered in `qop`, since the algorithm is
not looked at and `qop` is taken as parsed.  The `uri` is the id of the relay's
answer, not the request's as RFC 4976 has it: `ResponseAccepted` shows that the header
and the hash agree on it.

Beside the message, `Wire` reads octets of a file (`octets`) and goes through block
sizes (`block`), of which the codecs' properties speak.  `Word` stands for the width
of the counters: 2^16 instead of 2^32 keeps TLC's integers in range.  `WireAssumption`
says what the codecs' properties need of it: eight times the octets encoded at once
and six more are below `Word`, so that no length of theirs goes round.  The library
encodes one block at a time, whose octets are far below 2^29.

### The login (`Login`)

The relay is external.  What it sends is every answer `lmsrp_login` tells apart: a
request, 200, 401/407 or another code; with or without the header that is
dereferenced; whole or cut by the transport; longer or shorter than the room left;
with a challenge whose answer does or does not fit into 1000 octets.  A "kind" relay
grants what RFC 4976 grants, with answers no longer than those before; a "busy" one
answers everything somehow; "any" may also be silent or close.  `slen` is
`m_recv.slen`, which `recv` overwrites with what it wrote and nobody sets back.

## 3. What is checked

| run | bounds | shows |
|---|---|---|
| `send` | files of 0, 1, 3, 4, 5 octets, messages of 2, one node besides the head, one 413 out of three ranges, fairness | `TypeOK`, `NoGap`, `AnnouncedAllSent`, `OwedTracked`, `MessageBounded`, `SlotKept`, `OwedServed`, `WaitEnds`, `CloseAfterPassReturns` |
| `recv` | files of 0 and 3 octets, messages 1-2, 2-3 and 3-3, two receive blocks and one data block besides the head, two packets, late blocks may fail, fairness | `TypeOK`, `PacketsInOrder`, `PrefixWritten`, `OkMeansComplete`, `ReportSane`, `ImplementsQueue`, `BlockKept`, `StopIsFinal`, `ReceiverEnds`, `CloseReturns` |
| `transfer` | files of 0 to 7 octets in messages of 2, three faults on a fast network, five questions before the first message and four after one; files of 0, 1 and 3 octets on any network | `TypeOK`, `Patient`, `Implements`, `Completes`, `SenderEnds` |
| `wire` | up to three headers of all kinds, with and without contents; a challenge read and answered by a user with a password and one with a hash; up to five octets out of 0, 91, 255; blocks of 3 to 700 | `RoundTrip`, `HeaderOnce`, `ResponseAccepted`, `Base64RoundTrip`, `R128RoundTrip`, `BlockFits` |
| `login` | four tries, room for three, answers of one to four | `OnlyGranted`, `LatestChallenge`, `GoneFor`, `KindGrants`, `LoginEnds` |
| `context_cuts` | three messages with contents, one of them with another message's end line inside and one with a Message-ID, cut anywhere; messages without contents between them, one with an unknown header, whole or one symbol at a time; contents longer than `tmp`, contents with their own end line in them and with the half of one, a Content-Type with two entries; `tmp` of 40 symbols, twice the longest message that is to fit | `TypeOK`, `InOrder`, `WordsKept`, `AllExported`, `UpdateReturns` |
| `close_hang`, `end_exact`, `close_early`, `transfer_content`, `recv_outcome`, `context_split` | the smallest instance with the case | where the code differs from its headers (section 5) |

*Why these bounds.*  The files of `send` end one octet into a message, at the end of
one, and before the end of the first; empty files and files of one octet have paths of
their own in the code.  The requests are one octet longer than a message (what the
strict comparison in line 360 treats specially), long enough to be cut twice, and
empty (`first > last`).  One 413 is cut while its first nodes are
being sent, and with one node in the list it has to grow; that nothing is forgotten
when two of them overlap is proved (`OwedCorrect`, `SlotKeptCorrect`) and not run.  On
the receiving side two packets are enough for a message before its turn, a duplicate,
a failed write followed by another, and for the block lists to grow; that the reuse of
blocks over more packets is a queue is proved (`QueueCorrect`).  The number of tries
is 0 there so that the end of the tries comes together with late packets.  The code's
initial lists (10 nodes, up to 5 blocks) and tries (7 and 4) only put the same events
further apart; the proofs hold for every value.

`transfer` has one question more than faults in its calm behaviours, which is what
`Completes` needs: every fault costs at most one question.  Its slow behaviours
have no faults, because delay has them all.  The file of one octet crosses only by a
413.  `login` has four tries instead of ten: one for the first request, one for each of
two challenges and one more.  `wire`'s values have every separator inside quotes,
uris with all and with none of their optional parts, and contents whose last line is
the end line of the message but for its LF; a header never looks at more than
itself and, for the Authorization, one other, so three of them show what they do to
each other.

A feed of `MsrpContext` says how packets cut it: "any" is anywhere; "one" is one
symbol at a time, as `test_prase.c:43` feeds the context; "whole" is anywhere but
inside a message without contents, which is what finding 6 is about.  `Fitting`
says of which messages the properties speak: `tmp` has twice the room they need (the
context is made with `2 * (max_size + 500)`, `lmsrp_ctx.c:258`), their contents
do not have their own end line (the contents this library sends are base64), and
the parser knows their headers.  `TypeOK` holds of the others too, and they reach
`OverData`, `Garbage`, `Hang` and `Backwards`.  Three messages are enough for a packet that has the
end of one, a whole one and the beginning of a third.  Messages without contents are
refused at their end unless two blanks follow (line 369) and are never exported; the
receive stream has no use for them.

*Deadlock* is checked in all runs but `wire` and `login`, which come to an end (a
text was read, the login has returned or waits for a silent relay); elsewhere
`Terminating`, or time, lets a finished model go on.

*Fairness.*  In the streams: weak fairness of each thread: the scheduler runs it, and
the callbacks of the modules return (`get_report` and `get_mess` do so with a timeout,
as the transports' two seconds show); of `Tick`: time passes; of the joins in close.
Nobody is required to call close, to send a packet or to answer: the environment's
steps that carry information are not fair apart from `Report` as a whole, whose
fairness is that `get_report` returns something.  `OwedServed` and `WaitEnds` need that
only finitely many 413s come (`MaxRequests`): every 413 starts the period anew, and a
peer that never stops asking keeps a sender for ever.  In `Transfer`: the threads,
`Tick`, and `Deliver`: what the network does not lose arrives.  In `MsrpContext` only
`Update2` is fair: the thread that calls `lmsrp_context_update` runs; packets need not
come.  In `Login`: the client, and a relay that is not "any".  `ReceiverEnds` and
`CloseReturns` of the receiver do not speak of a process that is gone.

Every property of a passing run has a mutant: the operators marked `Slip` in the
modules are small mistakes the code could have had, and TLC finds the property
violated with each of them.

## 4. What is proved

TLAPS proves the following for every value of the constants; the named assumptions
(`SendAssumption`, `RecvAssumption`, `TransferAssumption`, `LoginAssumption`,
`CodecAssumption`, `WireAssumption`, `TextAssumption`, `NumbersAssumption`,
`WrittenAssumption`, `ContextAssumption`), which TLC evaluates in the runs, are all that is assumed.

- `SendStreamProofs`: `TypeCorrect`, `NoGapCorrect`, `AnnouncedCorrect`,
  `OwedCorrect`, `BoundedCorrect`, `SlotKeptCorrect`.
- `RecvStreamProofs`: `TypeCorrect`, `PacketsCorrect`, `PrefixCorrect`,
  `OkCorrect`, `ReportCorrect`, `BlockKeptCorrect`, `StopIsFinalCorrect`;
  `QueueCorrect`, that `RecvStream` implements `PacketQueue`.
- `TransferProofs`: `TypeCorrect`; `Refinement`, that `Transfer` implements
  `FileTransfer` when a piece of `ByteRead + 1` octets fits into `decode_buff`;
  `PatientCorrect`, that on a fast network nobody gives up a transfer that can still
  succeed.
- `MsrpContextProofs`: `TypeCorrect`; `InOrderCorrect`, `WordsKeptCorrect`,
  `AllExportedCorrect`, for every stream of messages with contents and every way to
  cut it; `CallsUse`, that every call uses some of the packet.
- `LoginProofs`: `TypeCorrect`, `OnlyGrantedCorrect`, `LatestChallengeCorrect`,
  `GoneForCorrect`.
- `HeaderProofs`: that each header is read back as it was written (`ListUriTrip`,
  `ByteRangeTrip`, `StatusTrip`, `ContentTypeTrip`, `InfoTrip`, `WwwTrip`, `AuthTrip`),
  that the end line is found (`EndIsFound`), and with these what
  `lmsrp_mess_prase_from_buff` makes of every message `lmsrp_mess_tostring` writes
  (`MessageTrip`) and of one with a header twice (`TwiceTrip`).
- `WireProofs`, on messages: `AnswerIs`, on the answer to any challenge; `MessagesCorrect`,
  the inductive invariant, and from it `RoundTripCorrect`, `HeaderOnceCorrect`,
  `ResponseAcceptedCorrect`.
- `WireProofs`, on blocks: `Base64FitsAll`, `R128FitsAll`, the lengths of the codecs for
  every block size; `Base64TripAll`, `BreaksIgnoredAll`, `R128TripAll`, their round trips
  for every sequence of octets; and with these `BlockFitsCorrect`,
  `Base64RoundTripCorrect`, `R128RoundTripCorrect`.
- `SequenceLemmas`: the lemmas on sequences and numbers these rest on.

*The sender's argument.*  `SlotKept` is not inductive by itself: that the handle
thread never fills a node in use needs that the node it holds (`res`) is inactive
whenever it is going to fill it; that `Resend` gives back the right node needs
that the node in the session's hands (`slot`) is active, carries `cur`, and
therefore differs from `res`.  `OwedTracked` and the bound on messages follow from
what the nodes carry: pieces of at most `ByteRead + 1` octets.  `NoGap` and
`AnnouncedAllSent` need what `start`, `end` and `cur` have to do with each other
at each place of the session thread.

*The receiver's argument.*  `BlockInv`: the receive blocks in use carry exactly
the numbers from `pcount` to `gcount - 1`, without repetition; the block the get
thread fills is free and the one the parse thread holds is not.  `PositionInv`:
ready data blocks carry messages of the file; the octets before `start` are
written and `pre <= start`; `minStart` is the end of the file or lies beyond
`start`, from which `ReportSane` follows.  `TriesInv`: a handle thread without
tries has stopped the session and does not come back to its clock, so `time` stays
above -2.  `EndInv`: nobody says "close" or "done" before the 200.

*The queue's argument.*  From `BlockInv` there is exactly one block for every number
that waits, so the packet a number names does not change when blocks are added,
filled or freed; a new packet gets the next number and goes to the end.  `GoneInv`
is needed for the state after the process is gone: the packet in hands stays there,
and no get thread puts others behind it.

*The transfer's argument.*  `SendInv`: the next message begins right after the last
one, so every range sent is a range of the file.  `TriesInv`: a receiver that used up
its tries has stopped.  `VerdictInv`: there is no 200, and nobody at the sender says
"close", before the receiver has ended with "close".  `CopyInv`: each place of the
copy holds its own octet or none, and no place before `rstart` is empty; it holds
under `Room`, and `transfer_content` shows that it does not without.  With it each step
is a step of `FileTransfer` or a stutter.

*The patience of both ends.*  `Patient` is proved under `Persistent`: more questions
than faults, and a sender's period no shorter than as many periods of the receiver as
there may be faults.  It is not inductive, because it is about sums: the tries left and the faults still to come, the sender's clock and the
periods the receiver has waited in vain.  `CalmInv` has them.  `FlagsInv`: before the
receiver has ended nobody has given up.  `FullInv`: as long as there was no fault every
octet from the position on is coming.  `StillInv`: the receiver's clock moves only when
nothing is under way.  `HopeInv`: there is a try for every fault that may come and one
more when the octet at the position is not coming.  `ClockInv`: the sender's clock is
at most as many periods as faults were spent.

*The context's argument.*  `TypeInv` is `TypeOK` with `ModeInv`: which `state` goes with
each place of the parser, the types of `find`, and that `slen` of a complete message is
within `data`.  It needs nothing of the messages.

`Good` says where the context is in the stream.  `StreamInv`: `buff` and `source` are
the parts of the stream behind what has been used.  `HistoryInv`: the messages exported
are the first ones sent.  `IdleInv`: between two calls either nothing is pending and the
next symbol is the first one of the next message, or `tmp` has what came of that
message.  `CallInv`: in a call the parser's data is a part of the stream, beginning at
the place it has come to in the message, whether it lies in the packet or in `tmp`.
`ParseInv`: at each step of the parser that place is the begin of a line or of the
contents, and `state`, `tid`, `seen` and `slen` are what the symbols before it make
(`Progress`).  With that the next symbols of the message are known at each place of the parser, every
search of it is computed from them (`LineLemma`, `MarkersAre`, `EndLemma`), and each step
keeps `Good`; the steps that would lose something (`LineRefused`, `Garbage`, `OverData`,
`MarkerFalse`, `Hang`, `Backwards`) cannot be taken.

`Good` holds under `Fit`: messages `Fitting` allows, which all have contents
(`AllBodies`).  Messages without contents are refused at their end unless blanks follow,
and what is dropped with them depends on where packets end: finding 6 shows that
`InOrder` is false of them for cuts inside, so for mixed streams `context_cuts` is all
there is.  The streams are of any length and so is each message, so the proofs need
what `FlattenSeq` returns for every sequence.  That is induction over data, which the
theorems of the library have with an operator as a parameter; `SequenceLemmas` has it
with a set (`Induction`: a set of numbers with 0 and all successors has them all), from
which the recursive functions are unfolded (`JoinsExist`, `FlattenLemma`, `ReachStep`).

*The login's argument.*  At most one text or answer is on its way (`IdleInv`,
`RequestInv`, `OneAnswer`); the text is an answer to the latest challenge unless that
challenge is on its way (`NonceInv`), from which `LatestChallenge` follows; a 200 on
its way was granted (`AcceptInv`); the room is the shortest answer's (`RoomInv`),
from which `GoneFor` follows.

*The texts' argument.*  A parser's word ends where one of its separators stands, so
each header is a question of where the separators of its text are: none within a word
(`TextAssumption` says so of what the application hands over, for each word the
separators of the parser that will read it), one right behind it.  The headers with a
fixed number of words (`StatusTrip`, `ByteRangeTrip`, `InfoTrip`) are read word by word.
Lists are read by induction over what is left: `Beyond(ts, k)` is the text behind its
first `k` entries, and the parser comes from one to the next with the entry read.  For
challenges and credentials the induction is over the order they are written in and the
octets of a value without quotes: what stands behind the first entry of such a value is
read entry by entry as names the parser does not know, which leave the header as it is
(`OrderTrip`).

`HeadersTrip` does the same for the headers of a message: behind `k` rows of the table the
parser has `Kept(m, k)`, which is nothing as soon as a header was met that `Refused`
names; each row is the empty text or a line the parser takes for that row
(`HeaderLinesIs`, `KnownStep`), and no line before the contents is taken for the
end.
`EndIsFound`: `lmsrp_check_end2` looks from the end of the text backwards, so what the
contents look like does not matter.  In a text with a header twice the second
one meets the first (`FullTrip`, `AlreadyIs`), unless it is the Authorization.

*The messages' argument.*  `RoundTrip` says of `got` what `MessageTrip` says of the
parser, for messages that can be written (`IsMess`); that `mess` is one, and that `text`
and `got` are its own, is `MessInv` and `TextInv`.  `ResponseAccepted` looks at a
message that was written and read after the challenge was answered, and other headers
may have been added in between: `AskedInv` keeps what the answer is (`IsAnswer`: its
words are those of the challenge and its response is the digest of them) and that nothing
was added for which the peer refuses it.  That the answer is so when it is made needs
that the words of a challenge that was read are written and read again without a change,
whatever `qop` has lost on the way (`FirstEntry`), and that a hash may stand between
quotes (`Md5Is`).

*The codecs' argument.*  Both codecs work group by group: three octets are four digits
of base64, seven octets are eight characters of base 128, with a shorter group at the
end.  Each is first proved for one group: for base64 that is arithmetic on up to three
octets (`Group64`), for base 128 it is the bits, which coding moves and decoding
moves back (`OctetBits`, `Group128`).  `Pieces` says of a sequence and some
sequences that these are its groups; a sequence has only one such list (`GroupsAre`), and
one behind the other they are the sequence (`FlattenGroups`).  The coded groups of the
octets are the groups of the text, because all but the last are full; so decoding the
text gives the octets' groups, and these the octets.  That base64's text is the
standard's compares the digit at each place with six bits of the whole row of bits
(`ReferenceIs`).  A line break in the text is passed over because it has no digits
(`DigitsAmong`); the condition that the last digit is behind it is needed, since a
character at the very end is taken for a digit whatever it is.  Under `WireAssumption`
`Counted` holds of the octets in every reachable state (`WireInductive`).

*Only model-checked.*  Everything under fairness (`OwedServed`, `WaitEnds`,
`CloseAfterPassReturns`, `ReceiverEnds`, `CloseReturns`, `Completes`, `SenderEnds`,
`KindGrants`, `LoginEnds`, `UpdateReturns`), which is out of the prover's reach.
`InOrder`, `WordsKept` and `AllExported` for streams with messages without contents.
Every other property of a passing run is stated by a theorem above.

## 5. Where the code differs from its headers

Each is a run TLC finds violated; `PROJECT.json` quotes the lines.

1. `close_hang`.  Close writes "suspend"; the session thread, past its test of the
   flag, writes "end" over it; if the handle thread has returned meanwhile, nobody
   ends the session thread and close never returns.  After the first pass this
   cannot happen any more (`CloseAfterPassReturns`).
2. `transfer_content`.  `start + codec_size < end` should be `<=`: a last piece of
   `codec_size + 1` octets is one the receiver cannot decode, and it does not look at
   the decoder's status.  It writes what the message before left in the buffer, and
   accepts the file.  Pieces are never longer than that (`MessageBounded`, proved),
   and with room for one octet more the copy is the file (`Refinement`).
3. `end_exact`.  `end > total` is false for a last message that is full: the end of
   a file whose size is a multiple of `byte_read` is never announced and the clock
   that ends the session does not start.
4. `close_early`.  Close joins the handle thread only if it exists already; called
   right after start it returns while the handle thread, made meanwhile, uses the
   list.
5. `recv_outcome`.  After the 200 another thread may write "suspend" before the get
   thread reads the flag: the user is told that the transfer failed.
6. `context_split`.  Almost every message without contents is "refused" by the
   stream parser (fewer than two blanks follow its end line).  After a refusal the
   context returns `data_read`, which counts the message's octets over all its
   packets, as the octets used of this packet: if the message came in two packets,
   the head of the message that follows is skipped, and that message is refused or
   lost.  When such messages come whole, or one octet at a time, nothing is lost
   (`context_cuts`).

Other things the models have as they are in the code, which no comment promises
otherwise: what `Arrives` and `Refused` of `Wire` name; the words `change_point` does
not move and the Content-Type it does not come back from; the room of the login that
only shrinks; the file of one octet that is not sent before it is asked for.

## 6. What is not modelled, and assumptions

- The structures are zeroed by the caller; threads can be created; memory is not
  exhausted; close is called at most once and not before start.  (`pj_bzero(send,
  sizeof(send))` clears a pointer's size only: a stream on the stack keeps garbage.)
- The receive module has `create_header`; without it `lmsrp_get_handle` reads an
  uninitialised variable (`lmsrp_stream_recv.c:171`).
- Messages with contents have a Byte-Range within the file, as this library's
  senders write them.
- In `RecvStream` a packet carries at most one whole message; how messages are put
  together from packets is checked by itself in `MsrpContext`.  The two are not
  composed: the states of both together are out of TLC's reach, and nothing but the
  list of exported messages, in order, passes between them.
- `lmsrp_mess_set_header` keeps words in a static variable (line 58) that all
  threads of a process share; each module models one stream or one text.
- Sizes are naturals; the code's `int` positions are the same below 2^31.
- The branch `LM_STABLE != 1` of the sender is not compiled by the configuration
  in `lmsrp_config.h` and is not modelled.
- The 32-bit arithmetic of MD5: `Md5` takes it for injective.
- The transports: opening, accepting and closing sockets.  A TCP send that takes a part
  of the text only is left to the operating system; `Login` has whole texts or none.
- `lmsrp_getblock_data`, `lmsrp_check_end` and `lmsrp_session.h`, which nothing in the
  library calls or uses.

## 7. What could come next

- `MessageStream`, the abstract specification of the context (what is exported grows
  as a prefix of what was sent), and the refinement; `InOrderCorrect` and
  `AllExportedCorrect` have what it would promise.
- The values of headers in the stream parser: `MsrpContext` has a header as one symbol,
  and `HeaderProofs` says what the parsers of headers, which both use, make of each.
