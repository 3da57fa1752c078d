--------------------------- MODULE MCMsrpContext ---------------------------
(* Instances of MsrpContext for TLC. *)
EXTENDS MsrpContext

M(t, b)  == [id |-> t, head |-> <<Hdr>>, body |-> b]
Other(t) == [id |-> t, head |-> <<Hdr, Word>>, body |-> <<>>]
Body    == <<Word, Word>>

\* Contents that have lines like end lines in them: another message's, one
\* without a flag, one with more after the flag.
Nested    == <<Word, LF, Dash(9), Flag, CR, LF, Word>>
FalseEnds == <<LF, Dash(1), Word, LF, Dash(1), Flag, Word>>
FalseEnd  == <<Word, Word, Word, LF, Dash(1), Word>>

Long == [i \in 1 .. 34 |-> Word]

\* Three messages with contents cut anywhere; messages without contents between
\* them, one with a header the parser does not know, not cut or in packets of one
\* symbol.
CutFeeds ==
  {[sent |-> <<[M(1, Body) EXCEPT !.head = <<Hdr, Mid>>], M(2, Nested), M(3, <<Word>>)>>,
    cut |-> "any"],
   [sent |-> <<M(1, <<>>), M(2, Body), M(3, <<>>), Other(4), M(5, <<Word>>)>>,
    cut |-> "whole"],
   [sent |-> <<Other(1), M(2, <<Word>>), M(3, <<>>), M(4, Body)>>, cut |-> "one"]}

\* Contents tmp has no room for, contents that have the message's own end line
\* in them, a Content-Type with two entries.
OverFeeds ==
  {[sent |-> <<M(1, Long)>>, cut |-> "any"],
   [sent |-> <<[M(1, Body) EXCEPT !.head = <<Types>>], M(2, Body)>>, cut |-> "any"],
   [sent |-> <<M(1, FalseEnds), M(2, Body)>>, cut |-> "any"],
   [sent |-> <<M(1, FalseEnd), M(2, Body)>>, cut |-> "any"]}

MCFeeds == CutFeeds \cup OverFeeds

SplitFeeds ==
  {[sent |-> <<M(1, Body), M(2, <<>>), M(3, Body), M(4, Body)>>, cut |-> "any"]}

=============================================================================
