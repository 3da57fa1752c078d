------------------------------- MODULE MCWire -------------------------------
(***************************************************************************)
(* Values for Wire: uris with all and with none of their optional parts,   *)
(* reasons and lists of more than one word, quoted values with every       *)
(* separator in them, contents that look like the end of a message.        *)
(***************************************************************************)
EXTENDS Wire

MCNumbers == {0, 1, 5, 9, 10, 200, 401, 413, 2855}
MCTids    == {<<"a1">>}
MCMethods == {<<"SEND">>}
MCAnswers == {[code |-> 200, reason |-> <<"OK">>], [code |-> 401, reason |-> <<"No", " ", "way">>]}

Full == [host |-> <<"host">>, port |-> 2855, session_id |-> <<"s1">>, user |-> <<"bob">>,
         transport |-> "tcp"]
Bare == [host |-> <<"host">>, port |-> 0, session_id |-> <<>>, user |-> <<>>,
         transport |-> "none"]
MCRoutes == {<<Bare>>, <<Full, [Full EXCEPT !.user = <<>>, !.transport = "tls"],
                         [Bare EXCEPT !.session_id = <<"s2">>]>>}

MCReports == {[code |-> 0, rfc_code |-> 200, reason |-> <<>>],
              [code |-> 0, rfc_code |-> 413, reason |-> <<"too", " ", "long">>]}
MCWords   == {<<"w">>}
MCTimes   == {10}
MCRanges  == {[start |-> 1, end |-> 0, total |-> 0], [start |-> 5, end |-> 9, total |-> 10]}

Odd == <<"x", ",", " ", "=", "y">>
MCChallenges ==
  {[realm |-> <<"r">>, nonce |-> Odd, qop |-> <<"auth", ",", "int">>],
   [realm |-> Odd, nonce |-> <<"n">>, opaque |-> <<"realm">>, algorithm |-> <<"MD5">>,
    domain |-> <<"d">>, qop |-> <<"auth">>]}
MCCredentials ==
  {[realm |-> Odd, nonce |-> <<"n">>, opaque |-> Odd, uri |-> <<"a1">>, qop |-> <<"auth">>,
    username |-> <<"bob">>, nc |-> <<"1">>, cnonce |-> <<"c">>, response |-> <<"h">>],
   [realm |-> <<"r">>, nonce |-> <<"nonce">>, response |-> <<"h">>]}

\* A user with a password, and one with its hash for the realm "r".
Bob     == [username |-> <<"bob">>, realm |-> <<"r">>, data_type |-> "plain",
            data |-> <<"pw">>, session_id |-> <<"a1">>, port |-> 2855]
MCUsers == {Bob, [Bob EXCEPT !.data_type = "digest", !.data = <<"hash">>]}
MCCnonce == <<"c">>

Type(n) == [name |-> <<"text">>, value |-> <<n>>]
MCTypes    == {<<Type("plain")>>, <<Type("plain"), Type("html"), Type("xml")>>}
MCContents == {<<"x">>, <<LF, Dashes, "a1", "$", CR>>}

=============================================================================
