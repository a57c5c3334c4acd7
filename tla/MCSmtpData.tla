----------------------------- MODULE MCSmtpData -----------------------------
(***************************************************************************)
(* SmtpData for TLC: all messages of up to three of the lines below, and   *)
(* some longer ones.  With a MAXLINE of 7, one line has six characters, so *)
(* that its CR LF is a piece of its own, and one has a dot as the seventh. *)
(***************************************************************************)
EXTENDS SmtpData

Date  == "Date:"
To    == "To:"
Other == "Subject:"

AllTokens == {Date, To, Other, "x", ".", "text"}
Lines == {<<>>, <<"x">>, <<Other>>, <<Date, "x">>, <<To>>, <<".">>, <<".", ".", "x">>, <<"x", Date>>,
          <<"x", "x", "x", "x", "x", "x">>, <<"x", "x", "x", "x", "x", "x", ".">>}
Short == UNION {[1..n -> Lines] : n \in 0..3}
Long  == {<< <<Other>>, <<To>>, <<>>, <<Date>>, <<".">>, <<>>, <<".", "x">> >>,
          << <<Date>>, <<"x", "x", "x">>, <<To>>, <<>>, <<>>, <<".", ".", ".">> >>}
All   == Short \cup Long
Ends  == {<<"CR", "LF">>, <<"LF">>}
Two   == <<Date, To>>
WithColon == {Date, To, Other}
=============================================================================
