--------------------------- MODULE MessageHandover ---------------------------
(***************************************************************************)
(* What a mail filter in front of a nexthop promises about each message,   *)
(* whatever happens inside it: the client is told "ok" only after somebody *)
(* else, the nexthop or a module, has taken the message over, it is told   *)
(* "fail" only while nobody has, and it gets one such answer at most.      *)
(* The smtpd engine implements this (SmtpSession), and so does the pipe    *)
(* engine, whose answer is the exit status (PipeEngine).                   *)
(*                                                                         *)
(* Two ways out are part of the promise: a session may end without an      *)
(* answer, or with 421, at any time, and the answer of the nexthop may get *)
(* lost.  Then the client sends the message again, and it arrives twice.   *)
(***************************************************************************)
EXTENDS Sequences

VARIABLES
  final,     \* is no nexthop configured, so that messages end here
  held,      \* does the filter hold a message
  duty,      \* who answers for it: "filter", "nexthop" or "module"
  answers    \* what the client was told

hvars == <<final, held, duty, answers>>

Init == final \in BOOLEAN /\ held = FALSE /\ duty = "filter" /\ answers = <<>>

\* The content of a new message was asked for (354).
Take ==
  /\ ~held /\ held' = TRUE /\ duty' = "filter" /\ answers' = <<>>
  /\ UNCHANGED final

\* A new message is refused before any of it was read.
RefuseEarly == ~held /\ UNCHANGED <<final, held>> /\ duty' = "filter" /\ answers' = <<"fail">>

HandOver ==
  /\ held /\ duty = "filter" /\ answers = <<>> /\ ~final
  /\ duty' = "nexthop" /\ UNCHANGED <<final, held, answers>>

\* A module returns 1: it has taken care of the message.
Claim ==
  /\ held /\ duty = "filter" /\ answers = <<>>
  /\ duty' = "module" /\ answers' = <<"ok">> /\ UNCHANGED <<final, held>>

\* The message may be dropped in the same step, here and below.
Accept ==
  /\ held /\ answers = <<>> /\ (duty = "nexthop" \/ final)
  /\ answers' = <<"ok">> /\ UNCHANGED <<final, duty>>
  /\ held' \in BOOLEAN

Refuse ==
  /\ held /\ duty = "filter" /\ answers = <<>>
  /\ answers' = <<"fail">> /\ UNCHANGED <<final, duty>>
  /\ held' \in BOOLEAN

\* The nexthop took it, and nobody knows.
AnswerLost ==
  /\ held /\ duty = "filter" /\ answers = <<>> /\ ~final
  /\ duty' = "nexthop" /\ answers' = <<"fail">> /\ UNCHANGED final
  /\ held' \in BOOLEAN

\* The filter is done with the message, or the session ends.
Release == held /\ held' = FALSE /\ UNCHANGED <<final, duty, answers>>
TimeOut == answers' = Append(answers, "421") /\ held' = FALSE /\ UNCHANGED <<final, duty>>

Next ==
  \/ Take \/ RefuseEarly \/ HandOver \/ Claim \/ Accept \/ Refuse \/ AnswerLost
  \/ Release \/ TimeOut

Spec == Init /\ [][Next]_hvars
=============================================================================
