------------------------------ MODULE SmtpData ------------------------------
(***************************************************************************)
(* The content of a message from the socket to a file: the line reader of  *)
(* smf_internal.c, the loop of smf_smtpd_process_data with dot unstuffing  *)
(* and its search for headers, the headers that are added, the flush of    *)
(* edited headers, and the delivery to a file.                             *)
(*                                                                         *)
(* A message is a sequence of lines, a line one of tokens: a header name   *)
(* with its colon, another text with or without a colon, or a dot.  The    *)
(* client writes them with dots stuffed and ends them with a line of one   *)
(* dot.  What goes wrong with the files is in SmtpSession.                 *)
(***************************************************************************)
EXTENDS Integers, Sequences, SequencesExt

CONSTANTS
  NULL,
  Tokens,     \* the tokens of lines: names of headers with their colon, other texts, a dot
  Messages,   \* the messages to consider, sequences of lines
  Newlines,   \* how the client ends its lines: sequences of "CR" and "LF"
  Required,   \* sequence of the headers that are added if they are missing
  Colons,     \* tokens with a colon, Required among them
  Text,       \* the token for the text of an added header
  MaxLine,    \* MAXLINE
  BufSize     \* the size of the read buffer, as large as MAXLINE in the code

ASSUME DataAssumption ==
  /\ MaxLine \in Nat /\ MaxLine > 2 /\ BufSize \in Nat \ {0}
  /\ Newlines \subseteq {<<"CR", "LF">>, <<"LF">>}
  /\ NULL \notin {<<"CR", "LF">>, <<"LF">>, <<"CR">>}

\* Lines have no ends within, and no header is missing twice.
ASSUME TokensAssumption ==
  /\ Messages \subseteq Seq(Seq(Tokens)) /\ Tokens \cap {"CR", "LF"} = {}
  /\ Colons \subseteq Tokens /\ Text \in Tokens
  /\ Required \in Seq(Colons \ {"X-Module:"})
  /\ \A i, j \in DOMAIN Required : Required[i] = Required[j] => i = j

VARIABLES
  message, newline,  \* what the client sends
  taken,         \* how much of it read() has returned
  buffered,      \* rl->count: how much of that is still in the buffer
  peer,          \* "there", or what read() returns: "eof" or "error"
  buf,           \* the line that is being read
  found,         \* found_mid, found_to, found_from and found_date
  in_header, found_header, nl,
  spool,         \* the spool file
  out,           \* the file it is delivered to
  pc

reader == <<message, newline, taken, buffered, peer>>
flags  == <<found, in_header, found_header, nl>>
vars   == <<reader, buf, flags, spool, out, pc>>

\* What the client sends.
Stuffed(l) == IF l # <<>> /\ l[1] = "." THEN <<".">> \o l ELSE l
Written(lines, end) == FlattenSeq([i \in DOMAIN lines |-> lines[i] \o end])
Stream == Written([i \in DOMAIN message |-> Stuffed(message[i])], newline) \o <<".">> \o newline

Init ==
  /\ message \in Messages /\ newline \in Newlines
  /\ taken = 0 /\ buffered = 0 /\ peer = "there" /\ buf = <<>>
  /\ found = {} /\ in_header = TRUE /\ found_header = FALSE /\ nl = NULL
  /\ spool = <<>> /\ out = NULL /\ pc = "line"

(***************************************************************************)
(* smf_internal_readcbuf and smf_internal_readline.                        *)
(***************************************************************************)

\* read() returns some of what there is.
Fill ==
  /\ pc = "line" /\ buffered = 0 /\ peer = "there"
  /\ \E k \in 1..BufSize :
       /\ taken + k <= Len(Stream)
       /\ buffered' = k /\ taken' = taken + k
  /\ UNCHANGED <<message, newline, peer, buf, flags, spool, out, pc>>

\* Mutant: there is no place for the final 0.
FullLate == Len(buf) = MaxLine

Full     == Len(buf) = MaxLine - 1
LineRead == Full \/ (buf # <<>> /\ Last(buf) = "LF")

NextChar ==
  /\ pc = "line" /\ buffered > 0 /\ ~LineRead
  /\ buf' = Append(buf, Stream[taken - buffered + 1]) /\ buffered' = buffered - 1
  /\ UNCHANGED <<message, newline, taken, peer, flags, spool, out, pc>>

\* The client leaves, or the connection breaks.
PeerGone ==
  /\ pc = "line" /\ buffered = 0 /\ peer = "there"
  /\ peer' \in {"eof", "error"}
  /\ UNCHANGED <<message, newline, taken, buffered, buf, flags, spool, out, pc>>

\* At the end of input a line ends where it is, with its last character once more.
EofInLine ==
  /\ pc = "line" /\ buffered = 0 /\ peer = "eof" /\ buf # <<>> /\ ~LineRead
  /\ buf' = Append(buf, Last(buf)) /\ pc' = "take"
  /\ UNCHANGED <<reader, flags, spool, out>>

\* smf_internal_readline returns 0 or -1, and what was read of a line is lost.
EndOfInput ==
  /\ pc = "line" /\ buffered = 0 /\ ~LineRead
  /\ peer = "error" \/ (peer = "eof" /\ buf = <<>>)
  /\ buf' = <<>> /\ pc' = "headers"
  /\ UNCHANGED <<reader, flags, spool, out>>

(***************************************************************************)
(* smf_smtpd_process_data.                                                 *)
(***************************************************************************)
Starts(s, t) == Len(s) >= Len(t) /\ SubSeq(s, 1, Len(t)) = t
Has(s, t)    == \E i \in 1..Len(s) - Len(t) + 1 : SubSeq(s, i, i + Len(t) - 1) = t

\* A line, or a piece of MAXLINE - 1 characters of a longer one.
HaveLine == (pc = "line" /\ LineRead) \/ pc = "take"
IsEnd    == Starts(buf, <<".", "CR", "LF">>) \/ Starts(buf, <<".", "LF">>)

EndOfData ==
  /\ HaveLine /\ IsEnd
  /\ buf' = <<>> /\ pc' = "headers"
  /\ UNCHANGED <<reader, flags, spool, out>>

\* Mutant: all dots are taken away.
UnstuffedAll(b) == IF Starts(b, <<".">>) THEN SelectSeq(b, LAMBDA c : c # ".") ELSE b

\* smf_smtpd_stuffing.
Unstuffed(b) == IF Starts(b, <<".">>) THEN Tail(b) ELSE b

\* smf_internal_determine_linebreak.
Linebreak(b) ==
  IF Has(b, <<"CR", "LF">>) THEN <<"CR", "LF">>
  ELSE IF Has(b, <<"LF">>) THEN <<"LF">>
  ELSE IF Has(b, <<"CR">>) THEN <<"CR">> ELSE NULL

\* Mutant: headers are also found in the body.
FoundAnywhere(b) == {h \in ToSet(Required) : Starts(b, <<h>>)}

FoundIn(b) == IF in_header THEN {h \in ToSet(Required) : Starts(b, <<h>>)} ELSE {}

\* found_header is set by any line with a colon, also in the body.
TakeLine ==
  /\ HaveLine /\ ~IsEnd
  /\ LET b == Unstuffed(buf) IN
       /\ found' = found \cup FoundIn(b)
       /\ nl' = IF nl = NULL THEN Linebreak(b) ELSE nl
       /\ in_header' = (in_header /\ ~Starts(b, <<"LF">>) /\ ~Starts(b, <<"CR">>))
       /\ found_header' = (found_header \/ ToSet(b) \cap Colons # {})
       /\ spool' = spool \o b
  /\ buf' = <<>> /\ pc' = "line"
  /\ UNCHANGED <<reader, out>>

\* One test and one line after the other.
Added(end) ==
  FlattenSeq([i \in DOMAIN Required |->
                IF Required[i] \in found THEN <<>> ELSE <<Required[i], Text>> \o end])

\* smf_smtpd_append_missing_headers.  Without any line nl is NULL, which is printed as "(null)".
AppendHeaders ==
  /\ pc = "headers" /\ pc' = "queue"
  /\ LET end == IF nl = NULL THEN <<"(null)">> ELSE nl IN
       spool' = IF ToSet(Required) \subseteq found THEN spool
                ELSE Added(end) \o (IF found_header THEN <<>> ELSE end) \o spool
  /\ UNCHANGED <<reader, buf, flags, out>>

(***************************************************************************)
(* smf_modules_flush_dirty and the delivery to a file.                     *)
(***************************************************************************)

\* Where an empty line starts.
BlankLines(f) ==
  {i \in DOMAIN f : /\ i = 1 \/ f[i - 1] = "LF"
                    /\ \/ f[i] = "LF"
                       \/ f[i] = "CR" /\ i < Len(f) /\ f[i + 1] = "LF"}
FirstBlank(f)  == CHOOSE i \in BlankLines(f) : \A j \in BlankLines(f) : i <= j
HeaderPart(f)  == IF BlankLines(f) = {} THEN f ELSE SubSeq(f, 1, FirstBlank(f) - 1)

\* smf_message_write_skip_header: what follows the first empty line.
SkipHeader(f) ==
  IF BlankLines(f) = {} THEN <<>>
  ELSE LET i == FirstBlank(f) IN SubSeq(f, i + (IF f[i] = "LF" THEN 1 ELSE 2), Len(f))

\* A module has added a header: libcmime writes the headers and an empty line, and the body
\* of the old file follows.
FlushDirty ==
  /\ pc = "queue" /\ pc' = "deliver"
  /\ \E end \in Newlines :
       spool' = HeaderPart(spool) \o <<"X-Module:", Text>> \o end \o end \o SkipHeader(spool)
  /\ UNCHANGED <<reader, buf, flags, out>>
NotDirty ==
  /\ pc = "queue" /\ pc' = "deliver"
  /\ UNCHANGED <<reader, buf, flags, spool, out>>

\* file_delivery_nexthop: opened with "w", the file has one message only.
DeliverToFile ==
  /\ pc = "deliver" /\ pc' = "done"
  /\ out' = spool
  /\ UNCHANGED <<reader, buf, flags, spool>>

Next ==
  \/ Fill \/ NextChar \/ PeerGone \/ EofInLine \/ EndOfInput \/ EndOfData \/ TakeLine
  \/ AppendHeaders \/ FlushDirty \/ NotDirty \/ DeliverToFile

Spec == Init /\ [][Next]_vars

(***************************************************************************)
(* Properties.                                                             *)
(***************************************************************************)
TypeOK ==
  /\ taken \in 0..Len(Stream) /\ buffered \in 0..BufSize /\ buffered <= taken
  /\ peer \in {"there", "eof", "error"}
  /\ Len(buf) < MaxLine
  /\ found \subseteq ToSet(Required) /\ in_header \in BOOLEAN /\ found_header \in BOOLEAN
  /\ nl \in {NULL, <<"CR">>} \cup {<<"CR", "LF">>, <<"LF">>}
  /\ pc \in {"line", "take", "headers", "queue", "deliver", "done"}

\* A message as RFC 5322 has it: headers, of which others than the first may go on in a further
\* line, then nothing or an empty line and the body.
Blanks       == {i \in DOMAIN message : message[i] = <<>>}
HeaderLines  == IF Blanks = {} THEN message
                ELSE SubSeq(message, 1, (CHOOSE i \in Blanks : \A j \in Blanks : i <= j) - 1)
BodyLines    == SubSeq(message, Len(HeaderLines) + 2, Len(message))
WellFormed   ==
  /\ HeaderLines # <<>> /\ HeaderLines[1][1] \in Colons
  /\ \A i \in DOMAIN HeaderLines : HeaderLines[i][1] # "."

\* Every line, with the dot that stuffs it and its end, is read in one piece.
Fits == \A i \in DOMAIN message : Len(Stuffed(message[i]) \o newline) < MaxLine

Received == pc = "done" /\ peer = "there" /\ WellFormed /\ Fits

\* The body that the nexthop gets is the one the client sent, byte for byte: however it is cut
\* into pieces by read(), whichever lines start with dots, and whatever headers are added or
\* edited.  Lines of MAXLINE - 1 characters and more are not promised that.
BodyKept == Received => SkipHeader(out) = Written(BodyLines, newline)

\* The lines of a part of a file, each known by where it starts.
LineStarts(f) == {i \in DOMAIN f : i = 1 \/ f[i - 1] = "LF"}
Count(f, h)   == Cardinality({i \in LineStarts(f) : f[i] = h})

\* Each required header is there once if the client sent none, and else as often as it was sent;
\* a line of the body that looks like one does not count.  And no header line gets lost.
HeadersOnce ==
  Received =>
    LET sent == Written(HeaderLines, newline)
        got  == HeaderPart(out)
    IN /\ \A i \in DOMAIN Required :
            Count(got, Required[i]) = (IF Count(sent, Required[i]) = 0 THEN 1 ELSE Count(sent, Required[i]))
       /\ Has(got, sent)
=============================================================================
