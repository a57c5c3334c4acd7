----------------------------- MODULE SmtpSession -----------------------------
(***************************************************************************)
(* One client's session with the smtpd engine: smf_smtpd_handle_client and *)
(* smf_smtpd_process_data, with the queue they call (ModuleQueue).         *)
(*                                                                         *)
(* Commands that change nothing but the alarm (NOOP, unknown ones, and     *)
(* those refused with 501 or 503) are left out.  The alarm is set again by *)
(* every command and never switched off, so SIGALRM may come at any time,  *)
(* and like SIGTERM it ends the process where it stands.                   *)
(***************************************************************************)
EXTENDS ModuleQueue

CONSTANTS
  Rcpts,        \* recipients a client may name
  Sizes,        \* sizes a message may have
  MaxSize,      \* max_size, 0 for no limit
  EmptyHelo,    \* does the client send HELO without a name
  MaxData       \* bound: DATA commands of a session

ASSUME SessionAssumption ==
  Sizes \subseteq Nat /\ MaxSize \in Nat /\ EmptyHelo \in BOOLEAN /\ MaxData \in Nat

VARIABLES
  spc,           \* where the process is
  state,         \* the state of the SMTP dialogue
  recipients,    \* recipients of the envelope
  message_size,  \* of the session
  open,          \* may the client still send something
  junk,          \* has a file been left behind that nothing will remove
  own,           \* history: recipients accepted since the last accepted MAIL
  complete,      \* history: did the message end with its end-of-data line
  datas          \* what MaxData counts

sessionVars == <<spc, state, recipients, message_size, open, junk, own, complete, datas>>
vars == <<queueVars, sessionVars>>

States     == {"INIT", "HELO", "XFWD", "MAIL", "RCPT", "DATA"}
SessionPcs == {"cmd", "reading", "headers", "size", "parse", "queue", "remove", "gone"}

Init ==
  /\ QueueInit
  /\ spc = "cmd" /\ state = "INIT"
  /\ recipients = {} /\ message_size = 0
  /\ open = TRUE /\ junk = FALSE
  /\ own = {} /\ complete = FALSE /\ datas = 0

(***************************************************************************)
(* Commands.                                                               *)
(***************************************************************************)

Command == spc = "cmd" /\ open

\* smf_session_free and smf_session_new.
NewSession == recipients' = {} /\ message_size' = 0 /\ own' = {}

\* The session is new unless this is the first command.  Without a name the answer is 501.
Helo ==
  /\ Command
  /\ IF state # "INIT" THEN NewSession ELSE UNCHANGED <<recipients, message_size, own>>
  /\ \/ state' = "HELO"
     \/ EmptyHelo /\ UNCHANGED state
  /\ UNCHANGED <<queueVars, spc, open, junk, complete, datas>>

\* XFORWARD ADDR= is taken in every state.
Xforward ==
  /\ Command
  /\ state' = "XFWD"
  /\ UNCHANGED <<queueVars, spc, recipients, message_size, open, junk, own, complete, datas>>

\* A MAIL that is not the second in a row.
MailFrom ==
  /\ Command /\ state # "MAIL"
  /\ state' = "MAIL" /\ own' = {}
  /\ UNCHANGED <<queueVars, spc, recipients, message_size, open, junk, complete, datas>>

RcptTo(r) ==
  /\ Command /\ state \in {"MAIL", "RCPT"}
  /\ state' = "RCPT"
  /\ recipients' = recipients \cup {r} /\ own' = own \cup {r}
  /\ UNCHANGED <<queueVars, spc, message_size, open, junk, complete, datas>>

Rset ==
  /\ Command
  /\ NewSession /\ state' = "INIT"
  /\ UNCHANGED <<queueVars, spc, open, junk, complete, datas>>

\* QUIT, or the client is gone.
Leave ==
  /\ spc = "cmd"
  /\ spc' = "gone"
  /\ UNCHANGED <<queueVars, state, recipients, message_size, open, junk, own, complete, datas>>

(***************************************************************************)
(* smf_smtpd_process_data.                                                 *)
(***************************************************************************)

\* The spool file is made and 354 sent; if that fails the client is told so.
Data ==
  /\ Command /\ state = "RCPT" /\ datas < MaxData
  /\ state' = "DATA" /\ datas' = datas + 1
  /\ delivered' = NoFile /\ edited' = {} /\ rewrote' = {} /\ unsure' = FALSE
  /\ qpc' = "idle" /\ mod_count' = 0 /\ qret' = 0 /\ mem' = {} /\ stale' = FALSE
  /\ \/ /\ spc' = "reading" /\ answers' = <<>>
        /\ spool' = [NoFile EXCEPT !.there = TRUE]
        /\ UNCHANGED <<junk, faults>>
     \/ /\ Fault /\ answers' = <<"fail">>
        /\ junk' \in {junk, TRUE} /\ UNCHANGED <<spc, spool>>
  /\ complete' = FALSE
  /\ UNCHANGED <<settings, temp, recipients, message_size, open, own>>

\* The read loop: it ends with the end-of-data line, or with end of input or an error.
Read(n, ended) ==
  /\ spc = "reading"
  /\ spc' = "headers"
  /\ message_size' = message_size + n
  /\ complete' = ended /\ open' = ended
  /\ UNCHANGED <<queueVars, state, recipients, junk, own, datas>>

\* smf_smtpd_append_missing_headers copies the spool file behind new headers; nobody looks at
\* its result, even if it has removed the old file and not renamed the new one.
AppendHeaders ==
  /\ spc = "headers"
  /\ spc' = "size"
  /\ \/ UNCHANGED <<spool, junk, faults>>
     \/ Fault /\ junk' \in {junk, TRUE} /\ UNCHANGED spool
     \/ Fault /\ junk' = TRUE /\ spool' = NoFile
  /\ UNCHANGED <<settings, qpc, mod_count, qret, mem, stale, temp, delivered, answers, history>>
  /\ UNCHANGED <<state, recipients, message_size, open, own, complete, datas>>

CheckSize ==
  /\ spc = "size"
  /\ IF MaxSize # 0 /\ message_size > MaxSize
       THEN spc' = "remove" /\ answers' = Append(answers, "fail")
       ELSE spc' = "parse" /\ UNCHANGED answers
  /\ UNCHANGED <<settings, qpc, mod_count, qret, mem, stale, spool, temp, delivered, history, faults>>
  /\ UNCHANGED <<state, recipients, message_size, open, junk, own, complete, datas>>

\* smf_message_from_file, and the call of the queue.  A spool file that cannot be parsed is
\* left where it is.
Parse ==
  /\ spc = "parse"
  /\ \/ /\ spool.there
        /\ spc' = "queue" /\ Start
        /\ UNCHANGED <<spool, answers, junk, faults>>
     \/ /\ IF spool.there THEN Fault ELSE UNCHANGED faults
        /\ spc' = "cmd" /\ answers' = Append(answers, "fail")
        /\ junk' = (junk \/ spool.there) /\ spool' = NoFile
        /\ UNCHANGED <<settings, qpc, mod_count, qret, mem, stale>>
  /\ UNCHANGED <<settings, temp, delivered, history>>
  /\ UNCHANGED <<state, recipients, message_size, open, own, complete, datas>>

Queue ==
  /\ spc = "queue" /\ QueueStep
  /\ UNCHANGED sessionVars

\* Mutants: an early return for -1, and an answer for 0 only if there was no -1.
ProcessModulesEarly ==
  /\ spc = "queue" /\ qpc = "returned"
  /\ spc' = IF qret = -1 THEN "cmd" ELSE "remove"
  /\ answers' = IF qret = 0 THEN Append(answers, "ok") ELSE answers
  /\ UNCHANGED <<settings, qpc, mod_count, qret, mem, stale, spool, temp, delivered, history, faults>>
  /\ UNCHANGED <<state, recipients, message_size, open, junk, own, complete, datas>>
ProcessModulesSilent ==
  /\ spc = "queue" /\ qpc = "returned"
  /\ spc' = "remove"
  /\ answers' = IF qret = 0 /\ delivered.there THEN Append(answers, "ok") ELSE answers
  /\ UNCHANGED <<settings, qpc, mod_count, qret, mem, stale, spool, temp, delivered, history, faults>>
  /\ UNCHANGED <<state, recipients, message_size, open, junk, own, complete, datas>>

\* smf_smtpd_process_modules after the queue: 250 unless it failed or was stopped.
ProcessModules ==
  /\ spc = "queue" /\ qpc = "returned"
  /\ spc' = "remove"
  /\ answers' = IF qret = 0 THEN Append(answers, "ok") ELSE answers
  /\ UNCHANGED <<settings, qpc, mod_count, qret, mem, stale, spool, temp, delivered, history, faults>>
  /\ UNCHANGED <<state, recipients, message_size, open, junk, own, complete, datas>>

\* The spool file is removed; a temporary file of a failed flush stays.
Remove ==
  /\ spc = "remove"
  /\ spc' = "cmd" /\ qpc' = "idle"
  /\ spool' = NoFile /\ temp' = NoFile /\ junk' = (junk \/ temp.there)
  /\ UNCHANGED <<settings, mod_count, qret, mem, stale, delivered, answers, history, faults>>
  /\ UNCHANGED <<state, recipients, message_size, open, own, complete, datas>>

(***************************************************************************)
(* The end of the process.                                                 *)
(***************************************************************************)

Exit ==
  /\ spc # "gone" /\ spc' = "gone"
  /\ junk' = (junk \/ spool.there \/ temp.there)
  /\ UNCHANGED <<settings, qpc, mod_count, qret, mem, stale, spool, temp, delivered, history, faults>>
  /\ UNCHANGED <<state, recipients, message_size, open, own, complete, datas>>

\* smf_smtpd_sig_handler.
Alarm     == Exit /\ answers' = Append(answers, "421")
Terminate == Exit /\ UNCHANGED answers

Crash == spc = "queue" /\ qpc = "crashed" /\ Exit /\ UNCHANGED answers

\* What the process does on its own, and what waits for the client, a module or the nexthop.
LocalStep ==
  \/ AppendHeaders \/ CheckSize \/ Parse \/ ProcessModules \/ Remove \/ Crash
  \/ qpc \notin {"invoke", "nexthop"} /\ Queue
SlowStep ==
  \/ \E n \in Sizes, ended \in BOOLEAN : Read(n, ended)
  \/ qpc \in {"invoke", "nexthop"} /\ Queue

ClientCommand ==
  \/ Helo \/ Xforward \/ MailFrom \/ Rset \/ Data
  \/ \E r \in Rcpts : RcptTo(r)

Next == LocalStep \/ SlowStep \/ ClientCommand \/ Leave \/ Alarm \/ Terminate

Spec == Init /\ [][Next]_vars

\* The process runs.  Inside DATA the client, a module or the nexthop may never answer, but then
\* the alarm comes; nothing is assumed of a session that waits for a command.
Waiting  == spc = "reading" \/ (spc = "queue" /\ qpc \in {"invoke", "nexthop"})
Fairness == WF_vars(LocalStep) /\ WF_vars(SlowStep \/ (Waiting /\ Alarm))

FairSpec == Spec /\ Fairness

(***************************************************************************)
(* Properties.                                                             *)
(***************************************************************************)

TypeOK ==
  /\ QueueTypeOK
  /\ spc \in SessionPcs /\ state \in States
  /\ recipients \subseteq Rcpts /\ own \subseteq Rcpts /\ message_size \in Nat
  /\ open \in BOOLEAN /\ junk \in BOOLEAN /\ complete \in BOOLEAN /\ datas \in 0..MaxData

Claimed == qret = 1 /\ answers # <<>> /\ answers[1] = "ok"

Handover == INSTANCE MessageHandover WITH
  final <- ~settings.nexthop,
  held <- spc \notin {"cmd", "gone"},
  duty <- IF delivered.there THEN "nexthop" ELSE IF Claimed THEN "module" ELSE "filter"

\* Sessions keep the promise of MessageHandover: in smf_modules_process and its callbacks no
\* message is acknowledged before somebody took it, refused after, or answered twice.
ImplementsHandover == Handover!Spec

\* "the header will be flushed to disk before the final delivery" (plugin.dox): the nexthop
\* gets every change of the spool file's body and, unless a module wrote to the spool file,
\* every edited header, X-Spmfilter included.
EditsDelivered ==
  delivered.there =>
    /\ delivered.body = rewrote
    /\ rewrote = {} =>
         delivered.headers = edited \cup (IF settings.add_header THEN {Tag} ELSE {})

\* Back in the command loop no file of an earlier message is left, in whatever way
\* smf_smtpd_process_data ended, unless a file operation failed.
SpoolClean ==
  spc = "cmd" /\ faults = 0 => ~junk /\ ~spool.there /\ ~temp.there

\* A message that was read is answered, or the session ends: the client never waits for an
\* answer while smf_smtpd_handle_client waits for a command.  (Not so with module_fail = 1, and
\* not if smf_modules_flush_dirty fails.)
DataAnswered ==
  spc = "headers" ~> (answers # <<>> \/ spc = "gone" \/ faults > 0 \/ settings.module_fail = 1)

\* "a mail transaction consists of a transaction beginning command, one or more RCPT commands,
\* and a DATA command" (smf_smtpd.c): a message goes to the recipients of its transaction.
OwnRecipients == qpc = "nexthop" => recipients = own /\ own # {}

\* "354 End data with <CR><LF>.<CR><LF>" (smf_smtpd.c): what the nexthop gets has ended so.
WholeMessages == delivered.there => complete
=============================================================================
