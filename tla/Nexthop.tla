------------------------------ MODULE Nexthop ------------------------------
(***************************************************************************)
(* Handing a message over: smf_nexthop.c and smf_smtp_deliver of           *)
(* smf_smtp.c.  ModuleQueue knows this as its step Deliver.                *)
(*                                                                         *)
(* The envelope is that of a session and goes from one of its messages to  *)
(* the next.  Modules may name a nexthop in it, or change the setting.     *)
(* libesmtp is external: it reaches the nexthop or not, and reports what   *)
(* the nexthop said of each recipient and of the message.  A file to copy  *)
(* is a number of blocks; `even' says that the last one is full, so that   *)
(* the end of the file is met by a further read.                           *)
(***************************************************************************)
EXTENDS Integers, FiniteSets

CONSTANTS
  NULL,
  Rcpts,        \* addresses
  Hosts,        \* texts that name a destination for SMTP
  Path,         \* a text that names a file, if it exists
  MaxBlocks,    \* bound: blocks of a message
  MaxMessages   \* bound: messages of a session

ASSUME NexthopAssumption ==
  /\ NULL \notin Hosts \cup Rcpts /\ Path \notin Hosts /\ Path # NULL
  /\ MaxBlocks \in Nat /\ MaxMessages \in Nat

VARIABLES
  nexthop,     \* settings->nexthop
  exists,      \* is there a file of that name
  debug,       \* settings->debug, off by default: does the log keep what is of that level
  env,         \* envelope: sender, recipients, nexthop, and is there a user to authenticate
  source,      \* "file" or "memory": where the message is; and the recipients it names
  messages,    \* messages so far
  held,        \* what the delivery has opened or allocated
  left,        \* what earlier deliveries have left behind
  added,       \* recipients libesmtp knows of
  logged,      \* recipients the log speaks of
  taken,       \* recipients for whom the nexthop has the message
  blocks,      \* blocks still to copy
  even, short, \* see above; was a write cut short
  dest,        \* what is in the file
  code,        \* status->code: "none" (-1), "250" or "other"
  retval,      \* what the delivery returns
  named,       \* history: the nexthop modules named last for this message
  faulty,      \* history: did libesmtp refuse a call of this session
  pc

envelope == <<nexthop, exists, debug, env, source, messages>>
smtp     == <<added, logged, taken, code>>
copying  == <<blocks, even, short, dest>>
history  == <<named, faulty>>
vars     == <<envelope, held, left, smtp, copying, retval, history, pc>>

Init ==
  /\ nexthop \in Hosts \cup {Path, NULL} /\ exists \in BOOLEAN /\ debug \in BOOLEAN
  /\ \E a \in BOOLEAN : env = [sender |-> NULL, rcpts |-> {}, nexthop |-> NULL, auth |-> a]
  /\ source = [at |-> "file", rcpts |-> {}] /\ messages = 0
  /\ held = {} /\ left = {} /\ added = {} /\ logged = {} /\ taken = {} /\ code = "none"
  /\ blocks = 0 /\ even = FALSE /\ short = FALSE /\ dest = "old"
  /\ retval = 0 /\ named = NULL /\ faulty = FALSE /\ pc = "idle"

(***************************************************************************)
(* Before the delivery.                                                    *)
(***************************************************************************)

\* A message of the smtpd engine brings a sender and recipients; one of the pipe engine, or of a
\* program that uses the library, has those in its headers, and perhaps no file.
NewMessage(R, in_headers, at) ==
  /\ pc = "idle" /\ messages < MaxMessages
  /\ messages' = messages + 1 /\ pc' = "modules"
  /\ source' = [at |-> at, rcpts |-> in_headers]
  /\ env' = IF R = {} THEN env ELSE [env EXCEPT !.sender = "client", !.rcpts = @ \cup R]
  /\ blocks' \in 0..MaxBlocks /\ even' \in BOOLEAN /\ short' = FALSE
  /\ named' = NULL
  /\ UNCHANGED <<nexthop, exists, debug, held, left, smtp, dest, retval, faulty>>

\* smf_envelope_set_nexthop and smf_settings_set_nexthop in a module.
NameNexthop(h) ==
  /\ pc = "modules"
  /\ env' = [env EXCEPT !.nexthop = h] /\ named' = h
  /\ UNCHANGED <<nexthop, exists, debug, source, messages, held, left, smtp, copying, retval, faulty, pc>>
SetNexthop(h) ==
  /\ pc = "modules"
  /\ nexthop' = h
  /\ UNCHANGED <<exists, debug, env, source, messages, held, left, smtp, copying, retval, history, pc>>

\* smf_nexthop_find.
Find ==
  /\ pc = "modules"
  /\ pc' = IF nexthop = NULL THEN "returned" ELSE IF nexthop = Path /\ exists THEN "open" ELSE "envelope"
  /\ retval' = 0 /\ code' = "none" /\ added' = {} /\ logged' = {} /\ taken' = {}
  /\ UNCHANGED <<envelope, held, left, copying, history>>

\* The end of a delivery, with what it closes and frees.
Returns(r, closed) ==
  /\ pc' = "returned" /\ retval' = r
  /\ held' = {} /\ left' = left \cup (held \ closed)

\* Back to smf_modules_process.
NextMessage ==
  /\ pc = "returned" /\ pc' = "idle"
  /\ UNCHANGED <<envelope, held, left, smtp, copying, retval, history>>

(***************************************************************************)
(* file_delivery_nexthop.                                                  *)
(***************************************************************************)
FileUnchanged == UNCHANGED <<envelope, smtp, history>>

\* The file is opened with "w".  If the destination cannot be opened the source is closed.
OpenFiles ==
  /\ pc = "open" /\ FileUnchanged
  /\ \/ /\ source.at = "file"
        /\ held' = {"src", "dest"} /\ dest' = "part" /\ pc' = "copy"
        /\ UNCHANGED <<left, blocks, even, short, retval>>
     \/ Returns(-1, held) /\ UNCHANGED copying
     \/ source.at = "memory" /\ Returns(0, held) /\ dest' = "whole" /\ UNCHANGED <<blocks, even, short>>
     \/ source.at = "memory" /\ Returns(-1, held) /\ dest' = "part" /\ UNCHANGED <<blocks, even, short>>

\* One block.  A write that is cut short but not to nothing goes unnoticed for now.
CopyBlock ==
  /\ pc = "copy" /\ blocks > 0 /\ FileUnchanged
  /\ \/ /\ blocks' = blocks - 1 /\ short' \in {short, TRUE}
        /\ UNCHANGED <<held, left, even, dest, retval, pc>>
     \/ Returns(-1, held) /\ UNCHANGED copying

\* Mutant: a write cut short is never noticed.
EndOfFileUnseen ==
  /\ pc = "copy" /\ blocks = 0 /\ FileUnchanged
  /\ Returns(0, held)
  /\ dest' \in (IF short THEN {"part"} ELSE {"whole", "part"}) /\ UNCHANGED <<blocks, even, short>>

\* The read that meets the end of the file: a write of nothing, with the error flag of before.
\* What fclose() says is not looked at.
EndOfFile ==
  /\ pc = "copy" /\ blocks = 0 /\ FileUnchanged
  /\ IF even /\ short THEN Returns(-1, held) /\ UNCHANGED copying
     ELSE /\ Returns(0, held)
          /\ dest' \in (IF short THEN {"part"} ELSE {"whole", "part"})
          /\ UNCHANGED <<blocks, even, short>>

(***************************************************************************)
(* smtp_delivery_nexthop.                                                  *)
(***************************************************************************)

\* Mutant: the setting is preferred to the envelope.
HopOfSetting == nexthop

HopOf == IF env.nexthop = NULL THEN nexthop ELSE env.nexthop

\* What the envelope lacks is filled in, and stays there.
FillEnvelope ==
  /\ pc = "envelope"
  /\ LET sender == IF env.sender = NULL THEN "<>" ELSE env.sender
         rcpts  == IF env.rcpts = {} THEN source.rcpts ELSE env.rcpts IN
       IF rcpts = {}
         THEN Returns(-1, {}) /\ env' = [env EXCEPT !.sender = sender]
         ELSE /\ env' = [env EXCEPT !.sender = sender, !.rcpts = rcpts, !.nexthop = HopOf]
              /\ pc' = "create" /\ UNCHANGED <<held, left, retval>>
  /\ UNCHANGED <<nexthop, exists, debug, source, messages, smtp, copying, history>>

(***************************************************************************)
(* smf_smtp_deliver.  Its early returns free the session of libesmtp or    *)
(* not, close the file, and free neither the text of the message nor the   *)
(* context of the authentication.                                          *)
(***************************************************************************)
SmtpUnchanged == UNCHANGED <<envelope, copying, named>>

CreateSession ==
  /\ pc = "create" /\ pc' = "sender"
  /\ held' = {"session"} \cup (IF env.auth THEN {"auth"} ELSE {})
  /\ SmtpUnchanged /\ UNCHANGED <<left, smtp, retval, faulty>>

SetReversePath ==
  /\ pc = "sender" /\ SmtpUnchanged /\ UNCHANGED smtp
  /\ \/ pc' = "message" /\ UNCHANGED <<held, left, retval, faulty>>
     \/ faulty' = TRUE /\ Returns(-1, {})

\* The file, or the text of the message in memory; or there is neither.
SetMessage ==
  /\ pc = "message" /\ SmtpUnchanged /\ UNCHANGED smtp
  /\ \/ source.at = "file"   /\ pc' = "rcpts" /\ held' = held \cup {"fp"} /\ UNCHANGED <<left, retval, faulty>>
     \/ Returns(-1, {"session"}) /\ UNCHANGED faulty
     \/ source.at = "memory" /\ pc' = "rcpts" /\ held' = held \cup {"text"} /\ UNCHANGED <<left, retval, faulty>>
     \/ /\ source.at = "memory" /\ faulty' = TRUE
        /\ pc' = "returned" /\ retval' = -1 /\ held' = {} /\ left' = left \cup held \cup {"text"}

\* A recipient that libesmtp does not take is logged as an error.
AddRecipients ==
  /\ pc = "rcpts" /\ pc' = "start"
  /\ added' \in SUBSET env.rcpts /\ logged' = env.rcpts \ added'
  /\ SmtpUnchanged /\ UNCHANGED <<held, left, taken, code, retval, faulty>>

\* Mutant: the file stays open.
StartFailsOpen ==
  /\ pc = "start"
  /\ Returns(-1, {"session"})
  /\ SmtpUnchanged /\ UNCHANGED <<smtp, faulty>>

StartFails ==
  /\ pc = "start"
  /\ Returns(-1, {"session", "fp"})
  /\ SmtpUnchanged /\ UNCHANGED <<smtp, faulty>>

\* Mutant: what the nexthop said of the recipients is not asked for.
TransferSilent(T) ==
  /\ pc = "start" /\ env.nexthop \in Hosts
  /\ T \subseteq added /\ taken' = T
  /\ code' \in IF T = {} THEN {"other"} ELSE {"250", "other"}
  /\ Returns(IF code' = "250" THEN 0 ELSE -1, held)
  /\ SmtpUnchanged /\ UNCHANGED <<added, logged, faulty>>

\* The nexthop has taken the message for T, or for nobody.  If it is for somebody it says 250,
\* but that may get lost, or be another code, which stands for a failure.  What it said of each
\* recipient is for debugging: smf_trace.c drops that level otherwise.
Transfer(T) ==
  /\ pc = "start" /\ env.nexthop \in Hosts
  /\ T \subseteq added /\ taken' = T
  /\ code' \in IF T = {} THEN {"other"} ELSE {"250", "other"}
  /\ logged' = IF debug THEN logged \cup added ELSE logged
  /\ Returns(IF code' = "250" THEN 0 ELSE -1, held)
  /\ SmtpUnchanged /\ UNCHANGED <<added, faulty>>

Next ==
  \/ \E R, H \in SUBSET Rcpts, at \in {"file", "memory"} : NewMessage(R, H, at)
  \/ \E h \in Hosts : NameNexthop(h) \/ SetNexthop(h)
  \/ Find \/ NextMessage
  \/ OpenFiles \/ CopyBlock \/ EndOfFile
  \/ FillEnvelope \/ CreateSession \/ SetReversePath \/ SetMessage \/ AddRecipients \/ StartFails
  \/ \E T \in SUBSET Rcpts : Transfer(T)

Spec == Init /\ [][Next]_vars

(***************************************************************************)
(* Properties.                                                             *)
(***************************************************************************)

BySmtp == nexthop # NULL /\ ~(nexthop = Path /\ exists)

\* 0 means that the nexthop has the message.  Over SMTP: for somebody, and whom libesmtp itself
\* refused is in the log.  With debug on, the log has everybody; without, nothing tells of a
\* recipient whom the nexthop refused while it took another (smf_smtp.c:83-93).  In a file: no
\* write was cut short, if the last block is full.  Otherwise one that was not cut to nothing goes
\* unnoticed, and what fclose() says always does (smf_nexthop.c:101-117).
Told ==
  (pc = "returned" /\ retval = 0 /\ nexthop # NULL) =>
    /\ BySmtp => taken # {} /\ env.rcpts \subseteq logged \cup (IF debug THEN taken ELSE added)
    /\ (~BySmtp /\ even) => ~short

\* A message is sent to the nexthop that modules named last for it, whatever the setting and
\* earlier messages of the session say; and the first message, if they named none, to the one that
\* is configured by then (smf_nexthop.c:58-59).
HopNamed ==
  pc \in {"create", "sender", "message", "rcpts", "start"} =>
    /\ named # NULL => env.nexthop = named
    /\ named = NULL /\ messages = 1 => env.nexthop = nexthop

\* No failure of a delivery leaves a file open, and the session of libesmtp is only left if
\* libesmtp itself refused a call; the context of the authentication and the text of the message
\* may stay.
NothingOpen ==
  /\ left \cap {"src", "dest", "fp"} = {}
  /\ "session" \in left => faulty
  /\ pc \in {"idle", "modules", "returned"} => held = {}
=============================================================================
