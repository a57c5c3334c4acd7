----------------------------- MODULE ModuleQueue -----------------------------
(***************************************************************************)
(* The processing queue of smf_modules.c, smf_nexthop.c, and the callbacks *)
(* of the two engines; with them smtpd answers its client from inside the  *)
(* queue.                                                                  *)
(*                                                                         *)
(* A message lives twice: as spool file and as the parsed message of the   *)
(* session, whose headers modules edit.  smf_module_invoke reads the spool *)
(* file again when a module changed it, smf_modules_flush_dirty writes     *)
(* edited headers back to it before it goes to the nexthop.                *)
(*                                                                         *)
(* The content of a file or of the message in memory is the set of marks   *)
(* the modules left in its headers and in its body; module m leaves mark   *)
(* m, and Tag is the X-Spmfilter header.  The message arrives with no mark.*)
(***************************************************************************)
EXTENDS Integers, Sequences, FiniteSets

CONSTANTS
  MaxModules,   \* the longest module list
  Settings,     \* the configurations to consider
  MaxFaults     \* bound: how many file operations and parses may fail

\* modules is the length of the configured list; module_fail is 1 to proceed, 2 for a permanent
\* and 3 for a temporary error; nexthop tells whether one is configured.
SettingsType ==
  [engine : {"smtpd", "pipe"}, modules : 0..MaxModules, add_header : BOOLEAN, module_fail : 1..3, nexthop : BOOLEAN]

ASSUME QueueAssumption ==
  MaxModules \in Nat /\ Settings \subseteq SettingsType /\ MaxFaults \in Nat

Modules == 1..MaxModules
Tag     == 0
Marks   == Modules \cup {Tag}

File   == [there : BOOLEAN, headers : SUBSET Marks, body : SUBSET Modules]
NoFile == [there |-> FALSE, headers |-> {}, body |-> {}]

VARIABLES
  settings,   \* the configuration, read once
  qpc,        \* where smf_modules_process is
  mod_count,  \* modules that have finished
  qret,       \* what smf_modules_process returns
  mem,        \* marks in the headers of the message in memory
  stale,      \* does the local pointer msg point to a freed message
  spool,      \* the spool file
  temp,       \* the temporary file of smf_modules_flush_dirty
  delivered,  \* what the nexthop has accepted of this message
  answers,    \* the answers to DATA the client has got for this message
  edited,     \* history: modules that edited headers of the message in memory
  rewrote,    \* history: modules that changed the spool file
  unsure,     \* history: did the nexthop accept and its answer get lost
  faults      \* what MaxFaults counts

history   == <<edited, rewrote, unsure>>
queueVars == <<settings, qpc, mod_count, qret, mem, stale, spool, temp, delivered,
               answers, history, faults>>

QueuePcs == {"idle", "invoke", "tag", "flush", "unlink", "rename", "nexthop",
             "returned", "crashed"}
Answers  == {"ok", "fail", "421"}

\* What a module may return: go on, error, stop, stop and deliver, an SMTP code.
Code    == 450
Results == {0, -1, 1, 2, Code}

\* The part of its caller's state that a new message starts with.
QueueInit ==
  /\ settings \in Settings
  /\ qpc = "idle" /\ mod_count = 0 /\ qret = 0
  /\ mem = {} /\ stale = FALSE
  /\ spool = NoFile /\ temp = NoFile /\ delivered = NoFile
  /\ answers = <<>>
  /\ edited = {} /\ rewrote = {} /\ unsure = FALSE
  /\ faults = 0

Fault == faults < MaxFaults /\ faults' = faults + 1

(***************************************************************************)
(* The callbacks of smf_smtpd.c and smf_pipe.c.                            *)
(***************************************************************************)

\* The client of the smtpd engine is told; the pipe engine has its exit status only.
Reply(a) == IF settings.engine = "smtpd" THEN <<a>> ELSE <<>>

\* Mutant: a stopped queue goes on to the nexthop.
ProcessingErrorDelivers(r) == IF r = -1 THEN (IF settings.module_fail = 1 THEN 1 ELSE 0) ELSE 2

\* smf_smtpd_handle_q_processing_error and smf_pipe_handle_q_processing_error: what they return
\* for a module's result, ...
ProcessingError(r) ==
  CASE r = -1 -> IF settings.module_fail = 1 THEN 1 ELSE 0
    [] r = 2  -> 2
    [] OTHER  -> 1

\* ... and what the former tells the client before.
ProcessingAnswer(r) ==
  CASE r = -1 -> IF settings.module_fail = 1 THEN <<>> ELSE Reply("fail")
    [] r = 1  -> Reply("ok")
    [] r = 2  -> <<>>
    [] OTHER  -> Reply("fail")

(***************************************************************************)
(* smf_modules_process.                                                    *)
(***************************************************************************)

\* The loop over the modules begins; without any it is over at once.
Start == /\ qpc' = IF settings.modules = 0 THEN "tag" ELSE "invoke"
         /\ mod_count' = 0 /\ qret' = 0 /\ mem' = {} /\ stale' = FALSE

\* Mutant: one round too many.
ProceedPastEnd(m, r) ==
  IF r = 0
    THEN /\ mod_count' = m
         /\ qpc' = IF m > settings.modules THEN "tag" ELSE "invoke"
         /\ UNCHANGED <<qret, answers>>
    ELSE /\ answers' = answers \o ProcessingAnswer(r)
         /\ CASE ProcessingError(r) = 0 -> qpc' = "returned" /\ qret' = -1
              [] ProcessingError(r) = 1 -> qpc' = "returned" /\ qret' = 1
              [] OTHER -> qpc' = "tag" /\ UNCHANGED qret
         /\ UNCHANGED mod_count

\* smf_modules_process goes on with result r of module m: the next module, the end of the
\* loop (a return of 2 breaks it), or the return to the engine.
Proceed(m, r) ==
  IF r = 0
    THEN /\ mod_count' = m
         /\ qpc' = IF m = settings.modules THEN "tag" ELSE "invoke"
         /\ UNCHANGED <<qret, answers>>
    ELSE /\ answers' = answers \o ProcessingAnswer(r)
         /\ CASE ProcessingError(r) = 0 -> qpc' = "returned" /\ qret' = -1
              [] ProcessingError(r) = 1 -> qpc' = "returned" /\ qret' = 1
              [] OTHER -> qpc' = "tag" /\ UNCHANGED qret
         /\ UNCHANGED mod_count

\* A module that leaves the spool file alone, and edits headers of the message or not.
Invoke(r, edits) ==
  /\ qpc = "invoke"
  /\ LET m == mod_count + 1 IN
       /\ mem' = IF edits THEN mem \cup {m} ELSE mem
       /\ edited' = IF edits THEN edited \cup {m} ELSE edited
       /\ Proceed(m, r)
  /\ UNCHANGED <<settings, stale, spool, temp, delivered, rewrote, unsure, faults>>

\* A module that changes headers and body of the spool file.  If it returns 0 and the
\* modification time, in seconds, has grown, smf_module_invoke reads the file again and frees
\* the message in memory, edits included; if that fails, so does the module.
InvokeRewrite(r, seen) ==
  /\ qpc = "invoke"
  /\ LET m == mod_count + 1 IN
       /\ spool' = [spool EXCEPT !.headers = @ \cup {m}, !.body = @ \cup {m}]
       /\ rewrote' = rewrote \cup {m}
       /\ IF r = 0 /\ seen
            THEN \/ mem' = spool'.headers /\ stale' = TRUE /\ Proceed(m, 0) /\ UNCHANGED faults
                 \/ Fault /\ Proceed(m, -1) /\ UNCHANGED <<mem, stale>>
            ELSE Proceed(m, r) /\ UNCHANGED <<mem, stale, faults>>
  /\ UNCHANGED <<settings, temp, delivered, edited, unsure>>

\* The X-Spmfilter header is set through msg, which was read before the first module ran; if
\* that message was freed the header is lost, or the process dies.
AddTag ==
  /\ qpc = "tag"
  /\ \/ ~settings.add_header /\ qpc' = "flush" /\ UNCHANGED mem
     \/ settings.add_header /\ ~stale /\ mem' = mem \cup {Tag} /\ qpc' = "flush"
     \/ settings.add_header /\ stale /\ qpc' \in {"flush", "crashed"} /\ UNCHANGED mem
  /\ UNCHANGED <<settings, mod_count, qret, stale, spool, temp, delivered, answers, history, faults>>

(***************************************************************************)
(* smf_modules_flush_dirty.                                                *)
(***************************************************************************)

\* A step of the queue that fails, and makes smf_modules_process return -1.
Fail ==
  /\ Fault
  /\ qret' = -1 /\ qpc' = "returned"

\* Mutant: only the message in memory is written.
FlushHeadersOnly ==
  /\ qpc = "flush"
  /\ IF mem = {} THEN qpc' = "nexthop" /\ UNCHANGED <<temp, qret, faults>>
     ELSE \/ /\ temp' = [there |-> TRUE, headers |-> mem, body |-> {}]
             /\ qpc' = "unlink" /\ UNCHANGED <<qret, faults>>
          \/ Fail /\ temp' \in {NoFile, [NoFile EXCEPT !.there = TRUE]}
  /\ UNCHANGED <<settings, mod_count, mem, stale, spool, delivered, answers, history>>

\* Headers other than at the start are dirty: they and the body of the spool file go to a
\* new file.  If that fails the file may be left behind.
Flush ==
  /\ qpc = "flush"
  /\ IF mem = {} THEN qpc' = "nexthop" /\ UNCHANGED <<temp, qret, faults>>
     ELSE \/ /\ temp' = [there |-> TRUE, headers |-> mem, body |-> spool.body]
             /\ qpc' = "unlink" /\ UNCHANGED <<qret, faults>>
          \/ Fail /\ temp' \in {NoFile, [NoFile EXCEPT !.there = TRUE]}
  /\ UNCHANGED <<settings, mod_count, mem, stale, spool, delivered, answers, history>>

FlushUnlink ==
  /\ qpc = "unlink"
  /\ \/ spool' = NoFile /\ qpc' = "rename" /\ UNCHANGED <<qret, faults>>
     \/ Fail /\ UNCHANGED spool
  /\ UNCHANGED <<settings, mod_count, mem, stale, temp, delivered, answers, history>>

FlushRename ==
  /\ qpc = "rename"
  /\ \/ spool' = temp /\ temp' = NoFile /\ qpc' = "nexthop" /\ UNCHANGED <<qret, faults>>
     \/ Fail /\ UNCHANGED <<spool, temp>>
  /\ UNCHANGED <<settings, mod_count, mem, stale, delivered, answers, history>>

(***************************************************************************)
(* smf_nexthop_find and the delivery.                                      *)
(***************************************************************************)

\* smf_smtp_deliver returns 250: the nexthop has the spool file.
Accepted == delivered' = spool /\ qret' = 0 /\ UNCHANGED <<answers, unsure>>

\* It returns something else: there is no recipient, the file cannot be read, the nexthop cannot
\* be reached or refuses; or the nexthop accepts and its answer is lost.
\* smf_smtpd_handle_nexthop_error tells the client.
Refused ==
  /\ qret' = -1 /\ answers' = answers \o Reply("fail")
  /\ \/ UNCHANGED <<delivered, unsure>>
     \/ delivered' = spool /\ unsure' = TRUE

Deliver ==
  /\ qpc = "nexthop" /\ qpc' = "returned"
  /\ IF settings.nexthop THEN Accepted \/ Refused
     ELSE qret' = 0 /\ UNCHANGED <<delivered, answers, unsure>>
  /\ UNCHANGED <<settings, mod_count, mem, stale, spool, temp, edited, rewrote, faults>>

\* The steps that depend on nobody but this process.
QueueStep ==
  \/ \E r \in Results, b \in BOOLEAN : Invoke(r, b) \/ InvokeRewrite(r, b)
  \/ AddTag \/ Flush \/ FlushUnlink \/ FlushRename \/ Deliver

QueueTypeOK ==
  /\ settings \in SettingsType
  /\ qpc \in QueuePcs /\ mod_count \in 0..MaxModules /\ qret \in {0, 1, -1}
  /\ mem \subseteq Marks /\ stale \in BOOLEAN
  /\ spool \in File /\ temp \in File /\ delivered \in File
  /\ answers \in Seq(Answers)
  /\ edited \subseteq Modules /\ rewrote \subseteq Modules /\ unsure \in BOOLEAN
  /\ faults \in 0..MaxFaults
=============================================================================
