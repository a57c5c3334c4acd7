----------------------------- MODULE PipeEngine -----------------------------
(***************************************************************************)
(* The pipe engine, smf_pipe.c: one process takes one message from its     *)
(* standard input, runs the queue (ModuleQueue) over it and tells its      *)
(* caller by the exit status what became of it.                            *)
(*                                                                         *)
(* There are no signal handlers and no alarm: a signal, or a crash, ends   *)
(* the process at any point and leaves its files.                          *)
(***************************************************************************)
EXTENDS ModuleQueue

VARIABLES
  pos,      \* where load() is
  status,   \* the exit status: 0, 1, -1, or none
  leftover  \* has a file been left behind that nothing will remove

pipeVars == <<queueVars, pos, status, leftover>>

Positions == {"open", "read", "parse", "queue", "exited"}
Statuses  == {"running", "0", "1", "-1", "killed"}

PipeInit == QueueInit /\ pos = "open" /\ status = "running" /\ leftover = FALSE

Return(s) == pos' = "exited" /\ status' = s

\* An early return: the file that smf_core_gen_queue_file made stays.
Abandon == Fault /\ Return("-1") /\ leftover' = TRUE /\ spool' = NoFile

\* smf_core_gen_queue_file, whose result is not looked at, and fopen.
Open ==
  /\ pos = "open"
  /\ \/ pos' = "read" /\ spool' = [NoFile EXCEPT !.there = TRUE]
        /\ UNCHANGED <<status, leftover, faults>>
     \/ Abandon
     \/ Fault /\ Return("-1") /\ UNCHANGED <<spool, leftover>>
  /\ UNCHANGED <<settings, qpc, mod_count, qret, mem, stale, temp, delivered, answers, history>>

\* All of the input is written to the spool file.
ReadInput ==
  /\ pos = "read"
  /\ \/ pos' = "parse" /\ UNCHANGED <<spool, status, leftover, faults>>
     \/ Abandon
  /\ UNCHANGED <<settings, qpc, mod_count, qret, mem, stale, temp, delivered, answers, history>>

ParseSpool ==
  /\ pos = "parse"
  /\ \/ pos' = "queue" /\ Start /\ UNCHANGED <<spool, status, leftover, faults>>
     \/ Abandon /\ UNCHANGED <<qpc, mod_count, qret, mem, stale>>
  /\ UNCHANGED <<settings, temp, delivered, answers, history>>

RunQueue == pos = "queue" /\ QueueStep /\ UNCHANGED <<pos, status, leftover>>

\* Mutant: a status that is 0 unless there was an error.
StatusOfErrors == IF qret = -1 THEN "-1" ELSE "0"

Status == CASE qret = 0 -> "0" [] qret = 1 -> "1" [] qret = -1 -> "-1"

\* Mutant: an early return for -1.
FinishEarly ==
  /\ pos = "queue" /\ qpc = "returned"
  /\ Return(Status)
  /\ spool' = IF qret = -1 THEN spool ELSE NoFile
  /\ temp' = NoFile /\ leftover' = temp.there
  /\ UNCHANGED <<settings, qpc, mod_count, qret, mem, stale, delivered, answers, history, faults>>

\* The spool file is removed, a temporary file of a failed flush stays, and main returns what
\* smf_modules_process did.
Finish ==
  /\ pos = "queue" /\ qpc = "returned"
  /\ Return(Status)
  /\ spool' = NoFile /\ temp' = NoFile /\ leftover' = temp.there
  /\ UNCHANGED <<settings, qpc, mod_count, qret, mem, stale, delivered, answers, history, faults>>

\* A signal at any time, or the undefined behaviour of the queue.
Killed ==
  /\ pos # "exited" /\ Return("killed")
  /\ leftover' = (spool.there \/ temp.there)
  /\ UNCHANGED queueVars

PipeNext == Open \/ ReadInput \/ ParseSpool \/ RunQueue \/ Finish \/ Killed

PipeSpec == PipeInit /\ [][PipeNext]_pipeVars

(***************************************************************************)
(* Properties.                                                             *)
(***************************************************************************)

\* The caller takes 0 for success and anything else for a failure.  What the nexthop has without
\* the filter knowing becomes its own when the failure is reported.
PipeHandover == INSTANCE MessageHandover WITH
  final <- ~settings.nexthop,
  held <- pos \notin {"open", "exited"},
  duty <- IF delivered.there /\ (unsure => status = "-1") THEN "nexthop" ELSE "filter",
  answers <- CASE status = "0" -> <<"ok">> [] status \in {"1", "-1"} -> <<"fail">>
               [] OTHER -> <<>>

\* The exit status keeps the promise of MessageHandover: it is 0 only for a message that the
\* nexthop has, and a failure is reported only for one that it does not have, unless its
\* answer was lost (smf_pipe.c:144, 155; main.c:143).
PipeImplementsHandover == PipeHandover!Spec

\* A process that ends on its own leaves no file in the queue directory, whatever modules and
\* nexthop said, unless a file operation or a parse failed (smf_pipe.c:145).
FilesRemoved ==
  pos = "exited" /\ status # "killed" /\ faults = 0 => ~leftover /\ ~spool.there /\ ~temp.there
=============================================================================
