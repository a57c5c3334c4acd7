---------------------------- MODULE EngineProofs ----------------------------
(***************************************************************************)
(* Theorems about the two engines, SmtpSession and PipeEngine, and about   *)
(* the queue that both run over a message, ModuleQueue: for any number of  *)
(* modules and faults, every set of recipients and sizes, any number of    *)
(* messages and all configurations.                                        *)
(*                                                                         *)
(* First the lemmas about the steps of the queue, then the session, then   *)
(* the process of the pipe engine.                                         *)
(***************************************************************************)
EXTENDS SmtpSession, PipeEngine, SequenceTheorems, TLAPS

(***************************************************************************)
(* ModuleQueue.                                                            *)
(***************************************************************************)

\* Places at which smf_modules_process has not yet decided about the message.
Undecided == {"invoke", "tag", "flush", "unlink", "rename", "nexthop"}

(***************************************************************************)
(* Types.                                                                  *)
(***************************************************************************)

\* The types, and that there is a module where one is called.
QueueTypes ==
  /\ QueueTypeOK
  /\ qpc = "invoke" => mod_count < settings.modules

\* What one knows of a configuration.
LEMMA SettingsFacts ==
  ASSUME settings \in SettingsType
  PROVE  /\ settings.modules \in 0..MaxModules /\ settings.engine \in {"smtpd", "pipe"}
         /\ settings.add_header \in BOOLEAN /\ settings.nexthop \in BOOLEAN
         /\ settings.module_fail \in 1..3
BY DEF SettingsType

\* Answers that are joined are answers.
LEMMA JoinedAnswers ==
  ASSUME NEW s \in Seq(Answers), NEW t \in Seq(Answers)
  PROVE  s \o t \in Seq(Answers)
BY ConcatProperties

LEMMA OneAnswer == ASSUME NEW a \in Answers PROVE Reply(a) \in Seq(Answers)
<1>1. <<a>> \in Seq(Answers) /\ <<>> \in Seq(Answers)
      OBVIOUS
<1>2. QED BY <1>1 DEF Reply

LEMMA QueueInitTypes == QueueInit => QueueTypes
<1> SUFFICES ASSUME QueueInit PROVE QueueTypes
    OBVIOUS
<1>1. settings \in SettingsType
      BY QueueAssumption DEF QueueInit
<1>2. NoFile \in File
      BY DEF NoFile, File
<1>3. <<>> \in Seq(Answers)
      OBVIOUS
<1>4. /\ mod_count \in 0..MaxModules /\ qret \in {0, 1, -1} /\ faults \in 0..MaxFaults
      BY QueueAssumption DEF QueueInit
<1>5. /\ mem \subseteq Marks /\ edited \subseteq Modules /\ rewrote \subseteq Modules
      /\ stale \in BOOLEAN /\ unsure \in BOOLEAN
      BY DEF QueueInit
<1>6. /\ spool \in File /\ temp \in File /\ delivered \in File
      /\ answers \in Seq(Answers) /\ qpc \in QueuePcs /\ qpc # "invoke"
      BY <1>2, <1>3 DEF QueueInit, QueuePcs
<1>7. QED BY <1>1, <1>4, <1>5, <1>6 DEF QueueTypes, QueueTypeOK

\* The start of the queue keeps them.
LEMMA StartTypes ==
  ASSUME QueueTypes, Start, settings' = settings
  PROVE  /\ qpc' \in QueuePcs /\ mod_count' \in 0..MaxModules /\ qret' \in {0, 1, -1}
         /\ mem' \subseteq Marks /\ stale' \in BOOLEAN
         /\ qpc' = "invoke" => mod_count' < settings'.modules
<1>1. settings.modules \in 0..MaxModules
      BY SettingsFacts DEF QueueTypes, QueueTypeOK
<1>2. /\ qpc' \in QueuePcs /\ mod_count' \in 0..MaxModules /\ qret' \in {0, 1, -1}
      /\ qpc' = "invoke" => mod_count' < settings.modules
      BY <1>1, QueueAssumption DEF Start, QueuePcs
<1>3. mem' \subseteq Marks /\ stale' \in BOOLEAN
      BY DEF Start
<1>4. QED BY <1>2, <1>3

\* Where smf_modules_process goes on with the result of module m.
LEMMA ProceedTypes ==
  ASSUME QueueTypes, NEW r \in Results, qpc = "invoke", Proceed(mod_count + 1, r),
         settings' = settings
  PROVE  /\ qpc' \in {"invoke", "tag", "returned"} /\ mod_count' \in 0..MaxModules
         /\ qret' \in {0, 1, -1} /\ answers' \in Seq(Answers)
         /\ qpc' = "invoke" => mod_count' < settings'.modules
<1>1. /\ settings.modules \in 0..MaxModules /\ mod_count \in 0..MaxModules
      /\ mod_count < settings.modules /\ qret \in {0, 1, -1} /\ answers \in Seq(Answers)
      BY SettingsFacts DEF QueueTypes, QueueTypeOK
<1>2. ProcessingAnswer(r) \in Seq(Answers)
  <2>1. /\ Reply("ok") \in Seq(Answers) /\ Reply("fail") \in Seq(Answers)
        /\ <<>> \in Seq(Answers)
        BY OneAnswer DEF Answers
  <2>2. QED BY <2>1 DEF ProcessingAnswer
<1>3. CASE r = 0
      BY <1>1, <1>3, QueueAssumption DEF Proceed
<1>4. CASE r # 0
  <2>1. /\ mod_count' = mod_count /\ answers' = answers \o ProcessingAnswer(r)
        /\ qpc' \in {"tag", "returned"} /\ qret' \in {0, 1, -1}
        BY <1>1, <1>4 DEF Proceed
  <2>2. QED BY <1>1, <1>2, <2>1, JoinedAnswers
<1>5. QED BY <1>3, <1>4

\* A file with marks added, and what a new one holds.
LEMMA MarkedFile ==
  ASSUME NEW f \in File, NEW m \in Modules
  PROVE  [f EXCEPT !.headers = @ \cup {m}, !.body = @ \cup {m}] \in File
BY DEF File, Marks

LEMMA EmptyFiles == NoFile \in File /\ [NoFile EXCEPT !.there = TRUE] \in File
BY DEF NoFile, File

\* Every step of the queue keeps the types.
LEMMA QueueTypesStep == QueueTypes /\ QueueStep => QueueTypes'
<1> SUFFICES ASSUME QueueTypes, QueueStep PROVE QueueTypes'
    OBVIOUS
<1>0. /\ settings \in SettingsType /\ qpc \in QueuePcs /\ mod_count \in 0..MaxModules
      /\ qret \in {0, 1, -1} /\ mem \subseteq Marks /\ stale \in BOOLEAN
      /\ spool \in File /\ temp \in File /\ delivered \in File
      /\ answers \in Seq(Answers) /\ edited \subseteq Modules /\ rewrote \subseteq Modules
      /\ unsure \in BOOLEAN /\ faults \in 0..MaxFaults
      /\ settings.modules \in 0..MaxModules /\ (qpc = "invoke" => mod_count < settings.modules)
      BY SettingsFacts DEF QueueTypes, QueueTypeOK
<1>a. qpc = "invoke" => mod_count + 1 \in Modules
      BY <1>0, QueueAssumption DEF Modules
<1>b. Fault => faults' \in 0..MaxFaults
      BY <1>0, QueueAssumption DEF Fault
<1>1. ASSUME NEW r \in Results, NEW b \in BOOLEAN, Invoke(r, b) PROVE QueueTypes'
  <2>1. /\ Proceed(mod_count + 1, r) /\ qpc = "invoke"
        /\ UNCHANGED <<settings, stale, spool, temp, delivered, rewrote, unsure, faults>>
        BY <1>1 DEF Invoke
  <2>2. mem' \subseteq Marks /\ edited' \subseteq Modules
        BY <1>0, <1>a, <1>1 DEF Invoke, Marks
  <2>3. QED BY <1>0, <2>1, <2>2, ProceedTypes DEF QueueTypes, QueueTypeOK, QueuePcs
<1>2. ASSUME NEW r \in Results, NEW b \in BOOLEAN, InvokeRewrite(r, b) PROVE QueueTypes'
  <2>1. /\ qpc = "invoke" /\ UNCHANGED <<settings, temp, delivered, edited, unsure>>
        BY <1>2 DEF InvokeRewrite
  <2>2. spool' \in File /\ rewrote' \subseteq Modules
        BY <1>0, <1>a, <1>2, MarkedFile DEF InvokeRewrite
  <2>3. \E q \in Results : Proceed(mod_count + 1, q)
        BY <1>2 DEF InvokeRewrite, Results
  <2>4. mem' \subseteq Marks /\ stale' \in BOOLEAN /\ faults' \in 0..MaxFaults
    <3>1. spool'.headers \subseteq Marks
          BY <2>2 DEF File
    <3>2. QED BY <1>0, <1>b, <1>2, <3>1 DEF InvokeRewrite
  <2>5. QED BY <1>0, <2>1, <2>2, <2>3, <2>4, ProceedTypes DEF QueueTypes, QueueTypeOK, QueuePcs
<1>3. CASE AddTag
  <2>1. mem' \subseteq Marks /\ qpc' \in {"flush", "crashed"}
        BY <1>0, <1>3 DEF AddTag, Marks
  <2>2. QED BY <1>0, <1>3, <2>1 DEF AddTag, history, QueueTypes, QueueTypeOK, QueuePcs
<1>4. CASE Flush
  <2>1. [there |-> TRUE, headers |-> mem, body |-> spool.body] \in File
        BY <1>0 DEF File
  <2>2. /\ temp' \in File /\ qpc' \in {"nexthop", "unlink", "returned"}
        /\ qret' \in {0, 1, -1} /\ faults' \in 0..MaxFaults
        BY <1>0, <1>b, <1>4, <2>1, EmptyFiles DEF Flush, Fail
  <2>3. QED BY <1>0, <1>4, <2>2 DEF Flush, history, QueueTypes, QueueTypeOK, QueuePcs
<1>5. CASE FlushUnlink
  <2>1. /\ spool' \in File /\ qpc' \in {"rename", "returned"}
        /\ qret' \in {0, 1, -1} /\ faults' \in 0..MaxFaults
        BY <1>0, <1>b, <1>5, EmptyFiles DEF FlushUnlink, Fail
  <2>2. QED BY <1>0, <1>5, <2>1 DEF FlushUnlink, history, QueueTypes, QueueTypeOK, QueuePcs
<1>6. CASE FlushRename
  <2>1. /\ spool' \in File /\ temp' \in File /\ qpc' \in {"nexthop", "returned"}
        /\ qret' \in {0, 1, -1} /\ faults' \in 0..MaxFaults
        BY <1>0, <1>b, <1>6, EmptyFiles DEF FlushRename, Fail
  <2>2. QED BY <1>0, <1>6, <2>1 DEF FlushRename, history, QueueTypes, QueueTypeOK, QueuePcs
<1>7. CASE Deliver
  <2>1. answers \o Reply("fail") \in Seq(Answers)
        BY <1>0, OneAnswer, JoinedAnswers DEF Answers
  <2>2. /\ answers' \in Seq(Answers) /\ delivered' \in File /\ unsure' \in BOOLEAN
        /\ qret' \in {0, 1, -1} /\ qpc' = "returned"
        BY <1>0, <1>7, <2>1 DEF Deliver, Accepted, Refused
  <2>3. QED BY <1>0, <1>7, <2>2 DEF Deliver, QueueTypes, QueueTypeOK, QueuePcs
<1>8. QED BY <1>1, <1>2, <1>3, <1>4, <1>5, <1>6, <1>7 DEF QueueStep

(***************************************************************************)
(* Files: the spool file is there until it is replaced, and what is left   *)
(* behind was left by an operation that failed.                            *)
(***************************************************************************)

FilesInv ==
  /\ qpc \in Undecided \ {"rename"} => spool.there
  /\ qpc \in {"unlink", "rename"} => temp.there
  /\ temp.there => qpc \in {"unlink", "rename"} \/ faults > 0

\* Where Proceed can go.
LEMMA ProceedsTo ==
  ASSUME NEW m, NEW r, qpc = "invoke", Proceed(m, r)
  PROVE  qpc' \in {"invoke", "tag", "returned"}
BY DEF Proceed

\* A step of a module in one form: what both ways of running one have in common.
LEMMA ModuleStep ==
  ASSUME NEW r \in Results, NEW b \in BOOLEAN, Invoke(r, b) \/ InvokeRewrite(r, b)
  PROVE  /\ qpc = "invoke" /\ UNCHANGED <<settings, temp, delivered, unsure>>
         /\ \E q \in Results : Proceed(mod_count + 1, q)
         /\ faults' = faults \/ Fault
BY DEF Invoke, InvokeRewrite, Results

LEMMA FilesStep == QueueTypes /\ FilesInv /\ QueueStep => FilesInv'
<1> SUFFICES ASSUME QueueTypes, FilesInv, QueueStep PROVE FilesInv'
    OBVIOUS
<1>0. spool \in File /\ temp \in File /\ faults \in Nat
      BY QueueAssumption DEF QueueTypes, QueueTypeOK
<1> USE DEF FilesInv, Undecided, Fault
<1>1. ASSUME NEW r \in Results, NEW b \in BOOLEAN, Invoke(r, b) \/ InvokeRewrite(r, b)
      PROVE  FilesInv'
  <2>1. spool'.there
        BY <1>0, <1>1 DEF Invoke, InvokeRewrite, File
  <2>2. qpc' \in {"invoke", "tag", "returned"} /\ qpc = "invoke" /\ temp' = temp
        BY <1>1, ModuleStep, ProceedsTo
  <2>3. faults > 0 => faults' > 0
        BY <1>0, <1>1, ModuleStep
  <2>4. QED BY <2>1, <2>2, <2>3
<1>2. CASE AddTag
      BY <1>2 DEF AddTag, history
<1>3. CASE Flush
  <2>1. CASE mem = {} /\ qpc' = "nexthop" /\ UNCHANGED <<temp, faults>>
        BY <1>3, <2>1 DEF Flush
  <2>2. CASE temp'.there /\ qpc' = "unlink" /\ UNCHANGED faults
        BY <1>3, <2>2 DEF Flush
  <2>3. CASE Fail
        BY <1>0, <1>3, <2>3 DEF Flush, Fail
  <2>4. QED BY <1>3, <2>1, <2>2, <2>3 DEF Flush
<1>4. CASE FlushUnlink
      BY <1>0, <1>4 DEF FlushUnlink, Fail
<1>5. CASE FlushRename
  <2>1. CASE spool' = temp /\ temp' = NoFile /\ qpc' = "nexthop"
        BY <1>5, <2>1 DEF FlushRename, NoFile
  <2>2. CASE Fail /\ UNCHANGED temp
        BY <1>0, <1>5, <2>2 DEF Fail
  <2>3. QED BY <1>5, <2>1, <2>2 DEF FlushRename
<1>6. CASE Deliver
      BY <1>6 DEF Deliver
<1> HIDE DEF FilesInv
<1>7. QED BY <1>1, <1>2, <1>3, <1>4, <1>5, <1>6 DEF QueueStep

(***************************************************************************)
(* Marks: the edits of modules are in the file that will be delivered, or  *)
(* in the message in memory and on their way there.                        *)
(***************************************************************************)

TagOf == IF settings.add_header THEN {Tag} ELSE {}

\* What EditsDelivered says of the delivered file, of any file.
Carries(f) == f.body = rewrote /\ (rewrote = {} => f.headers = edited \cup TagOf)

MarksInv ==
  /\ qpc \in {"invoke", "tag", "flush", "unlink"} => spool.body = rewrote
  /\ qpc \in {"invoke", "tag", "flush"} /\ rewrote = {} => spool.headers = {}
  /\ qpc \in {"invoke", "tag"} /\ rewrote = {} => ~stale /\ mem = edited
  /\ qpc \in {"flush"} /\ rewrote = {} => mem = edited \cup TagOf
  /\ qpc \in {"unlink", "rename"} => Carries(temp)
  /\ qpc = "nexthop" => Carries(spool)
  /\ delivered.there => Carries(delivered)
  /\ qpc \in Undecided => ~delivered.there

LEMMA MarksStep == QueueTypes /\ MarksInv /\ QueueStep => MarksInv'
<1> SUFFICES ASSUME QueueTypes, MarksInv, QueueStep PROVE MarksInv'
    OBVIOUS
<1>0. /\ spool \in File /\ temp \in File /\ delivered \in File /\ settings.add_header \in BOOLEAN
      /\ rewrote \subseteq Modules /\ edited \subseteq Modules
      BY SettingsFacts DEF QueueTypes, QueueTypeOK
<1> USE DEF MarksInv, Carries, TagOf, Undecided
<1>1. ASSUME NEW r \in Results, NEW b \in BOOLEAN, Invoke(r, b) PROVE MarksInv'
  <2>1. qpc' \in {"invoke", "tag", "returned"} /\ qpc = "invoke"
        BY <1>1, ProceedsTo DEF Invoke
  <2>2. /\ UNCHANGED <<settings, stale, spool, temp, delivered, rewrote>>
        /\ mem = edited => mem' = edited'
        BY <1>1 DEF Invoke
  <2>3. QED BY <2>1, <2>2
<1>2. ASSUME NEW r \in Results, NEW b \in BOOLEAN, InvokeRewrite(r, b) PROVE MarksInv'
  <2>1. qpc' \in {"invoke", "tag", "returned"} /\ qpc = "invoke" /\ UNCHANGED <<temp, delivered>>
        BY <1>2, ModuleStep, ProceedsTo
  <2>2. spool'.body = spool.body \cup {mod_count + 1} /\ rewrote' = rewrote \cup {mod_count + 1}
        BY <1>0, <1>2 DEF InvokeRewrite, File
  <2>3. rewrote' # {} /\ spool'.body = rewrote'
        BY <2>1, <2>2
  <2>4. QED BY <2>1, <2>3
<1>3. CASE AddTag
  <2>1. /\ qpc = "tag" /\ qpc' \in {"flush", "crashed"}
        /\ UNCHANGED <<settings, spool, temp, delivered, edited, rewrote>>
        BY <1>3 DEF AddTag, history
  <2>2. ~stale /\ mem = edited => mem' = edited \cup TagOf
        BY <1>3 DEF AddTag
  <2>3. QED BY <2>1, <2>2
<1>4. CASE Flush
  <2>1. /\ qpc = "flush" /\ UNCHANGED <<settings, mem, spool, delivered, edited, rewrote>>
        BY <1>4 DEF Flush, history
  <2>2. CASE mem = {} /\ qpc' = "nexthop"
        BY <2>1, <2>2
  <2>3. CASE temp'.headers = mem /\ temp'.body = spool.body /\ qpc' = "unlink"
        BY <2>1, <2>3
  <2>4. CASE qpc' = "returned"
        BY <2>1, <2>4
  <2>5. QED BY <1>4, <2>2, <2>3, <2>4 DEF Flush, Fail
<1>5. CASE FlushUnlink
      BY <1>5 DEF FlushUnlink, Fail, history
<1>6. CASE FlushRename
      BY <1>6 DEF FlushRename, Fail, history
<1>7. CASE Deliver
  <2>1. /\ qpc = "nexthop" /\ qpc' = "returned" /\ delivered' \in {delivered, spool}
        /\ UNCHANGED <<settings, spool, temp, edited, rewrote>>
        BY <1>7 DEF Deliver, Accepted, Refused
  <2>2. QED BY <2>1
<1> HIDE DEF MarksInv
<1>8. QED BY <1>1, <1>2, <1>3, <1>4, <1>5, <1>6, <1>7 DEF QueueStep

(***************************************************************************)
(* Answers: nothing is said before it is decided what becomes of the       *)
(* message, and 0 is returned only once the nexthop has it.                *)
(***************************************************************************)

Unanswered == qpc \in Undecided \/ (qpc \in {"returned", "crashed"} /\ qret = 0) => answers = <<>>

DecidedInv ==
  /\ qpc \in Undecided => ~delivered.there /\ qret = 0 /\ ~unsure
  /\ qpc = "returned" /\ qret = 0 /\ settings.nexthop => delivered.there
  /\ qret = 1 => ~delivered.there
  /\ qret = -1 /\ delivered.there => unsure
  /\ delivered.there => settings.nexthop
  /\ unsure => delivered.there /\ qret = -1

\* Proceed decides or says nothing.
LEMMA ProceedDecides ==
  ASSUME answers = <<>>, NEW m, NEW r \in Results, qret = 0, qpc = "invoke", Proceed(m, r)
  PROVE  \/ qpc' \in {"invoke", "tag"} /\ qret' = 0 /\ answers' = <<>>
         \/ qpc' = "returned" /\ qret' = -1 /\ answers' = Reply("fail")
         \/ qpc' = "returned" /\ qret' = 1 /\ answers' \in {<<>>, Reply("ok"), Reply("fail")}
<1>1. answers \o ProcessingAnswer(r) = ProcessingAnswer(r)
  <2>1. ProcessingAnswer(r) \in Seq(Answers)
        BY OneAnswer DEF ProcessingAnswer, Answers
  <2>2. QED BY <2>1, ConcatEmptySeq
<1>2. CASE r = 0
      BY <1>2 DEF Proceed
<1>3. CASE r = -1
      BY <1>1, <1>3 DEF Proceed, ProcessingAnswer, ProcessingError
<1>4. CASE r = 1 \/ r = 2 \/ r = Code
      BY <1>1, <1>4 DEF Proceed, ProcessingAnswer, ProcessingError, Code
<1>5. QED BY <1>2, <1>3, <1>4 DEF Results

LEMMA DecidedStep == QueueTypes /\ FilesInv /\ DecidedInv /\ Unanswered /\ QueueStep => DecidedInv' /\ Unanswered'
<1> SUFFICES ASSUME QueueTypes, FilesInv, DecidedInv, Unanswered, QueueStep PROVE DecidedInv' /\ Unanswered'
    OBVIOUS
<1>0. spool \in File /\ delivered \in File /\ qret \in {0, 1, -1}
      BY DEF QueueTypes, QueueTypeOK
<1> USE DEF DecidedInv, Unanswered, Undecided
<1>1. ASSUME NEW r \in Results, NEW b \in BOOLEAN, Invoke(r, b) \/ InvokeRewrite(r, b)
      PROVE  DecidedInv' /\ Unanswered'
  <2>1. /\ qpc = "invoke" /\ UNCHANGED <<settings, delivered, unsure>>
        /\ \E q \in Results : Proceed(mod_count + 1, q)
        BY <1>1, ModuleStep
  <2>2. /\ qpc' \in {"invoke", "tag"} => qret' = 0 /\ answers' = <<>>
        /\ qpc' \in {"invoke", "tag", "returned"}
        /\ qpc' = "returned" => qret' \in {1, -1}
        BY <2>1, ProceedDecides
  <2>3. QED BY <2>1, <2>2
<1>2. CASE AddTag
  <2>1. /\ qpc = "tag" /\ qpc' \in {"flush", "crashed"}
        /\ UNCHANGED <<settings, qret, delivered, answers, unsure>>
        BY <1>2 DEF AddTag, history
  <2>2. QED BY <2>1
<1>3. CASE Flush \/ FlushUnlink \/ FlushRename
  <2>1. /\ qpc \in Undecided /\ UNCHANGED <<settings, delivered, answers, unsure>>
        /\ \/ qpc' \in Undecided /\ qret' = qret
           \/ qpc' = "returned" /\ qret' = -1
        BY <1>3 DEF Flush, FlushUnlink, FlushRename, Fail, history
  <2>2. QED BY <2>1
<1>4. CASE Deliver
  <2>1. qpc = "nexthop" /\ qpc' = "returned" /\ settings' = settings /\ spool.there
        BY <1>4 DEF Deliver, FilesInv
  <2>2. CASE Accepted /\ settings.nexthop
        BY <2>1, <2>2 DEF Accepted
  <2>3. CASE Refused /\ settings.nexthop
    <3>1. \/ UNCHANGED <<delivered, unsure>>
          \/ delivered' = spool /\ unsure' = TRUE
          BY <2>3 DEF Refused
    <3>2. qret' = -1
          BY <2>3 DEF Refused
    <3>3. QED BY <2>1, <2>3, <3>1, <3>2
  <2>4. CASE ~settings.nexthop /\ qret' = 0 /\ UNCHANGED <<delivered, answers, unsure>>
        BY <2>1, <2>4
  <2>5. QED BY <1>4, <2>2, <2>3, <2>4 DEF Deliver
<1> HIDE DEF DecidedInv, Unanswered
<1>5. QED BY <1>1, <1>2, <1>3, <1>4 DEF QueueStep

(***************************************************************************)
(* The queue as a whole.                                                   *)
(***************************************************************************)

QueueInv == QueueTypes /\ FilesInv /\ MarksInv /\ DecidedInv

LEMMA QueueInitInv == QueueInit => QueueInv
<1> SUFFICES ASSUME QueueInit PROVE QueueInv
    OBVIOUS
<1>1. qpc = "idle" /\ qret = 0 /\ ~spool.there /\ ~temp.there /\ ~delivered.there /\ ~unsure
      BY DEF QueueInit, NoFile
<1>2. QED BY <1>1, QueueInitTypes DEF QueueInv, FilesInv, MarksInv, DecidedInv, Undecided

LEMMA QueueInvStep == QueueInv /\ Unanswered /\ QueueStep => QueueInv' /\ Unanswered'
BY QueueTypesStep, FilesStep, MarksStep, DecidedStep DEF QueueInv

\* What a message is before the queue: no mark, no answer, at no nexthop.
Untouched ==
  /\ spool.headers = {} /\ spool.body = {} /\ ~temp.there /\ ~delivered.there
  /\ edited = {} /\ rewrote = {} /\ ~unsure /\ answers = <<>>

\* The queue starts with a message that is in its spool file.
LEMMA StartInv ==
  ASSUME QueueTypes, Untouched, spool.there, Start,
         UNCHANGED <<settings, spool, temp, delivered, answers, history, faults>>
  PROVE  QueueInv' /\ Unanswered'
<1>1. QueueTypes'
      BY StartTypes DEF QueueTypes, QueueTypeOK, history
<1>2. qpc' \in {"invoke", "tag"} /\ mem' = {} /\ ~stale' /\ qret' = 0
      BY DEF Start
<1>3. FilesInv' /\ MarksInv' /\ DecidedInv' /\ Unanswered'
      BY <1>2 DEF FilesInv, MarksInv, DecidedInv, Unanswered, Undecided, Untouched, Carries, history
<1>4. QED BY <1>1, <1>3 DEF QueueInv

\* What is outside the queue's own variables does not matter to it.
LEMMA QueueInvKept == QueueInv /\ UNCHANGED queueVars => QueueInv'
BY DEF QueueInv, QueueTypes, QueueTypeOK, FilesInv, MarksInv, DecidedInv, Carries, TagOf,
       queueVars, history

\* Nor does it whether the client gets one more answer.
LEMMA QueueInvAnswered ==
  ASSUME QueueInv, answers' \in Seq(Answers),
         UNCHANGED <<settings, qpc, mod_count, qret, mem, stale, spool, temp, delivered, history, faults>>
  PROVE  QueueInv'
BY DEF QueueInv, QueueTypes, QueueTypeOK, FilesInv, MarksInv, DecidedInv, Carries, TagOf, history

(***************************************************************************)
(* SmtpSession.                                                            *)
(***************************************************************************)

\* The types of what the session adds to the queue.
SessionTypes ==
  /\ spc \in SessionPcs /\ state \in States
  /\ recipients \subseteq Rcpts /\ own \subseteq Rcpts /\ message_size \in Nat
  /\ open \in BOOLEAN /\ junk \in BOOLEAN /\ complete \in BOOLEAN /\ datas \in 0..MaxData

\* What is so at each place: until the queue nothing has happened to the message, and between
\* two messages no file is left.
PlacesInv ==
  /\ spc \in {"reading", "headers", "size", "parse"} => Untouched /\ qpc = "idle" /\ qret = 0
  /\ spc = "queue" => Unanswered
  /\ spc = "remove" => qpc \in {"idle", "returned"}
  /\ spc = "cmd" => qpc = "idle" /\ ~spool.there /\ ~temp.there
  /\ faults = 0 /\ spc # "gone" => ~junk

SessionInv == QueueInv /\ SessionTypes /\ PlacesInv

LEMMA SessionInit == Init => SessionInv
<1> SUFFICES ASSUME Init PROVE SessionInv
    OBVIOUS
<1>1. QueueInv
      BY QueueInitInv DEF Init
<1>2. SessionTypes
  <2>1. message_size \in Nat /\ datas \in 0..MaxData
        BY SessionAssumption DEF Init
  <2>2. recipients \subseteq Rcpts /\ own \subseteq Rcpts
        BY DEF Init
  <2>3. /\ spc \in SessionPcs /\ state \in States
        /\ open \in BOOLEAN /\ junk \in BOOLEAN /\ complete \in BOOLEAN
        BY DEF Init, SessionPcs, States
  <2>4. QED BY <2>1, <2>2, <2>3 DEF SessionTypes
<1>3. /\ spc = "cmd" /\ qpc = "idle" /\ ~junk
      /\ ~spool.there /\ ~temp.there
      BY DEF Init, QueueInit, NoFile
<1>a. PlacesInv
      BY <1>3 DEF PlacesInv
<1>4. QED BY <1>1, <1>2, <1>a DEF SessionInv

\* A command that leaves the queue alone.
LEMMA CommandInv ==
  ASSUME SessionInv, Command,
         Helo \/ Xforward \/ MailFrom \/ Rset \/ \E r \in Rcpts : RcptTo(r)
  PROVE  SessionInv'
<1>1. UNCHANGED <<queueVars, spc, open, junk, complete, datas>> /\ spc = "cmd"
      BY DEF Helo, Xforward, MailFrom, Rset, RcptTo, Command
<1>2. /\ state' \in States /\ recipients' \subseteq Rcpts /\ own' \subseteq Rcpts
      /\ message_size' \in Nat
  <2>1. /\ state \in States /\ recipients \subseteq Rcpts /\ own \subseteq Rcpts
        /\ message_size \in Nat
        BY DEF SessionInv, SessionTypes
  <2>2. CASE Helo
        BY <2>1, <2>2 DEF Helo, NewSession, States
  <2>3. CASE Xforward \/ MailFrom \/ Rset
        BY <2>1, <2>3 DEF Xforward, MailFrom, Rset, NewSession, States
  <2>4. CASE \E r \in Rcpts : RcptTo(r)
        BY <2>1, <2>4 DEF RcptTo, States
  <2>5. QED BY <2>2, <2>3, <2>4
<1>3. QueueInv'
      BY <1>1, QueueInvKept DEF SessionInv
<1>4. SessionTypes'
      BY <1>1, <1>2 DEF SessionInv, SessionTypes
<1>5. PlacesInv'
      BY <1>1 DEF SessionInv, PlacesInv, queueVars
<1>6. QED BY <1>3, <1>4, <1>5 DEF SessionInv

LEMMA DataInv == SessionInv /\ Data => SessionInv'
<1> SUFFICES ASSUME SessionInv, Data PROVE SessionInv'
    OBVIOUS
<1>0. /\ QueueTypes /\ SessionTypes /\ PlacesInv /\ settings \in SettingsType /\ temp \in File
      /\ faults \in 0..MaxFaults
      BY DEF SessionInv, QueueInv, QueueTypes, QueueTypeOK
<1>1. /\ spc = "cmd" /\ qpc = "idle" /\ ~spool.there /\ ~temp.there
      /\ state' = "DATA" /\ datas' \in 0..MaxData
      /\ UNCHANGED <<settings, temp, recipients, message_size, open, own>> /\ complete' = FALSE
      BY <1>0, SessionAssumption DEF Data, Command, PlacesInv, SessionTypes
<1>2. /\ delivered' = NoFile /\ edited' = {} /\ rewrote' = {} /\ unsure' = FALSE
      /\ qpc' = "idle" /\ mod_count' = 0 /\ qret' = 0 /\ mem' = {} /\ stale' = FALSE
      BY DEF Data
<1>3. /\ answers' \in Seq(Answers) /\ spool' \in File /\ faults' \in 0..MaxFaults
      /\ faults' > 0 \/ (faults' = faults /\ junk' = junk)
      /\ spc' = "reading" => answers' = <<>> /\ spool'.headers = {} /\ spool'.body = {}
      /\ spc' = "cmd" => ~spool'.there
      /\ spc' \in {"reading", "cmd"} /\ junk' \in BOOLEAN
  <2>1. <<>> \in Seq(Answers) /\ <<"fail">> \in Seq(Answers)
        BY DEF Answers
  <2>2. CASE /\ spc' = "reading" /\ answers' = <<>> /\ spool' = [NoFile EXCEPT !.there = TRUE]
             /\ UNCHANGED <<junk, faults>>
        BY <1>0, <2>1, <2>2, EmptyFiles DEF NoFile, SessionTypes
  <2>3. CASE Fault /\ answers' = <<"fail">> /\ junk' \in {junk, TRUE} /\ UNCHANGED <<spc, spool>>
    <3>1. junk' \in BOOLEAN
          BY <1>0, <2>3 DEF SessionTypes
    <3>2. faults' \in 0..MaxFaults /\ faults' > 0
          BY <1>0, <2>3, QueueAssumption DEF Fault
    <3>3. spool' \in File /\ ~spool'.there /\ spc' = "cmd"
          BY <1>0, <1>1, <2>3 DEF QueueTypes, QueueTypeOK
    <3>4. QED BY <2>1, <2>3, <3>1, <3>2, <3>3
  <2>4. QED BY <2>2, <2>3 DEF Data
<1>4. QueueTypes'
  <2>1. mem' \subseteq Marks /\ edited' \subseteq Modules /\ rewrote' \subseteq Modules
        BY <1>2
  <2>2. stale' \in BOOLEAN /\ unsure' \in BOOLEAN
        BY <1>2
  <2>3. mod_count' \in 0..MaxModules /\ qret' \in {0, 1, -1}
        BY <1>2, QueueAssumption
  <2>4. delivered' \in File /\ temp' \in File
        BY <1>0, <1>1, <1>2, EmptyFiles
  <2>5. QED BY <1>0, <1>1, <1>2, <1>3, <2>1, <2>2, <2>3, <2>4
            DEF QueueTypes, QueueTypeOK, QueuePcs
<1>5. QueueInv'
  <2>1. ~delivered'.there /\ ~temp'.there
        BY <1>1, <1>2 DEF NoFile
  <2>2. QED BY <1>2, <1>4, <2>1 DEF QueueInv, FilesInv, MarksInv, DecidedInv, Undecided
<1>6. SessionTypes'
      BY <1>0, <1>1, <1>3 DEF SessionTypes, SessionPcs, States
<1>7. PlacesInv'
  <2>1. ~delivered'.there
        BY <1>2 DEF NoFile
  <2>2. QED BY <1>0, <1>1, <1>2, <1>3, <2>1 DEF PlacesInv, Untouched
<1>8. QED BY <1>5, <1>6, <1>7 DEF SessionInv

\* smf_smtpd_process_data up to the queue.
LEMMA ReadInv ==
  ASSUME SessionInv, NEW n \in Sizes, NEW ended \in BOOLEAN, Read(n, ended)
  PROVE  SessionInv'
<1>1. QueueInv'
      BY QueueInvKept DEF SessionInv, Read
<1>2. SessionTypes'
      BY SessionAssumption DEF SessionInv, SessionTypes, SessionPcs, Read
<1>3. PlacesInv'
      BY DEF SessionInv, PlacesInv, Untouched, Read, queueVars, history
<1>4. QED BY <1>1, <1>2, <1>3 DEF SessionInv

LEMMA AppendHeadersInv == SessionInv /\ AppendHeaders => SessionInv'
<1> SUFFICES ASSUME SessionInv, AppendHeaders PROVE SessionInv'
    OBVIOUS
<1>0. QueueInv /\ QueueTypes /\ SessionTypes /\ PlacesInv /\ faults \in 0..MaxFaults /\ spool \in File
      BY DEF SessionInv, QueueInv, QueueTypes, QueueTypeOK
<1>1. /\ spc = "headers" /\ spc' = "size" /\ qpc' = "idle" /\ qret' = 0 /\ qpc = "idle"
      /\ UNCHANGED <<settings, qpc, mod_count, qret, mem, stale, temp, delivered, answers, history>>
      /\ UNCHANGED <<state, recipients, message_size, open, own, complete, datas>>
      BY <1>0 DEF AppendHeaders, PlacesInv
<1>2. /\ junk' \in BOOLEAN /\ faults' \in 0..MaxFaults /\ spool' \in {spool, NoFile}
      /\ (faults' = faults /\ junk' = junk) \/ faults' > 0
  <2>1. Fault => faults' \in 0..MaxFaults /\ faults' > 0
        BY <1>0, QueueAssumption DEF Fault
  <2>2. junk' \in BOOLEAN
        BY <1>0 DEF AppendHeaders, SessionTypes
  <2>3. \/ faults' = faults /\ junk' = junk
        \/ Fault
        BY DEF AppendHeaders
  <2>4. spool' \in {spool, NoFile}
        BY DEF AppendHeaders
  <2>5. QED BY <1>0, <2>1, <2>2, <2>3, <2>4
<1>3. spool' \in File /\ Untouched'
  <2>1. spool'.headers = {} /\ spool'.body = {}
        BY <1>0, <1>1, <1>2 DEF PlacesInv, Untouched, NoFile
  <2>2. QED BY <1>0, <1>1, <1>2, <2>1, EmptyFiles DEF PlacesInv, Untouched, history
<1>4. QueueInv'
  <2>1. QueueTypes'
        BY <1>0, <1>1, <1>2, <1>3 DEF QueueTypes, QueueTypeOK, history
  <2>2. QED BY <1>1, <1>3, <2>1
            DEF QueueInv, FilesInv, MarksInv, DecidedInv, Undecided, Untouched
<1>5. SessionTypes'
      BY <1>0, <1>1, <1>2 DEF SessionTypes, SessionPcs
<1>6. PlacesInv'
      BY <1>0, <1>1, <1>2, <1>3 DEF PlacesInv
<1>7. QED BY <1>4, <1>5, <1>6 DEF SessionInv

LEMMA CheckSizeInv == SessionInv /\ CheckSize => SessionInv'
<1> SUFFICES ASSUME SessionInv, CheckSize PROVE SessionInv'
    OBVIOUS
<1>0. /\ answers \in Seq(Answers) /\ QueueInv /\ SessionTypes /\ PlacesInv
      BY DEF SessionInv, QueueInv, QueueTypes, QueueTypeOK
<1>1. /\ spc = "size" /\ qpc = "idle"
      /\ UNCHANGED <<settings, qpc, mod_count, qret, mem, stale, spool, temp, delivered, history,
                     faults>>
      /\ UNCHANGED <<state, recipients, message_size, open, junk, own, complete, datas>>
      BY <1>0 DEF CheckSize, PlacesInv
<1>2. \/ spc' = "remove" /\ answers' \in Seq(Answers)
      \/ spc' = "parse" /\ answers' = answers
      BY <1>0, AppendProperties DEF CheckSize, Answers
<1>3. QueueInv'
      BY <1>0, <1>1, <1>2, QueueInvAnswered
<1>4. SessionTypes'
      BY <1>0, <1>1, <1>2 DEF SessionTypes, SessionPcs
<1>5. PlacesInv'
      BY <1>0, <1>1, <1>2 DEF PlacesInv, Untouched, history
<1>6. QED BY <1>3, <1>4, <1>5 DEF SessionInv

LEMMA ParseInv == SessionInv /\ Parse => SessionInv'
<1> SUFFICES ASSUME SessionInv, Parse PROVE SessionInv'
    OBVIOUS
<1>0. /\ answers \in Seq(Answers) /\ QueueInv /\ QueueTypes /\ SessionTypes /\ PlacesInv
      /\ faults \in 0..MaxFaults
      BY DEF SessionInv, QueueInv, QueueTypes, QueueTypeOK
<1>1. /\ spc = "parse" /\ qpc = "idle" /\ Untouched /\ qret = 0
      /\ UNCHANGED <<settings, temp, delivered, history>>
      /\ UNCHANGED <<state, recipients, message_size, open, own, complete, datas>>
      BY <1>0 DEF Parse, PlacesInv
<1>2. CASE spool.there /\ spc' = "queue" /\ Start /\ UNCHANGED <<spool, answers, junk, faults>>
  <2>1. QueueInv' /\ Unanswered'
        BY <1>0, <1>1, <1>2, StartInv
  <2>2. SessionTypes'
        BY <1>0, <1>1, <1>2 DEF SessionTypes, SessionPcs
  <2>3. PlacesInv'
        BY <1>0, <1>1, <1>2, <2>1 DEF PlacesInv
  <2>4. QED BY <2>1, <2>2, <2>3 DEF SessionInv
<1>3. CASE /\ IF spool.there THEN Fault ELSE UNCHANGED faults
           /\ spc' = "cmd" /\ answers' = Append(answers, "fail")
           /\ junk' = (junk \/ spool.there) /\ spool' = NoFile
           /\ UNCHANGED <<settings, qpc, mod_count, qret, mem, stale>>
  <2>1. answers' \in Seq(Answers) /\ faults' \in 0..MaxFaults
        BY <1>0, <1>3, AppendProperties, QueueAssumption DEF Fault, Answers
  <2>2. spool' \in File /\ ~spool'.there
        BY <1>3, EmptyFiles DEF NoFile
  <2>3. spool.there => faults' > 0
        BY <1>0, <1>3, QueueAssumption DEF Fault
  <2>4. ~spool.there => faults' = faults /\ (junk' => junk)
        BY <1>3
  <2>5. QueueInv'
    <3>1. QueueTypes'
          BY <1>0, <1>1, <1>3, <2>1, <2>2 DEF QueueTypes, QueueTypeOK, history
    <3>2. QED BY <1>1, <1>3, <3>1
              DEF QueueInv, FilesInv, MarksInv, DecidedInv, Undecided, Untouched, history
  <2>6. SessionTypes'
    <3>1. junk' \in BOOLEAN
          BY <1>3
    <3>2. QED BY <1>0, <1>1, <1>3, <3>1 DEF SessionTypes, SessionPcs
  <2>7. PlacesInv'
        BY <1>0, <1>1, <1>3, <2>2, <2>3, <2>4 DEF PlacesInv, Untouched
  <2>8. QED BY <2>5, <2>6, <2>7 DEF SessionInv
<1>4. QED BY <1>2, <1>3 DEF Parse

LEMMA QueuedInv == SessionInv /\ Queue => SessionInv'
<1> SUFFICES ASSUME SessionInv, Queue PROVE SessionInv'
    OBVIOUS
<1>0. QueueInv /\ QueueTypes /\ Unanswered /\ SessionTypes /\ PlacesInv /\ faults \in 0..MaxFaults
      BY DEF SessionInv, QueueInv, QueueTypes, QueueTypeOK, PlacesInv, Queue
<1>1. spc = "queue" /\ QueueStep /\ UNCHANGED sessionVars
      BY DEF Queue
<1>2. QueueInv' /\ Unanswered'
      BY <1>0, <1>1, QueueInvStep
<1>3. SessionTypes'
      BY <1>0, <1>1 DEF SessionTypes, sessionVars
<1>4. PlacesInv'
  <2>1. faults' = 0 => faults = 0
        BY <1>0, <1>1, QueueAssumption
        DEF QueueStep, Invoke, InvokeRewrite, AddTag, Flush, FlushUnlink, FlushRename, Deliver, Fail, Fault
  <2>2. QED BY <1>0, <1>1, <1>2, <2>1 DEF PlacesInv, sessionVars
<1>5. QED BY <1>2, <1>3, <1>4 DEF SessionInv

LEMMA ProcessModulesInv == SessionInv /\ ProcessModules => SessionInv'
<1> SUFFICES ASSUME SessionInv, ProcessModules PROVE SessionInv'
    OBVIOUS
<1>0. /\ answers \in Seq(Answers) /\ QueueInv /\ SessionTypes /\ PlacesInv
      BY DEF SessionInv, QueueInv, QueueTypes, QueueTypeOK
<1>1. /\ spc = "queue" /\ qpc = "returned" /\ spc' = "remove"
      /\ UNCHANGED <<settings, qpc, mod_count, qret, mem, stale, spool, temp, delivered, history,
                     faults>>
      /\ UNCHANGED <<state, recipients, message_size, open, junk, own, complete, datas>>
      BY DEF ProcessModules
<1>2. answers' \in Seq(Answers)
      BY <1>0, AppendProperties DEF ProcessModules, Answers
<1>3. QueueInv'
      BY <1>0, <1>1, <1>2, QueueInvAnswered
<1>4. SessionTypes' /\ PlacesInv'
      BY <1>0, <1>1 DEF SessionTypes, SessionPcs, PlacesInv
<1>5. QED BY <1>3, <1>4 DEF SessionInv

LEMMA RemoveInv == SessionInv /\ Remove => SessionInv'
<1> SUFFICES ASSUME SessionInv, Remove PROVE SessionInv'
    OBVIOUS
<1>0. QueueInv /\ QueueTypes /\ FilesInv /\ MarksInv /\ DecidedInv /\ SessionTypes /\ PlacesInv
      /\ temp \in File /\ faults \in 0..MaxFaults
      BY DEF SessionInv, QueueInv, QueueTypes, QueueTypeOK
<1>1. /\ spc = "remove" /\ spc' = "cmd" /\ qpc' = "idle" /\ qpc \in {"idle", "returned"}
      /\ spool' = NoFile /\ temp' = NoFile /\ junk' = (junk \/ temp.there)
      /\ UNCHANGED <<settings, mod_count, qret, mem, stale, delivered, answers, history, faults>>
      /\ UNCHANGED <<state, recipients, message_size, open, own, complete, datas>>
      BY <1>0 DEF Remove, PlacesInv
<1>2. ~spool'.there /\ ~temp'.there
      BY <1>1 DEF NoFile
<1>3. QueueInv'
  <2>1. QueueTypes'
        BY <1>0, <1>1, EmptyFiles DEF QueueTypes, QueueTypeOK, QueuePcs, history
  <2>2. QED BY <1>0, <1>1, <1>2, <2>1
            DEF QueueInv, FilesInv, MarksInv, DecidedInv, Carries, TagOf, Undecided, history
<1>4. SessionTypes'
  <2>1. junk' \in BOOLEAN
        BY <1>1
  <2>2. QED BY <1>0, <1>1, <2>1 DEF SessionTypes, SessionPcs
<1>5. PlacesInv'
  <2>1. temp.there => faults > 0
        BY <1>0, <1>1 DEF FilesInv
  <2>2. junk' => junk \/ temp.there
        BY <1>1
  <2>3. faults' = 0 => ~junk'
        BY <1>0, <1>1, <2>1, <2>2 DEF PlacesInv
  <2>4. QED BY <1>1, <1>2, <2>3 DEF PlacesInv
<1>6. QED BY <1>3, <1>4, <1>5 DEF SessionInv

\* QUIT, a signal, or the death of the process.
LEMMA EndInv == SessionInv /\ (Leave \/ Alarm \/ Terminate \/ Crash) => SessionInv'
<1> SUFFICES ASSUME SessionInv, Leave \/ Alarm \/ Terminate \/ Crash PROVE SessionInv'
    OBVIOUS
<1>0. /\ answers \in Seq(Answers) /\ QueueInv /\ SessionTypes /\ PlacesInv
      BY DEF SessionInv, QueueInv, QueueTypes, QueueTypeOK
<1>1. /\ spc' = "gone"
      /\ UNCHANGED <<settings, qpc, mod_count, qret, mem, stale, spool, temp, delivered, history,
                     faults>>
      /\ UNCHANGED <<state, recipients, message_size, open, own, complete, datas>>
      BY DEF Leave, Alarm, Terminate, Crash, Exit, queueVars
<1>2. answers' \in Seq(Answers)
      BY <1>0, AppendProperties DEF Leave, Alarm, Terminate, Crash, Answers, queueVars
<1>3. junk' \in BOOLEAN
      BY <1>0 DEF Leave, Alarm, Terminate, Crash, Exit, SessionTypes
<1>4. QueueInv'
      BY <1>0, <1>1, <1>2, QueueInvAnswered
<1>5. SessionTypes' /\ PlacesInv'
      BY <1>0, <1>1, <1>3 DEF SessionTypes, SessionPcs, PlacesInv
<1>6. QED BY <1>4, <1>5 DEF SessionInv

LEMMA SessionStep == SessionInv /\ [Next]_vars => SessionInv'
<1> SUFFICES ASSUME SessionInv, [Next]_vars PROVE SessionInv'
    OBVIOUS
<1>1. CASE ClientCommand
      BY <1>1, CommandInv, DataInv DEF ClientCommand, Helo, Xforward, MailFrom, Rset, RcptTo
<1>2. CASE LocalStep
      BY <1>2, AppendHeadersInv, CheckSizeInv, ParseInv, ProcessModulesInv, RemoveInv, EndInv,
         QueuedInv DEF LocalStep
<1>3. CASE SlowStep
      BY <1>3, ReadInv, QueuedInv DEF SlowStep
<1>4. CASE Leave \/ Alarm \/ Terminate
      BY <1>4, EndInv
<1>5. CASE UNCHANGED vars
  <2>1. QueueInv'
        BY <1>5, QueueInvKept DEF SessionInv, vars
  <2>2. SessionTypes' /\ PlacesInv'
        BY <1>5 DEF SessionInv, SessionTypes, PlacesInv, Untouched, Unanswered, vars, queueVars,
                    sessionVars, history
  <2>3. QED BY <2>1, <2>2 DEF SessionInv
<1>6. QED BY <1>1, <1>2, <1>3, <1>4, <1>5 DEF Next

LEMMA AlwaysSessionInv == Spec => []SessionInv
BY SessionInit, SessionStep, PTL DEF Spec

\* Every variable of a session and of its queue keeps its type.
THEOREM SessionTypesHold == Spec => []TypeOK
<1>1. SessionInv => TypeOK
      BY DEF SessionInv, SessionTypes, QueueInv, QueueTypes, TypeOK
<1>2. QED BY <1>1, AlwaysSessionInv, PTL

\* What modules edited reaches the nexthop: the body of the spool file always, edited headers
\* and X-Spmfilter unless a module wrote to the spool file (smf_modules_flush_dirty).
THEOREM EditsReachNexthop == Spec => []EditsDelivered
<1>1. SessionInv => EditsDelivered
      BY DEF SessionInv, QueueInv, MarksInv, Carries, TagOf, EditsDelivered
<1>2. QED BY <1>1, AlwaysSessionInv, PTL

\* Every way back from smf_smtpd_process_data to the command loop removes the message's files,
\* unless a file operation failed.
THEOREM SpoolIsClean == Spec => []SpoolClean
<1>1. SessionInv => SpoolClean
      BY DEF SessionInv, PlacesInv, SpoolClean
<1>2. QED BY <1>1, AlwaysSessionInv, PTL

(***************************************************************************)
(* Sessions implement MessageHandover.                                     *)
(***************************************************************************)

\* What MessageHandover sees of a session.
Held == spc \notin {"cmd", "gone"}
Duty == IF delivered.there THEN "nexthop" ELSE IF Claimed THEN "module" ELSE "filter"
Seen == <<~settings.nexthop, Held, Duty, answers>>

\* A step that leaves alone what decides about it is a stutter.
LEMMA Unseen ==
  ASSUME UNCHANGED <<settings, delivered, answers, qret>>, Held' = Held
  PROVE  UNCHANGED Seen
BY DEF Seen, Duty, Claimed

\* Until somebody decides about the message the filter answers for it.
LEMMA UndecidedDuty ==
  ASSUME SessionInv, spc \in {"reading", "headers", "size", "parse"} \/ (spc = "queue" /\ qpc \in Undecided)
  PROVE  Held /\ Duty = "filter" /\ answers = <<>> /\ ~delivered.there /\ qret = 0
BY DEF SessionInv, QueueInv, DecidedInv, PlacesInv, Unanswered, Untouched, Held, Duty, Claimed

LEMMA InitHandsOver == Init => Handover!Init
<1> SUFFICES ASSUME Init PROVE Handover!Init
    OBVIOUS
<1>1. settings.nexthop \in BOOLEAN
      BY QueueAssumption DEF Init, QueueInit, SettingsType
<1>2. spc = "cmd" /\ ~delivered.there /\ qret = 0 /\ answers = <<>>
      BY DEF Init, QueueInit, NoFile
<1>3. QED BY <1>1, <1>2 DEF Handover!Init, Claimed

\* DATA is answered with 354, or refused.
LEMMA DataHandsOver == SessionInv /\ Data => Handover!Next
<1> SUFFICES ASSUME SessionInv, Data PROVE Handover!Next
    OBVIOUS
<1>1. spc = "cmd" /\ settings' = settings /\ ~delivered'.there /\ qret' = 0
      BY DEF Data, Command, NoFile
<1>2. CASE spc' = "reading" /\ answers' = <<>>
      BY <1>1, <1>2 DEF Handover!Next, Handover!Take, Claimed
<1>3. CASE spc' = spc /\ answers' = <<"fail">>
      BY <1>1, <1>3 DEF Handover!Next, Handover!RefuseEarly, Claimed
<1>4. QED BY <1>2, <1>3 DEF Data

\* A message that is too long, or that cannot be parsed.
LEMMA RefusalHandsOver ==
  ASSUME SessionInv, CheckSize \/ Parse
  PROVE  Handover!Next \/ UNCHANGED Seen
<1>1. /\ spc \in {"size", "parse"} /\ answers = <<>> /\ Held /\ Duty = "filter"
      /\ ~delivered.there /\ qret = 0 /\ UNCHANGED <<settings, delivered>> /\ qret' = 0
      BY UndecidedDuty DEF CheckSize, Parse, Start
<1>2. CASE answers' = <<>> /\ Held'
      BY <1>1, <1>2 DEF Seen, Duty, Claimed
<1>3. CASE answers' = <<"fail">>
      BY <1>1, <1>3 DEF Handover!Next, Handover!Refuse, Held, Claimed
<1>4. QED
  <2>1. Append(answers, "fail") = <<"fail">>
        BY <1>1
  <2>2. CASE answers' = answers
        BY <1>1, <1>2, <2>2 DEF CheckSize, Parse, Held
  <2>3. CASE answers' = Append(answers, "fail")
        BY <1>3, <2>1, <2>3
  <2>4. QED BY <2>2, <2>3 DEF CheckSize, Parse

\* A module says nothing, claims the message, or makes the filter refuse it.
LEMMA ModuleHandsOver ==
  ASSUME SessionInv, spc = "queue", spc' = spc, NEW r \in Results, NEW b \in BOOLEAN,
         Invoke(r, b) \/ InvokeRewrite(r, b)
  PROVE  Handover!Next \/ UNCHANGED Seen
<1>1. /\ qpc = "invoke" /\ UNCHANGED <<settings, delivered>>
      /\ \E q \in Results : Proceed(mod_count + 1, q)
      BY ModuleStep
<1>2. Held /\ Held' /\ Duty = "filter" /\ answers = <<>> /\ ~delivered.there /\ qret = 0
      BY <1>1, UndecidedDuty DEF Undecided, Held
<1>3. \/ answers' = <<>>
      \/ answers' = <<"fail">>
      \/ answers' = <<"ok">> /\ qret' = 1
      BY <1>1, <1>2, ProceedDecides DEF Reply
<1>4. CASE answers' = <<>>
      BY <1>1, <1>2, <1>4 DEF Seen, Duty, Claimed
<1>5. CASE answers' = <<"fail">>
      BY <1>1, <1>2, <1>5 DEF Handover!Next, Handover!Refuse, Held, Claimed
<1>6. CASE answers' = <<"ok">> /\ qret' = 1
      BY <1>1, <1>2, <1>6 DEF Handover!Next, Handover!Claim, Held, Claimed
<1>7. QED BY <1>3, <1>4, <1>5, <1>6

\* The nexthop takes the message, does not, or its answer is lost.
LEMMA DeliveryHandsOver ==
  ASSUME SessionInv, spc = "queue", spc' = spc, Deliver
  PROVE  Handover!Next \/ UNCHANGED Seen
<1>1. /\ qpc = "nexthop" /\ settings' = settings /\ spool.there
      BY DEF Deliver, SessionInv, QueueInv, FilesInv, Undecided
<1>2. Held /\ Held' /\ Duty = "filter" /\ answers = <<>> /\ ~delivered.there /\ qret = 0
      BY <1>1, UndecidedDuty DEF Undecided, Held
<1>3. CASE settings.nexthop /\ Accepted
  <2>1. delivered'.there /\ answers' = <<>>
        BY <1>1, <1>2, <1>3 DEF Accepted
  <2>2. QED BY <1>1, <1>2, <1>3, <2>1 DEF Handover!Next, Handover!HandOver, Held, Claimed
<1>4. CASE settings.nexthop /\ Refused
  <2>1. answers' \in {<<>>, <<"fail">>} /\ qret' = -1
        BY <1>2, <1>4 DEF Refused, Reply
  <2>2. CASE answers' = <<>> /\ delivered' = delivered
        BY <1>1, <1>2, <2>1, <2>2 DEF Seen, Duty, Claimed
  <2>3. CASE answers' = <<>> /\ delivered' = spool
        BY <1>1, <1>2, <1>4, <2>3 DEF Handover!Next, Handover!HandOver, Held, Claimed
  <2>4. CASE answers' = <<"fail">> /\ delivered' = delivered
        BY <1>1, <1>2, <2>1, <2>4 DEF Handover!Next, Handover!Refuse, Held, Claimed
  <2>5. CASE answers' = <<"fail">> /\ delivered' = spool
        BY <1>1, <1>2, <1>4, <2>5 DEF Handover!Next, Handover!AnswerLost, Held, Claimed
  <2>6. QED BY <1>4, <2>1, <2>2, <2>3, <2>4, <2>5 DEF Refused
<1>5. CASE ~settings.nexthop
  <2>1. UNCHANGED <<delivered, answers>> /\ qret' = 0
        BY <1>5 DEF Deliver
  <2>2. QED BY <1>1, <1>2, <2>1 DEF Seen, Duty, Claimed
<1>6. QED BY <1>3, <1>4, <1>5 DEF Deliver

LEMMA QueueHandsOver == SessionInv /\ Queue => Handover!Next \/ UNCHANGED Seen
<1> SUFFICES ASSUME SessionInv, Queue PROVE Handover!Next \/ UNCHANGED Seen
    OBVIOUS
<1>1. spc = "queue" /\ spc' = spc /\ QueueStep /\ Held' = Held
      BY DEF Queue, sessionVars, Held
<1>2. CASE AddTag \/ Flush \/ FlushUnlink \/ FlushRename
  <2>1. /\ qpc \in Undecided /\ UNCHANGED <<settings, delivered, answers>>
        /\ qret' \in {qret, -1}
        BY <1>2 DEF AddTag, Flush, FlushUnlink, FlushRename, Fail, Undecided
  <2>2. QED BY <1>1, <2>1, UndecidedDuty DEF Seen, Duty, Claimed
<1>3. QED BY <1>1, <1>2, ModuleHandsOver, DeliveryHandsOver DEF QueueStep

\* 250 once the queue has returned 0.
LEMMA AcceptanceHandsOver == SessionInv /\ ProcessModules => Handover!Next \/ UNCHANGED Seen
<1> SUFFICES ASSUME SessionInv, ProcessModules PROVE Handover!Next \/ UNCHANGED Seen
    OBVIOUS
<1>1. /\ spc = "queue" /\ qpc = "returned" /\ spc' = "remove"
      /\ UNCHANGED <<settings, delivered, qret>>
      BY DEF ProcessModules
<1>2. CASE qret = 0
  <2>1. answers = <<>> /\ answers' = <<"ok">>
        BY <1>1, <1>2 DEF ProcessModules, SessionInv, PlacesInv, Unanswered
  <2>2. settings.nexthop => delivered.there
        BY <1>1, <1>2 DEF SessionInv, QueueInv, DecidedInv
  <2>3. QED BY <1>1, <1>2, <2>1, <2>2 DEF Handover!Next, Handover!Accept, Claimed
<1>3. CASE qret # 0
      BY <1>1, <1>3, Unseen DEF ProcessModules, Held
<1>4. QED BY <1>2, <1>3

\* The end of a message and of the session.
LEMMA EndHandsOver ==
  ASSUME SessionInv, Remove \/ Leave \/ Alarm \/ Terminate \/ Crash
  PROVE  Handover!Next \/ UNCHANGED Seen
<1>1. UNCHANGED <<settings, delivered, qret>> /\ ~Held'
      BY DEF Remove, Leave, Alarm, Terminate, Crash, Exit, Held, queueVars
<1>2. CASE answers' = answers
  <2>1. Duty' = Duty
        BY <1>1, <1>2 DEF Duty, Claimed
  <2>2. CASE Held
        BY <1>1, <1>2, <2>1, <2>2 DEF Handover!Next, Handover!Release, Held, Duty
  <2>3. CASE ~Held
        BY <1>1, <1>2, <2>3, Unseen DEF Held
  <2>4. QED BY <2>2, <2>3
<1>3. CASE answers' = Append(answers, "421")
  <2>1. answers \in Seq(Answers)
        BY DEF SessionInv, QueueInv, QueueTypes, QueueTypeOK
  <2>2. Claimed' = Claimed
    <3>1. CASE answers = <<>>
      <4>1. answers' = <<"421">>
            BY <1>3, <3>1
      <4>2. QED BY <3>1, <4>1 DEF Claimed
    <3>2. CASE answers # <<>>
      <4>1. answers' # <<>> /\ answers'[1] = answers[1]
            BY <1>3, <2>1, <3>2
      <4>2. QED BY <1>1, <3>2, <4>1 DEF Claimed
    <3>3. QED BY <3>1, <3>2
  <2>3. Duty' = Duty
        BY <1>1, <2>2 DEF Duty
  <2>4. QED BY <1>1, <1>3, <2>3 DEF Handover!Next, Handover!TimeOut, Held, Duty
<1>4. QED BY <1>2, <1>3 DEF Remove, Leave, Alarm, Terminate, Crash, queueVars

LEMMA StepHandsOver == SessionInv /\ [Next]_vars => [Handover!Next]_(Handover!hvars)
<1> SUFFICES ASSUME SessionInv, [Next]_vars PROVE Handover!Next \/ UNCHANGED Seen
    BY DEF Handover!hvars, Seen, Held, Duty
<1>1. CASE Helo \/ Xforward \/ MailFrom \/ Rset \/ \E r \in Rcpts : RcptTo(r)
  <2>1. UNCHANGED queueVars /\ spc' = spc
        BY <1>1 DEF Helo, Xforward, MailFrom, Rset, RcptTo
  <2>2. QED BY <2>1, Unseen DEF queueVars, Held
<1>2. CASE AppendHeaders \/ \E n \in Sizes, ended \in BOOLEAN : Read(n, ended)
  <2>1. UNCHANGED <<settings, delivered, answers, qret>> /\ Held /\ Held'
        BY <1>2 DEF AppendHeaders, Read, queueVars, Held
  <2>2. QED BY <2>1, Unseen
<1>3. CASE UNCHANGED vars
      BY <1>3, Unseen DEF vars, queueVars, sessionVars, Held
<1>4. QED BY <1>1, <1>2, <1>3, DataHandsOver, RefusalHandsOver, QueueHandsOver,
             AcceptanceHandsOver, EndHandsOver
          DEF Next, ClientCommand, LocalStep, SlowStep

\* Sessions keep the promise of MessageHandover: smf_smtpd_process_modules, the callbacks and
\* the alarm together acknowledge no message before somebody took it, refuse none after, and
\* answer none twice.
THEOREM HandoverImplemented == Spec => ImplementsHandover
BY AlwaysSessionInv, InitHandsOver, StepHandsOver, PTL DEF Spec, ImplementsHandover, Handover!Spec

(***************************************************************************)
(* PipeEngine.                                                             *)
(***************************************************************************)

\* What is so at each place of load(): the message is untouched before the queue, a process that
\* runs has no status, and what it leaves behind was left by an operation that failed.
LoadInv ==
  /\ pos \in Positions /\ status \in Statuses
  /\ pos \in {"open", "read", "parse"} => Untouched /\ qpc = "idle" /\ qret = 0
  /\ pos = "open" => ~spool.there
  /\ pos \in {"read", "parse"} => spool.there
  /\ pos = "queue" => Unanswered
  /\ pos # "exited" => status = "running" /\ ~leftover
  /\ pos = "exited" /\ status # "killed" => ~spool.there /\ ~temp.there /\ (leftover => faults > 0)

PipeInv == QueueInv /\ LoadInv

LEMMA PipeInitInv == PipeInit => PipeInv
<1> SUFFICES ASSUME PipeInit PROVE PipeInv
    OBVIOUS
<1>1. QueueInv /\ pos = "open" /\ status = "running" /\ ~leftover
      BY QueueInitInv DEF PipeInit
<1>2. Untouched /\ qpc = "idle" /\ qret = 0 /\ ~spool.there
      BY DEF PipeInit, QueueInit, Untouched, NoFile
<1>3. QED BY <1>1, <1>2 DEF PipeInv, LoadInv, Positions, Statuses

\* Before the queue: the file is made, written and parsed, or the process returns -1.
LEMMA PipeBeforeQueue == PipeInv /\ (Open \/ ReadInput \/ ParseSpool) => PipeInv'
<1> SUFFICES ASSUME PipeInv, Open \/ ReadInput \/ ParseSpool PROVE PipeInv'
    OBVIOUS
<1>0. /\ QueueTypes /\ LoadInv /\ faults \in 0..MaxFaults /\ spool \in File
      BY DEF PipeInv, QueueInv, QueueTypes, QueueTypeOK
<1>1. /\ pos \in {"open", "read", "parse"} /\ Untouched /\ qpc = "idle" /\ qret = 0
      /\ status = "running" /\ ~leftover
      BY <1>0 DEF Open, ReadInput, ParseSpool, LoadInv
<1>2. Fault => faults' \in 0..MaxFaults /\ faults' > 0
      BY <1>0, QueueAssumption DEF Fault
<1>3. ASSUME pos' # "queue" PROVE PipeInv'
  <2>1. UNCHANGED <<settings, qpc, mod_count, qret, mem, stale, temp, delivered, answers, history>>
        BY <1>3 DEF Open, ReadInput, ParseSpool
  <2>2. \/ pos' = "exited" /\ status' = "-1" /\ spool' = NoFile /\ Fault
        \/ pos = "open" /\ pos' = "exited" /\ status' = "-1" /\ spool' = spool /\ Fault
        \/ /\ pos = "open" /\ pos' = "read" /\ UNCHANGED <<status, leftover, faults>>
           /\ spool' = [NoFile EXCEPT !.there = TRUE]
        \/ pos = "read" /\ pos' = "parse" /\ UNCHANGED <<spool, status, leftover, faults>>
        BY <1>3 DEF Open, ReadInput, ParseSpool, Abandon, Return
  <2>3. /\ spool' \in File /\ spool'.headers = {} /\ spool'.body = {}
        /\ pos' \in {"read", "parse"} => spool'.there
        /\ pos' = "exited" => ~spool'.there
    <3>1. CASE pos' = "exited" /\ spool' = NoFile
          BY <3>1, EmptyFiles DEF NoFile
    <3>2. CASE pos = "open" /\ pos' = "exited" /\ spool' = spool
          BY <1>0, <1>1, <3>2 DEF LoadInv, Untouched
    <3>3. CASE pos' = "read" /\ spool' = [NoFile EXCEPT !.there = TRUE]
          BY <3>3, EmptyFiles DEF NoFile
    <3>4. CASE pos = "read" /\ pos' = "parse" /\ spool' = spool
          BY <1>0, <1>1, <3>4 DEF LoadInv, Untouched
    <3>5. QED BY <2>2, <3>1, <3>2, <3>3, <3>4
  <2>4. Untouched'
        BY <1>1, <2>1, <2>3 DEF Untouched, history
  <2>5. faults' \in 0..MaxFaults /\ (pos' = "exited" => faults' > 0)
        BY <1>0, <1>1, <1>2, <2>2
  <2>6. QueueInv'
    <3>1. QueueTypes'
          BY <1>0, <1>1, <2>1, <2>3, <2>5 DEF QueueTypes, QueueTypeOK, history
    <3>2. QED BY <1>1, <2>1, <2>4, <3>1
              DEF QueueInv, FilesInv, MarksInv, DecidedInv, Undecided, Untouched
  <2>7. LoadInv'
    <3>1. pos' \in Positions /\ status' \in Statuses /\ (pos' # "exited" => status' = "running" /\ ~leftover')
          BY <1>1, <2>2 DEF Positions, Statuses
    <3>2. pos' # "open"
          BY <1>1, <2>2
    <3>3. ~temp'.there
          BY <2>4 DEF Untouched
    <3>4. QED BY <1>1, <1>3, <2>1, <2>3, <2>4, <2>5, <3>1, <3>2, <3>3 DEF LoadInv
  <2>8. QED BY <2>6, <2>7 DEF PipeInv
<1>4. ASSUME pos' = "queue" PROVE PipeInv'
  <2>1. /\ pos = "parse" /\ Start /\ UNCHANGED <<spool, status, leftover, faults>>
        /\ UNCHANGED <<settings, temp, delivered, answers, history>>
        BY <1>4 DEF Open, ReadInput, ParseSpool, Abandon, Return
  <2>2. QueueInv' /\ Unanswered'
        BY <1>0, <1>1, <2>1, StartInv DEF LoadInv
  <2>3. LoadInv'
        BY <1>1, <1>4, <2>1, <2>2 DEF LoadInv, Positions, Statuses
  <2>4. QED BY <2>2, <2>3 DEF PipeInv
<1>5. QED BY <1>3, <1>4

LEMMA PipeQueuedInv == PipeInv /\ RunQueue => PipeInv'
<1> SUFFICES ASSUME PipeInv, RunQueue PROVE PipeInv'
    OBVIOUS
<1>1. QueueInv /\ LoadInv /\ Unanswered /\ QueueStep /\ pos = "queue" /\ UNCHANGED <<pos, status, leftover>>
      BY DEF PipeInv, LoadInv, RunQueue
<1>2. QueueInv' /\ Unanswered'
      BY <1>1, QueueInvStep
<1>3. LoadInv'
      BY <1>1, <1>2 DEF LoadInv
<1>4. QED BY <1>2, <1>3 DEF PipeInv

\* The end: the spool file is removed, and a temporary file is there only after a failed flush.
LEMMA PipeEndInv == PipeInv /\ (Finish \/ Killed) => PipeInv'
<1> SUFFICES ASSUME PipeInv, Finish \/ Killed PROVE PipeInv'
    OBVIOUS
<1>0. QueueInv /\ QueueTypes /\ FilesInv /\ MarksInv /\ DecidedInv /\ LoadInv
      BY DEF PipeInv, QueueInv
<1>1. CASE Finish
  <2>1. /\ pos = "queue" /\ qpc = "returned" /\ pos' = "exited" /\ status' = Status
        /\ spool' = NoFile /\ temp' = NoFile /\ leftover' = temp.there
        /\ UNCHANGED <<settings, qpc, mod_count, qret, mem, stale, delivered, answers, history, faults>>
        BY <1>1 DEF Finish, Return
  <2>2. ~spool'.there /\ ~temp'.there
        BY <2>1 DEF NoFile
  <2>3. QueueInv'
    <3>1. QueueTypes'
          BY <1>0, <2>1, EmptyFiles DEF QueueTypes, QueueTypeOK, history
    <3>2. QED BY <1>0, <2>1, <2>2, <3>1
              DEF QueueInv, FilesInv, MarksInv, DecidedInv, Carries, TagOf, Undecided, history
  <2>4. status' \in Statuses
        BY <1>0, <2>1 DEF Status, Statuses, QueueTypes, QueueTypeOK
  <2>5. leftover' => faults' > 0
        BY <1>0, <2>1 DEF FilesInv
  <2>6. LoadInv'
        BY <2>1, <2>2, <2>4, <2>5 DEF LoadInv, Positions
  <2>7. QED BY <2>3, <2>6 DEF PipeInv
<1>2. CASE Killed
  <2>1. QueueInv'
        BY <1>0, <1>2, QueueInvKept DEF Killed
  <2>2. LoadInv'
        BY <1>2 DEF LoadInv, Killed, Return, Positions, Statuses
  <2>3. QED BY <2>1, <2>2 DEF PipeInv
<1>3. QED BY <1>1, <1>2

LEMMA PipeStep == PipeInv /\ [PipeNext]_pipeVars => PipeInv'
<1> SUFFICES ASSUME PipeInv, [PipeNext]_pipeVars PROVE PipeInv'
    OBVIOUS
<1>1. CASE UNCHANGED pipeVars
  <2>1. QueueInv'
        BY <1>1, QueueInvKept DEF PipeInv, pipeVars
  <2>2. LoadInv'
        BY <1>1 DEF PipeInv, LoadInv, Untouched, Unanswered, pipeVars, queueVars, history
  <2>3. QED BY <2>1, <2>2 DEF PipeInv
<1>2. QED BY <1>1, PipeBeforeQueue, PipeQueuedInv, PipeEndInv DEF PipeNext

LEMMA AlwaysPipeInv == PipeSpec => []PipeInv
BY PipeInitInv, PipeStep, PTL DEF PipeSpec

\* A process that ends on its own has removed its files, unless an operation on one, or the
\* parse, failed (load() in smf_pipe.c).
THEOREM FilesAreRemoved == PipeSpec => []FilesRemoved
<1>1. PipeInv => FilesRemoved
  <2> SUFFICES ASSUME PipeInv, pos = "exited", status # "killed", faults = 0
               PROVE  ~leftover /\ ~spool.there /\ ~temp.there
      BY DEF FilesRemoved
  <2>1. QED BY DEF PipeInv, LoadInv
<1>2. QED BY <1>1, AlwaysPipeInv, PTL

(***************************************************************************)
(* The exit status implements MessageHandover.                             *)
(***************************************************************************)

\* What MessageHandover sees of a process.
PipeHeld == pos \notin {"open", "exited"}
PipeDuty == IF delivered.there /\ (unsure => status = "-1") THEN "nexthop" ELSE "filter"
PipeTold == CASE status = "0" -> <<"ok">> [] status \in {"1", "-1"} -> <<"fail">> [] OTHER -> <<>>
PipeSeen == <<~settings.nexthop, PipeHeld, PipeDuty, PipeTold>>

LEMMA PipeInitHandsOver == PipeInit => PipeHandover!Init
<1> SUFFICES ASSUME PipeInit PROVE PipeHandover!Init
    OBVIOUS
<1>1. settings.nexthop \in BOOLEAN
      BY QueueAssumption DEF PipeInit, QueueInit, SettingsType
<1>2. pos = "open" /\ status = "running" /\ ~delivered.there
      BY DEF PipeInit, QueueInit, NoFile
<1>3. QED BY <1>1, <1>2 DEF PipeHandover!Init

\* The file is made, or the process fails before the queue.
LEMMA PipeBeforeQueueHandsOver == PipeInv /\ (Open \/ ReadInput \/ ParseSpool) => PipeHandover!Next \/ UNCHANGED PipeSeen
<1> SUFFICES ASSUME PipeInv, Open \/ ReadInput \/ ParseSpool PROVE PipeHandover!Next \/ UNCHANGED PipeSeen
    OBVIOUS
<1>1. /\ pos \in {"open", "read", "parse"} /\ status = "running" /\ ~delivered.there /\ ~delivered'.there
      /\ UNCHANGED <<settings, delivered, unsure>>
      BY DEF PipeInv, LoadInv, Untouched, Open, ReadInput, ParseSpool, history
<1>2. CASE pos' = "exited"
  <2>1. status' = "-1"
        BY <1>2 DEF Open, ReadInput, ParseSpool, Abandon, Return
  <2>2. CASE pos = "open"
        BY <1>1, <1>2, <2>1, <2>2 DEF PipeHandover!Next, PipeHandover!RefuseEarly
  <2>3. CASE pos # "open"
        BY <1>1, <1>2, <2>1, <2>3 DEF PipeHandover!Next, PipeHandover!Refuse
  <2>4. QED BY <2>2, <2>3
<1>3. CASE pos' # "exited"
  <2>1. status' = "running" /\ pos' \in {"read", "parse", "queue"}
        BY <1>1, <1>3 DEF Open, ReadInput, ParseSpool, Abandon, Return
  <2>2. CASE pos = "open"
        BY <1>1, <2>1, <2>2 DEF PipeHandover!Next, PipeHandover!Take
  <2>3. CASE pos # "open"
        BY <1>1, <2>1, <2>3 DEF PipeSeen, PipeHeld, PipeDuty, PipeTold
  <2>4. QED BY <2>2, <2>3
<1>4. QED BY <1>2, <1>3

\* In the queue the nexthop may take the message; if its answer is lost that shows at the end.
LEMMA PipeQueueHandsOver == PipeInv /\ RunQueue => PipeHandover!Next \/ UNCHANGED PipeSeen
<1> SUFFICES ASSUME PipeInv, RunQueue PROVE PipeHandover!Next \/ UNCHANGED PipeSeen
    OBVIOUS
<1>1. /\ pos = "queue" /\ QueueStep /\ UNCHANGED <<pos, status, leftover>> /\ status = "running"
      /\ DecidedInv /\ FilesInv
      BY DEF PipeInv, LoadInv, RunQueue, QueueInv
<1>2. CASE UNCHANGED <<delivered, unsure, settings>>
      BY <1>1, <1>2 DEF PipeSeen, PipeHeld, PipeDuty, PipeTold
<1>3. CASE Deliver
  <2>1. qpc = "nexthop" /\ spool.there /\ ~delivered.there /\ ~unsure /\ settings' = settings
        BY <1>1, <1>3 DEF Deliver, DecidedInv, FilesInv, Undecided
  <2>2. CASE settings.nexthop /\ Accepted
        BY <1>1, <2>1, <2>2 DEF Accepted, PipeHandover!Next, PipeHandover!HandOver
  <2>3. CASE Refused /\ unsure'
        BY <1>1, <2>1, <2>3 DEF PipeSeen, PipeHeld, PipeDuty, PipeTold
  <2>4. QED BY <1>2, <1>3, <2>1, <2>2, <2>3 DEF Deliver, Refused
<1>4. QED BY <1>1, <1>2, <1>3, ModuleStep
          DEF QueueStep, AddTag, Flush, FlushUnlink, FlushRename, history

LEMMA PipeEndHandsOver == PipeInv /\ (Finish \/ Killed) => PipeHandover!Next \/ UNCHANGED PipeSeen
<1> SUFFICES ASSUME PipeInv, Finish \/ Killed PROVE PipeHandover!Next \/ UNCHANGED PipeSeen
    OBVIOUS
<1>1. /\ pos # "exited" /\ status = "running" /\ pos' = "exited"
      /\ UNCHANGED <<settings, delivered, unsure, qret>> /\ DecidedInv
      BY DEF PipeInv, LoadInv, QueueInv, Finish, Killed, Return, queueVars, history
<1>2. CASE Finish
  <2>1. pos = "queue" /\ qpc = "returned" /\ status' = Status
        BY <1>2 DEF Finish, Return
  <2>2. CASE qret = 0
    <3>1. status' = "0" /\ ~unsure /\ (settings.nexthop => delivered.there)
          BY <1>1, <2>1, <2>2 DEF Status, DecidedInv
    <3>2. QED BY <1>1, <2>1, <3>1 DEF PipeHandover!Next, PipeHandover!Accept
  <2>3. CASE qret = 1
    <3>1. status' = "1" /\ ~delivered.there
          BY <1>1, <2>1, <2>3 DEF Status, DecidedInv
    <3>2. QED BY <1>1, <2>1, <3>1 DEF PipeHandover!Next, PipeHandover!Refuse
  <2>4. CASE qret = -1
    <3>1. /\ status' = "-1" /\ (delivered.there <=> unsure)
          /\ delivered.there => settings.nexthop
          BY <1>1, <2>1, <2>4 DEF Status, DecidedInv
    <3>2. CASE unsure
          BY <1>1, <2>1, <3>1, <3>2 DEF PipeHandover!Next, PipeHandover!AnswerLost
    <3>3. CASE ~unsure
          BY <1>1, <2>1, <3>1, <3>3 DEF PipeHandover!Next, PipeHandover!Refuse
    <3>4. QED BY <3>2, <3>3
  <2>5. QED BY <2>2, <2>3, <2>4 DEF PipeInv, QueueInv, QueueTypes, QueueTypeOK
<1>3. CASE Killed
  <2>1. status' = "killed"
        BY <1>3 DEF Killed, Return
  <2>2. CASE pos = "open"
        BY <1>1, <2>1, <2>2 DEF PipeSeen, PipeHeld, PipeDuty, PipeTold
  <2>3. CASE pos # "open"
        BY <1>1, <2>1, <2>3 DEF PipeHandover!Next, PipeHandover!Release
  <2>4. QED BY <2>2, <2>3
<1>4. QED BY <1>2, <1>3

LEMMA PipeStepHandsOver == PipeInv /\ [PipeNext]_pipeVars => [PipeHandover!Next]_(PipeHandover!hvars)
<1> SUFFICES ASSUME PipeInv, [PipeNext]_pipeVars PROVE PipeHandover!Next \/ UNCHANGED PipeSeen
    BY DEF PipeHandover!hvars, PipeSeen, PipeHeld, PipeDuty, PipeTold
<1>1. CASE UNCHANGED pipeVars
      BY <1>1 DEF pipeVars, queueVars, history, PipeSeen, PipeHeld, PipeDuty, PipeTold
<1>2. QED BY <1>1, PipeBeforeQueueHandsOver, PipeQueueHandsOver, PipeEndHandsOver DEF PipeNext

\* The exit status keeps the promise of MessageHandover: 0 only for a message that the nexthop
\* has, or that has no nexthop, and a failure only for one the filter still answers for, unless
\* the nexthop's answer was lost (load() in smf_pipe.c, main.c:143).
THEOREM PipeHandoverImplemented == PipeSpec => PipeImplementsHandover
BY AlwaysPipeInv, PipeInitHandsOver, PipeStepHandsOver, PTL DEF PipeSpec, PipeImplementsHandover,
   PipeHandover!Spec
=============================================================================
