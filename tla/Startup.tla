------------------------------ MODULE Startup ------------------------------
(***************************************************************************)
(* The way from main.c to a serving daemon, and what it does with the      *)
(* settings: options, configuration, lookup connection, spool directory,   *)
(* engine, listening socket, background, pid file, user, semaphore.        *)
(*                                                                         *)
(* The processes are 1 for the one that was started, 2 for the child of    *)
(* the first fork(), 3 for the child of the second.  `self' is the one     *)
(* that goes on; a parent only has exit() left to do.  What the            *)
(* environment answers is a choice.  Once the daemon serves, the settings  *)
(* stand for the copy of the child in which the modules of a session call  *)
(* the setters.                                                            *)
(***************************************************************************)
EXTENDS SmfSettings

Processes == 1..3
User      == <<"global", "user">>
Group     == <<"global", "group">>
PidFile   == <<"global", "pid_file">>
Foreground  == numbers[<<"global", "foreground">>] # 0
Persistent  == numbers[<<"global", "lookup_persistent">>] = 1

VARIABLES
  self,       \* the process that goes on
  leaving,    \* processes that are about to exit
  status,     \* what each process told its parent
  lookup,     \* main's lookup connection: is it there
  listening,  \* is there a listening socket
  leader,     \* the process that leads the session, 0 for the one of the caller
  pid_file,   \* the process the pid file names, 0 for none
  cwd,        \* the working directory: that of the caller or the spool directory
  shared,     \* are semaphore and counters there
  uid, gid,   \* as whom the process runs
  debug       \* was -d given

forks  == <<self, leaving, status>>
daemon == <<leader, pid_file, cwd, shared>>
who    == <<uid, gid, debug>>
processVars == <<forks, lookup, listening, daemon, who>>
vars        == <<settingsVars, pc, processVars>>

Init ==
  /\ SettingsInit /\ pc = "options" /\ debug \in BOOLEAN
  /\ self = 1 /\ leaving = {} /\ status = [p \in Processes |-> "none"]
  /\ lookup = FALSE /\ listening = FALSE /\ leader = 0 /\ pid_file = 0
  /\ uid \in {"root", "caller"} /\ gid = "caller" /\ cwd = "caller" /\ shared = FALSE

At(here)   == pc = here
Goto(next) == pc' = next
Same       == UNCHANGED <<settingsVars, processVars>>

\* The process ends, and with it its sockets.
Ends(s) ==
  /\ Goto("ended") /\ status' = [status EXCEPT ![self] = s]
  /\ lookup' = FALSE /\ listening' = FALSE
  /\ UNCHANGED <<settingsVars, self, leaving, daemon, who>>

(***************************************************************************)
(* main.                                                                   *)
(***************************************************************************)

\* -h and unknown options.
Usage   == At("options") /\ Ends("success")
Options == At("options") /\ Goto("parse") /\ Same

\* The file cannot be opened: the settings are still the defaults.
NoFile == At("parse") /\ line = 1 /\ Goto("refused") /\ Same

Parse ==
  /\ \/ SkipLine \/ SectionLine \/ ValueLine \/ ValueTooEarly
     \/ CheckGlobal \/ CheckBackend \/ CheckSmtpd
  /\ UNCHANGED processVars

\* The settings are freed, and what dangles with them, before the process ends.
FreesAndEnds(here, s) ==
  /\ At(here)
  /\ \/ Ends(s)
     \/ Dangling /\ Goto("crashed") /\ Same

Refused == FreesAndEnds("refused", "failure")

\* -d, after the file.
DebugOption ==
  /\ At("parsed") /\ Goto("connect")
  /\ IF debug THEN StoreNumber(Debug, 1) /\ Called(Debug, 1) /\ UNCHANGED <<strings, lists, codes, groups>>
     ELSE UNCHANGED settingsVars
  /\ UNCHANGED processVars

\* The lookup connection.  For LDAP with neither a host nor a URI there is no list element to take.
NoLdapHost == strings[<<"ldap", "uri">>] = NULL /\ lists[<<"ldap", "host">>] = <<>>
Connect(b) ==
  \/ /\ b = "ldap" => ~NoLdapHost
     /\ \/ lookup' = TRUE /\ Goto("queue_dir") /\ UNCHANGED <<settingsVars, forks, listening, daemon, who>>
        \/ Ends("failure")
  \/ /\ \/ b = "ldap" /\ NoLdapHost
        \/ Freed \in {strings[Backend], strings[BackendConnection], strings[Driver]}
     /\ Goto("crashed") /\ Same
LookupConnect ==
  /\ At("connect")
  /\ \E b \in Seen(strings[Backend]) :
       IF Persistent /\ b \in {"sql", "ldap"} THEN Connect(b) ELSE Goto("queue_dir") /\ Same

\* stat(), S_ISDIR and access() of the spool directory.
CheckQueueDir == At("queue_dir") /\ strings[QueueDir] \in Directories /\ Goto("engine") /\ Same
NoQueueDir    == strings[QueueDir] \notin Directories /\ FreesAndEnds("queue_dir", "failure")

(***************************************************************************)
(* smf_modules_engine_load and the load() of the engines.                  *)
(***************************************************************************)

\* The library is there, or not, or has no load(): then the text of dlerror() is freed.
EngineLoad == At("engine") /\ pc' \in {"load", "failed", "undefined"} /\ Same

\* An engine other than smtpd, such as pipe, handles its message and returns.
OtherEngine == At("load") /\ strings[Engine] # "smtpd" /\ pc' \in {"returned", "failed"} /\ Same

\* load() of smf_smtpd.c returns only if there is no memory for the queue.
Load == At("load") /\ strings[Engine] = "smtpd" /\ pc' \in {"listen", "failed"} /\ Same

\* smf_server_listen: some address can be bound.
Listen ==
  /\ At("listen") /\ listening' = TRUE /\ Goto("background")
  /\ UNCHANGED <<settingsVars, forks, lookup, daemon, who>>

\* load() exits at once if there is no socket.
NoListen == At("listen") /\ Ends("failure")

\* That an address does not resolve is not noticed ("==" for "="): the list of addresses is used
\* though it was never set.
Unresolved == At("listen") /\ Goto("undefined") /\ Same

(***************************************************************************)
(* smf_server_init.                                                        *)
(***************************************************************************)

\* A child goes on, and its parent exits.
Forks(child) == self' = child /\ leaving' = leaving \cup {self} /\ UNCHANGED status

\* Mutant: the test of foreground is the wrong way round.
Fork1Inverted ==
  /\ At("background")
  /\ IF ~Foreground THEN Goto("pid") /\ UNCHANGED forks
     ELSE Goto("setsid") /\ (Forks(2) \/ UNCHANGED forks)
  /\ UNCHANGED <<settingsVars, lookup, listening, daemon, who>>

\* If the first fork() fails, the process goes on as it is.
Fork1 ==
  /\ At("background")
  /\ IF Foreground THEN Goto("pid") /\ UNCHANGED forks
     ELSE Goto("setsid") /\ (Forks(2) \/ UNCHANGED forks)
  /\ UNCHANGED <<settingsVars, lookup, listening, daemon, who>>

\* setsid() fails for the leader of a process group, which the first process may be.
Setsid ==
  /\ At("setsid")
  /\ \/ leader' = self /\ Goto("fork2")
        /\ UNCHANGED <<settingsVars, forks, lookup, listening, pid_file, cwd, shared, who>>
     \/ self = 1 /\ Ends("failure")

Fork2 ==
  /\ At("fork2")
  /\ \/ Forks(3) /\ Goto("chdir") /\ UNCHANGED <<settingsVars, lookup, listening, daemon, who>>
     \/ Ends("failure")

Chdir ==
  /\ At("chdir")
  /\ \/ cwd' = "spool" /\ Goto("pid")
        /\ UNCHANGED <<settingsVars, forks, lookup, listening, leader, pid_file, shared, who>>
     \/ Ends("failure")

\* A pid file that cannot be written is only logged.
WritePidFile ==
  /\ At("pid") /\ Goto("user")
  /\ pid_file' \in IF strings[PidFile] = NULL THEN {pid_file} ELSE {pid_file, self}
  /\ UNCHANGED <<settingsVars, forks, lookup, listening, leader, cwd, shared, who>>

\* User and group are changed if both are set and known, and only by root.
Switches == strings[User] # NULL /\ strings[Group] # NULL
SwitchUser ==
  /\ At("user")
  /\ \/ /\ Switches /\ uid = "root" /\ gid' = strings[Group] /\ uid' = strings[User]
        /\ Goto("ipc") /\ UNCHANGED <<settingsVars, forks, lookup, listening, daemon, debug>>
     \/ Switches /\ Ends("failure")
     \/ ~Switches /\ Goto("ipc") /\ Same

InitIpc ==
  /\ At("ipc")
  /\ \/ shared' = TRUE /\ Goto("serving")
        /\ UNCHANGED <<settingsVars, forks, lookup, listening, leader, pid_file, cwd, who>>
     \/ Ends("failure")

(***************************************************************************)
(* Serving, and the way back.                                              *)
(***************************************************************************)

\* exit(EXIT_SUCCESS) of a parent.
ParentExits(p) ==
  /\ p \in leaving
  /\ leaving' = leaving \ {p} /\ status' = [status EXCEPT ![p] = "success"]
  /\ UNCHANGED <<settingsVars, pc, self, lookup, listening, daemon, who>>

\* Has no module called a setter?
AsStarted == \A i \in DOMAIN calls : calls[i].option = Debug

\* Modules in the child of a session.
ModuleCalls ==
  /\ At("serving")
  /\ (Setters \/ \E g \in GroupKeys, as \in {"integer", "list"} : GroupGet(g, as))
  /\ UNCHANGED processVars

\* The end of a session frees the child's copy of the settings.
SessionEnds == At("serving") /\ Dangling /\ Goto("crashed") /\ Same

\* smf_server_loop returns after SIGTERM; whether the pid file can be unlinked is not looked at.
ServerLoopReturns ==
  /\ At("serving") /\ AsStarted
  /\ Goto("returned") /\ shared' = FALSE /\ pid_file' \in {0, pid_file}
  /\ UNCHANGED <<settingsVars, forks, lookup, listening, leader, cwd, who>>

\* main after the engine: disconnect, free, return what the engine returned.
Returned == FreesAndEnds("returned", "success")
Failed   == FreesAndEnds("failed", "failure")

Main   == Usage \/ Options \/ NoFile \/ Parse \/ Refused \/ DebugOption \/ LookupConnect \/ CheckQueueDir
          \/ NoQueueDir \/ EngineLoad \/ OtherEngine \/ Returned \/ Failed
Daemon == Load \/ Listen \/ NoListen \/ Unresolved \/ Fork1 \/ Setsid \/ Fork2 \/ Chdir \/ WritePidFile
          \/ SwitchUser \/ InitIpc \/ ModuleCalls \/ SessionEnds \/ ServerLoopReturns
Next   == Main \/ Daemon \/ \E p \in Processes : ParentExits(p)

Spec == Init /\ [][Next]_vars

(***************************************************************************)
(* Properties.                                                             *)
(***************************************************************************)

TypeOK ==
  /\ SettingsTypeOK
  /\ pc \in {"options", "parse", "backend", "failmsg", "parsed", "refused", "connect", "queue_dir", "engine",
             "load", "listen", "background", "setsid", "fork2", "chdir", "pid", "user", "ipc", "serving",
             "returned", "failed", "ended", "crashed", "missing", "undefined"}
  /\ self \in Processes /\ leaving \subseteq 1..self - 1
  /\ status \in [Processes -> {"none", "success", "failure"}]
  /\ {lookup, listening, shared, debug} \subseteq BOOLEAN
  /\ {leader, pid_file} \subseteq 0..self
  /\ cwd \in {"caller", "spool"} /\ {uid, gid} \subseteq Texts \cup {"root", "caller"}

\* What the queue, the daemon and the lookups take for granted of the settings.
SqlUsable ==
  (strings[Backend] = "sql" /\ strings[Driver] # Freed) =>
    /\ strings[Driver] \in Allowed(Driver) /\ strings[<<"sql", "name">>] # NULL
    /\ strings[Driver] # "sqlite" => (lists[<<"sql", "host">>] # <<>> /\ numbers[<<"sql", "port">>] # 0)
LdapUsable ==
  strings[Backend] = "ldap" =>
    strings[Scope] \in {"base", "onlevel", "subtree"} /\ numbers[<<"ldap", "port">>] # 0
Usable ==
  /\ strings[Engine] = "smtpd" /\ strings[QueueDir] \in Directories /\ strings[FailMsg] # NULL
  /\ numbers[MaxChilds] <= ChildLimit /\ strings[BackendConnection] # NULL
  /\ SqlUsable /\ LdapUsable

\* A daemon in the background has a session of its own that it does not lead.
Detached == leader \in 1..self - 1 /\ cwd = "spool"

\* A daemon that serves has passed all of main, load and smf_server_init: usable settings, a
\* socket, shared memory, its own pid in the pid file if it could be written, and the user and
\* group of the configuration.
Prepared ==
  pc = "serving" =>
    /\ listening /\ shared /\ pid_file \in {0, self}
    /\ AsStarted =>
         /\ Usable /\ (Foreground \/ Detached)
         /\ Switches => <<uid, gid>> = <<strings[User], strings[Group]>>

\* What the caller of spmfilter is told: of a failure only when nothing goes on, and in the
\* foreground of success only when the engine has returned it.
StatusTold ==
  /\ status[1] = "failure" => (pc = "ended" /\ self = 1 /\ ~listening /\ ~shared)
  /\ (pc = "serving" /\ AsStarted /\ Foreground) => status[1] = "none"
  /\ leaving # {} => status[1] # "failure"

\* smf_settings.c and the start of the lookups break the process down for known reasons only: a
\* value before any section, a choice that was given again and is wrong, LDAP with no host.
CrashExplained ==
  pc = "crashed" =>
    \/ \E i \in DOMAIN config :
         config[i].kind = "value" /\ (\A j \in 1..i - 1 : config[j].kind # "section")
    \/ \E o \in Enumerated : Cardinality(Given(o)) > 1 /\ Given(o) # Accepted(o)
    \/ Persistent /\ strings[Backend] = "ldap" /\ NoLdapHost
=============================================================================
