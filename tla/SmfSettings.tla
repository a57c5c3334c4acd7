---------------------------- MODULE SmfSettings ----------------------------
(***************************************************************************)
(* The settings of smf_settings.c: defaults, the configuration file, and   *)
(* the functions by which modules read and change them.                    *)
(*                                                                         *)
(* An option is the pair of its section and its key in the file.  A line   *)
(* is what one call of fgets returns: it has white space removed and is    *)
(* known by what _parse_line makes of it.  Texts are opaque but for the    *)
(* readings that the code takes of them: the number strtol finds, the      *)
(* boolean in the first character, the items between separators.           *)
(*                                                                         *)
(* Lines longer than 199 characters reach _parse_line in pieces, since     *)
(* fgets stops before the test "line too long" could be true; a piece is a *)
(* line here.  Continuation lines are left out: the code looks for the     *)
(* backslash behind the newline, where it is only at the end of a file.    *)
(***************************************************************************)
EXTENDS Integers, Sequences, FiniteSetsExt

CONSTANTS
  NULL,         \* a pointer that is NULL
  Freed,        \* a pointer to memory that has been freed
  Empty,        \* the empty text
  Texts,        \* what values may be, with Empty
  Integer, Boolean, Items,  \* the readings of a text
  Directories,  \* texts that name a directory one may write to
  CodeKeys,     \* keys of reply codes, and other keys of [smtpd]
  GroupKeys,    \* options in sections of modules
  Configs,      \* the files to consider, sequences of lines
  Touched,      \* bound: options that modules set
  Ints,         \* bound: numbers that modules set
  MaxCalls      \* bound: calls of setters

(***************************************************************************)
(* Options, by the type they have in SMFSettings_T.                        *)
(***************************************************************************)
In(section, keys) == {section} \X keys

\* Texts that are taken as they are.
Plain ==
  In("global", {"queue_dir", "engine", "nexthop", "lib_dir", "pid_file", "bind_ip", "user", "group"})
  \cup In("sql", {"name", "user", "pass", "user_query", "encoding"})
  \cup In("ldap", {"uri", "binddn", "bindpw", "base", "user_query", "scope"})
  \cup In("smtpd", {"nexthop_fail_msg"})

Backend  == <<"global", "backend">>
BackendConnection == <<"global", "backend_connection">>
Driver   == <<"sql", "driver">>
Facility == <<"global", "syslog_facility">>
Debug    == <<"global", "debug">>
QueueDir == <<"global", "queue_dir">>
Engine   == <<"global", "engine">>
LibDir   == <<"global", "lib_dir">>
Scope    == <<"ldap", "scope">>
FailMsg  == <<"smtpd", "nexthop_fail_msg">>
Modules  == <<"global", "modules">>

\* Texts of which a file may only choose some.
Enumerated == {Backend, BackendConnection, Driver}
Facilities ==
  {"auth", "authpriv", "cron", "daemon", "ftp", "kern", "local0", "local1", "local2", "local3",
   "local4", "local5", "local6", "local7", "lpr", "mail", "news", "user", "uucp"}
Allowed(o) ==
  IF o = Backend THEN {"sql", "ldap"}
  ELSE IF o = BackendConnection THEN {"balance", "failover"}
  ELSE IF o = Driver THEN {"mysql", "postgresql", "sqlite"} ELSE Facilities

Flags       == In("global", {"debug", "add_header", "foreground", "lookup_persistent"})
               \cup In("ldap", {"referrals"})
ModuleFail  == <<"global", "module_fail">>
Tls         == <<"global", "tls_enable">>
MaxChilds   == <<"global", "max_childs">>
PlainNumber == In("global", {"max_size", "bind_port", "listen_backlog", "max_childs", "spare_childs"})
               \cup In("sql", {"max_connections", "port"}) \cup In("ldap", {"port"})
               \cup In("smtpd", {"nexthop_fail_code", "smtpd_timeout"})
ListOptions == {Modules, <<"sql", "host">>, <<"ldap", "host">>, <<"ldap", "result_attributes">>}

StringOptions == Plain \cup Enumerated \cup {Facility}
NumberOptions == Flags \cup {ModuleFail, Tls} \cup PlainNumber
KnownSections == {"global", "smtpd", "sql", "ldap"}
DaemonKeys    == {"lib_dir", "pid_file", "bind_ip", "bind_port", "listen_backlog", "foreground",
                  "user", "group", "max_childs", "spare_childs", "syslog_facility"}
ChildLimit    == 1024

\* Texts that the code sets on its own.
DefaultTexts ==
  {"/var/spool/spmfilter", "failover", "subtree",
   "Requested action aborted: local error in processing"}

ASSUME SettingsAssumption ==
  /\ Empty \in Texts /\ NULL # Freed
  /\ {NULL, Freed} \cap (Texts \cup Facilities \cup DefaultTexts) = {}
  /\ \A o \in Enumerated : {NULL, Freed} \cap Allowed(o) = {}
  /\ CodeKeys \subseteq Texts /\ Ints \subseteq Int /\ MaxCalls \in Nat
  /\ Integer \in [Texts -> Int] /\ Boolean \in [Texts -> {0, 1}]
  /\ \A t \in Texts : Items[t] \in Seq(Texts)

\* The lines of a file.
ASSUME FilesAssumption ==
  \A c \in Configs :
    /\ Len(c) \in Nat /\ DOMAIN c = 1..Len(c)
    /\ \A i \in DOMAIN c : /\ c[i].kind = "value" => c[i].text \in Texts
                           /\ c[i].kind = "section" => c[i].name # NULL

\* Keys of replies are no other options, and modules have sections of their own.
ASSUME KeysAssumption ==
  /\ \A k \in CodeKeys : <<"smtpd", k>> \notin StringOptions \cup NumberOptions
  /\ \A g \in GroupKeys : g[1] \notin KnownSections

VARIABLES
  config,    \* the file, which does not change
  line,      \* the line that is read next
  section,   \* clean_section
  strings, numbers, lists, codes, groups,  \* SMFSettings_T by types
  calls,     \* history: the setters that were called, and with what
  pc

options      == <<strings, numbers, lists, codes, groups>>
settingsVars == <<config, line, section, options, calls>>

(***************************************************************************)
(* smf_settings_new.                                                       *)
(***************************************************************************)
DefaultString(o) == IF o = Facility THEN "mail" ELSE NULL
DefaultNumbers ==
  [bind_port |-> 10025, listen_backlog |-> 511, max_childs |-> 10, spare_childs |-> 2,
   smtpd_timeout |-> 300, module_fail |-> 3, nexthop_fail_code |-> 451, add_header |-> 1,
   max_connections |-> 3]
DefaultNumber(o) == IF o[2] \in DOMAIN DefaultNumbers THEN DefaultNumbers[o[2]] ELSE 0

SettingsInit ==
  /\ config \in Configs /\ line = 1 /\ section = NULL
  /\ strings = [o \in StringOptions |-> DefaultString(o)]
  /\ numbers = [o \in NumberOptions |-> DefaultNumber(o)]
  /\ lists = [o \in ListOptions |-> <<>>]
  /\ codes = [k \in CodeKeys |-> NULL] /\ groups = [g \in GroupKeys |-> NULL]
  /\ calls = <<>>

(***************************************************************************)
(* The file.                                                               *)
(***************************************************************************)

\* A module is loaded when its name is read, from the lib_dir that is set by then; one that
\* cannot be loaded is in the list all the same.
Elements(o, t) == IF o = Modules THEN [i \in DOMAIN Items[t] |-> <<Items[t][i], strings[LibDir]>>]
                  ELSE Items[t]

\* The option's old value is freed; one that was freed before is freed twice, which may end the
\* process.
Frees(o) == pc' \in IF o \in StringOptions /\ strings[o] = Freed THEN {pc, "crashed"} ELSE {pc}

\* Mutant: the option is freed without a test, and taken for set.
AfterWrongUnset(p) == Freed

\* A wrong choice frees the old value and leaves its address.
AfterWrong(p) == IF p = NULL THEN NULL ELSE Freed

GlobalText(o, t) ==
  IF o \in Plain \/ t \in Allowed(o) THEN t
  ELSE IF o = Facility THEN strings[o] ELSE AfterWrong(strings[o])

NumberRange(o) == IF o = ModuleFail THEN 1..3 ELSE IF o = Tls THEN 0..2 ELSE Int

\* Mutant: flags are numbers.
GlobalNumberOnly(o, t) == IF Integer[t] \in NumberRange(o) THEN Integer[t] ELSE numbers[o]

GlobalNumber(o, t) ==
  IF o \in Flags THEN Boolean[t] ELSE IF Integer[t] \in NumberRange(o) THEN Integer[t] ELSE numbers[o]

StoreText(o, v)   == strings' = IF o \in StringOptions THEN [strings EXCEPT ![o] = v] ELSE strings
StoreNumber(o, v) == numbers' = IF o \in NumberOptions THEN [numbers EXCEPT ![o] = v] ELSE numbers

\* Mutant: a list that occurs again is added to the one before.
StoreListAppends(o, t) ==
  lists' = IF o \in ListOptions THEN [lists EXCEPT ![o] = @ \o Elements(o, t)] ELSE lists

StoreList(o, t) ==
  lists' = IF o \in ListOptions THEN [lists EXCEPT ![o] = Elements(o, t)] ELSE lists

\* Options of [global], of [sql], and of [ldap].
SetGlobal(o, t) ==
  /\ IF o \in StringOptions THEN StoreText(o, GlobalText(o, t)) /\ UNCHANGED <<numbers, lists>>
     ELSE IF o \in NumberOptions THEN StoreNumber(o, GlobalNumber(o, t)) /\ UNCHANGED <<strings, lists>>
     ELSE StoreList(o, t) /\ UNCHANGED <<strings, numbers>>
  /\ Frees(o) /\ UNCHANGED codes
SetSql(o, t) ==
  /\ StoreText(o, IF o # Driver \/ t \in Allowed(o) THEN t ELSE AfterWrong(strings[o]))
  /\ IF o \in NumberOptions THEN StoreNumber(o, Integer[t]) ELSE UNCHANGED numbers
  /\ StoreList(o, t) /\ Frees(o) /\ UNCHANGED codes
SetLdap(o, t) ==
  /\ StoreText(o, t)
  /\ IF o \in NumberOptions THEN StoreNumber(o, IF o \in Flags THEN Boolean[t] ELSE Integer[t])
     ELSE UNCHANGED numbers
  /\ StoreList(o, t) /\ Frees(o) /\ UNCHANGED codes

\* The text of a reply code is kept under the key as it is written.
SetSmtpd(o, t) ==
  /\ StoreText(o, t)
  /\ IF o \in NumberOptions THEN StoreNumber(o, Integer[t]) ELSE UNCHANGED numbers
  /\ codes' = IF o \notin StringOptions \cup NumberOptions /\ o[2] \in CodeKeys
                 /\ Integer[o[2]] \in 250..599
               THEN [codes EXCEPT ![o[2]] = t] ELSE codes
  /\ Frees(o) /\ UNCHANGED lists

SetConfigValue(o, t) ==
  IF t = Empty THEN UNCHANGED <<strings, numbers, lists, codes, pc>>
  ELSE \/ o[1] = "global" /\ SetGlobal(o, t)
       \/ o[1] = "sql"    /\ SetSql(o, t)
       \/ o[1] = "ldap"   /\ SetLdap(o, t)
       \/ o[1] = "smtpd"  /\ SetSmtpd(o, t)

Reading == pc = "parse" /\ line <= Len(config)
Advance == line' = line + 1 /\ UNCHANGED <<config, calls>>

\* Blank lines and comments; and lines with a syntax error, which are logged and counted, but
\* the count is never used.
SkipLine ==
  /\ Reading /\ config[line].kind \in {"comment", "error"}
  /\ Advance /\ UNCHANGED <<section, options, pc>>

\* "[name]".  sscanf does not store an empty name, so "[]" goes on with the section before.
SectionLine ==
  /\ Reading /\ config[line].kind = "section"
  /\ section' = IF config[line].name # Empty THEN config[line].name
                ELSE IF section = NULL THEN Empty ELSE section
  /\ Advance /\ UNCHANGED <<options, pc>>

\* "key = value" in a section of spmfilter or of a module.
ValueLine ==
  /\ Reading /\ config[line].kind = "value" /\ section # NULL
  /\ LET o == <<section, config[line].key>> IN
       IF section \in KnownSections
         THEN SetConfigValue(o, config[line].text) /\ UNCHANGED groups
         ELSE /\ groups' = [groups EXCEPT ![o] = config[line].text]
              /\ UNCHANGED <<strings, numbers, lists, codes, pc>>
  /\ Advance /\ UNCHANGED section

\* A value before the first section: strcmp(NULL, ...).
ValueTooEarly ==
  /\ Reading /\ config[line].kind = "value" /\ section = NULL
  /\ pc' = "crashed" /\ UNCHANGED settingsVars

(***************************************************************************)
(* The checks after the last line.                                         *)
(***************************************************************************)
Or(p, default) == IF p = NULL THEN default ELSE p

CheckGlobal ==
  /\ pc = "parse" /\ line > Len(config)
  /\ LET bad == strings[Engine] = NULL \/ numbers[MaxChilds] > ChildLimit IN
       /\ pc' = IF bad THEN "refused" ELSE "backend"
       /\ strings' = [strings EXCEPT ![QueueDir] = Or(@, "/var/spool/spmfilter"),
                                     ![BackendConnection]  = IF bad THEN @ ELSE Or(@, "failover")]
  /\ UNCHANGED <<config, line, section, numbers, lists, codes, groups, calls>>

\* What strcmp may find behind a pointer.
Seen(p) == IF p = Freed THEN Texts ELSE {p}

\* Mutant: the host is asked for with mysql only.
SqlIncompleteMysql(d) ==
  \/ d = NULL \/ strings[<<"sql", "name">>] = NULL
  \/ d = "mysql" /\ lists[<<"sql", "host">>] = <<>>

SqlIncomplete(d) ==
  \/ d = NULL \/ strings[<<"sql", "name">>] = NULL
  \/ d \in {"mysql", "postgresql"} /\ lists[<<"sql", "host">>] = <<>>

PortOr(o, default) == numbers' = [numbers EXCEPT ![o] = IF @ = 0 THEN default ELSE @]

CheckSql(d) ==
  IF SqlIncomplete(d) THEN pc' = "refused" /\ UNCHANGED <<strings, numbers>> ELSE
  /\ \/ d = "mysql"      /\ PortOr(<<"sql", "port">>, 3306)
     \/ d = "postgresql" /\ PortOr(<<"sql", "port">>, 5432)
     \/ d \notin {"mysql", "postgresql"} /\ UNCHANGED numbers
  /\ pc' = "failmsg" /\ UNCHANGED strings

\* The base gets its default even if the scope is wrong.
CheckLdap ==
  /\ PortOr(<<"ldap", "port">>, 389)
  /\ strings' = [strings EXCEPT ![<<"ldap", "base">>] = Or(@, Empty), ![Scope] = Or(@, "subtree")]
  /\ pc' = IF strings[Scope] \in {NULL, "base", "onlevel", "subtree"} THEN "failmsg" ELSE "refused"

CheckBackend ==
  /\ pc = "backend"
  /\ \/ \E b \in Seen(strings[Backend]), d \in Seen(strings[Driver]) :
          \/ b = "sql"  /\ CheckSql(d)
          \/ b = "ldap" /\ CheckLdap
          \/ b \notin {"sql", "ldap"} /\ pc' = "failmsg" /\ UNCHANGED <<strings, numbers>>
     \/ /\ Freed \in {strings[Backend], strings[Driver]} /\ strings[Backend] \in {"sql", Freed}
        /\ pc' = "crashed" /\ UNCHANGED <<strings, numbers>>
  /\ UNCHANGED <<config, line, section, lists, codes, groups, calls>>

CheckSmtpd ==
  /\ pc = "failmsg" /\ pc' = "parsed"
  /\ strings' = [strings EXCEPT
       ![FailMsg] = Or(@, "Requested action aborted: local error in processing")]
  /\ UNCHANGED <<config, line, section, numbers, lists, codes, groups, calls>>

(***************************************************************************)
(* smf_settings_set_..., which take what the file may not say.             *)
(***************************************************************************)
Called(o, v) == calls' = Append(calls, [option |-> o, value |-> v]) /\ UNCHANGED <<config, line, section>>

CallText(o, t) ==
  /\ StoreText(o, t) /\ Frees(o) /\ Called(o, t) /\ UNCHANGED <<numbers, lists, codes, groups>>
CallNumber(o, n) ==
  /\ StoreNumber(o, n) /\ Called(o, n) /\ UNCHANGED <<strings, lists, codes, groups, pc>>

\* Lists can only get longer.
CallAdd(o, v) ==
  /\ lists' = [lists EXCEPT ![o] = Append(@, v)]
  /\ Called(o, v) /\ UNCHANGED <<strings, numbers, codes, groups, pc>>

Call(o) ==
  /\ o \in Touched /\ Len(calls) < MaxCalls
  /\ \/ o \in StringOptions /\ (\E t \in Texts : CallText(o, t))
     \/ o \in NumberOptions /\ (\E n \in Ints : CallNumber(o, n))
     \/ o \in ListOptions   /\ (\E t \in Texts : CallAdd(o, t))

SetDebug(n) == n \in {0, 1} /\ CallNumber(Debug, n)
SetQueueDir(t) ==
  /\ QueueDir \in Touched /\ Len(calls) < MaxCalls
  /\ t \in Directories /\ CallText(QueueDir, t)
AddModule(t) ==
  /\ Modules \in Touched /\ Len(calls) < MaxCalls
  /\ CallAdd(Modules, <<t, strings[LibDir]>>)
SetDelivery ==
  \E o \in StringOptions \cup NumberOptions :
    o[1] = "global" /\ o[2] \notin DaemonKeys \cup {"debug", "queue_dir"} /\ Call(o)
SetDaemon == \E o \in In("global", DaemonKeys \ {"syslog_facility"}) : Call(o)

\* An unknown facility is ignored.
SetSyslogFacility(t) ==
  Facility \in Touched /\ Len(calls) < MaxCalls /\ t \in Facilities /\ CallText(Facility, t)

SetSmtpCode(k, t) ==
  /\ Len(calls) < MaxCalls /\ codes' = [codes EXCEPT ![k] = t]
  /\ Called(<<"smtpd", k>>, t) /\ UNCHANGED <<strings, numbers, lists, groups, pc>>
SetReplies == \E o \in Touched : o[1] = "smtpd" /\ Call(o)
SetSqlOption  == \E o \in Touched : o[1] = "sql" /\ Call(o)
SetLdapOption == \E o \in Touched : o[1] = "ldap" /\ Call(o)

\* smf_settings_group_get_integer and _list read the text even if there is none; _boolean and
\* smf_settings_group_get do not.
GroupGet(g, as) ==
  /\ as \in {"integer", "list"} /\ groups[g] = NULL
  /\ pc' = "missing" /\ UNCHANGED settingsVars

Setters ==
  \/ SetDelivery \/ SetDaemon \/ SetReplies \/ SetSqlOption \/ SetLdapOption
  \/ \E t \in Texts : SetQueueDir(t) \/ AddModule(t) \/ SetSyslogFacility(t)
  \/ \E k \in CodeKeys, t \in Texts : SetSmtpCode(k, t)
  \/ Debug \in Touched /\ Len(calls) < MaxCalls /\ \E n \in Ints : SetDebug(n)

\* smf_settings_free frees a dangling value again.
Dangling == \E o \in StringOptions : strings[o] = Freed

(***************************************************************************)
(* What the settings should be: a reference that does not run the parser.  *)
(***************************************************************************)
SettingsTypeOK ==
  /\ line \in 1..Len(config) + 1
  /\ strings \in [StringOptions -> Texts \cup Facilities \cup DefaultTexts \cup {NULL, Freed}]
  /\ DOMAIN numbers = NumberOptions /\ \A o \in NumberOptions : numbers[o] \in Int
  /\ numbers[Debug] \in {0, 1}
  /\ DOMAIN lists = ListOptions
  /\ codes \in [CodeKeys -> Texts \cup {NULL}] /\ groups \in [GroupKeys -> Texts \cup {NULL}]

\* The section of a line is that of the last section line with a name.
SectionOf(i) ==
  LET named == {j \in 1..i - 1 : config[j].kind = "section" /\ config[j].name # Empty} IN
  IF named = {} THEN Empty ELSE config[Max(named)].name

\* A request the file may make of an option.
Acceptable(o, t) ==
  CASE o \in Enumerated \cup {Facility} -> t \in Allowed(o)
    [] o = ModuleFail -> Integer[t] \in 1..3
    [] o = Tls        -> Integer[t] \in 0..2
    [] OTHER -> TRUE
Given(o)    == {i \in 1..line - 1 : config[i].kind = "value" /\ <<SectionOf(i), config[i].key>> = o
                                    /\ config[i].text # Empty}
Accepted(o) == {i \in Given(o) : Acceptable(o, config[i].text)}
CallsOf(o)  == {i \in DOMAIN calls : calls[i].option = o}

\* The value of the last request for o, where Read(i) is what line i says.
Latest(o, Read(_), default) ==
  IF CallsOf(o) # {} THEN calls[Max(CallsOf(o))].value
  ELSE IF Accepted(o) # {} THEN Read(Max(Accepted(o))) ELSE default

Late(o) == CASE o = QueueDir -> "/var/spool/spmfilter" [] o = BackendConnection -> "failover"
             [] o = Scope -> "subtree" [] o = <<"ldap", "base">> -> Empty
             [] o = FailMsg -> "Requested action aborted: local error in processing"
             [] OTHER -> NULL
LatePort(o) == CASE o = <<"sql", "port">> -> {0, 3306, 5432} [] o = <<"ldap", "port">> -> {0, 389}
                 [] OTHER -> {0}

\* A text is the last one that was asked for and is allowed, or else the default; after a wrong
\* choice that followed another one it dangles until the next request.
TextsRight ==
  \A o \in StringOptions :
    LET text(i) == config[i].text
        latest  == Latest(o, text, DefaultString(o)) IN
    \/ strings[o] = latest
    \/ (latest = NULL /\ strings[o] = Late(o))
    \/ /\ strings[o] = Freed /\ o \in Enumerated /\ CallsOf(o) = {}
       /\ Accepted(o) # {} /\ Max(Given(o)) > Max(Accepted(o))

NumbersRight ==
  \A o \in NumberOptions :
    LET number(i) == IF o \in Flags THEN Boolean[config[i].text] ELSE Integer[config[i].text]
        latest    == Latest(o, number, DefaultNumber(o)) IN
    numbers[o] = latest \/ (latest = 0 /\ numbers[o] \in LatePort(o))

\* Modules come from the lib_dir named last before them; calls add to a list.
LibDirAt(i) ==
  LET before == {j \in Given(LibDir) : j < i} IN
  IF before = {} THEN NULL ELSE config[Max(before)].text
ListsRight ==
  \A o \in ListOptions :
    LET file     == IF Given(o) = {} THEN <<>> ELSE Items[config[Max(Given(o))].text]
        place(i) == Len(file) + Cardinality({j \in CallsOf(o) : j <= i}) IN
    /\ Len(lists[o]) = Len(file) + Cardinality(CallsOf(o))
    /\ \A i \in DOMAIN file :
         lists[o][i] = IF o = Modules THEN <<file[i], LibDirAt(Max(Given(o)))>> ELSE file[i]
    /\ \A i \in CallsOf(o) : lists[o][place(i)] = calls[i].value

\* Texts of replies; and options of modules, which may be empty.
CodesRight ==
  \A k \in CodeKeys :
    LET text(i) == config[i].text
        o       == <<"smtpd", k>> IN
    codes[k] = IF Integer[k] \in 250..599 \/ CallsOf(o) # {} THEN Latest(o, text, NULL) ELSE NULL
GroupsRight ==
  \A g \in GroupKeys :
    LET given == {i \in 1..line - 1 : config[i].kind = "value" /\ <<SectionOf(i), config[i].key>> = g} IN
    groups[g] = IF given = {} THEN NULL ELSE config[Max(given)].text

\* smf_settings_parse_config and the setters leave each option as the last request that was
\* allowed, in whatever order sections, keys and calls come.
LastRequestCounts ==
  pc # "crashed" => TextsRight /\ NumbersRight /\ ListsRight /\ CodesRight /\ GroupsRight
=============================================================================
