---------------------------- MODULE StartupProofs ----------------------------
(***************************************************************************)
(* Theorems about Startup, for every set of configuration files and texts: *)
(* a daemon that serves is prepared, and its caller is told nothing wrong; *)
(* and for every sequence of setters: each setting is the last request     *)
(* that was allowed, read by a reference that does not run the parser, all *)
(* variables have their types, and why settings may break the process down.*)
(***************************************************************************)
EXTENDS Startup, FiniteSetTheorems, SequenceTheorems, WellFoundedInduction, TLAPS

(***************************************************************************)
(* The inductive invariant.                                                *)
(***************************************************************************)

\* Up to the first fork() there is one process.
Early      == {"options", "parse", "backend", "failmsg", "parsed", "refused", "connect", "queue_dir",
               "engine", "load", "listen", "background"}
Backgrounds == {"setsid", "fork2", "chdir"}
Ready      == {"pid", "user", "ipc", "serving"}

Alone == self = 1 /\ leaving = {} /\ status[1] = "none"

ProcessTypes ==
  /\ self \in Processes /\ leaving \subseteq 1..self - 1
  /\ status \in [Processes -> {"none", "success", "failure"}]

\* Who the process is, along the way into the background.
ForkInv ==
  /\ pc \in Early => Alone /\ leader = 0 /\ pid_file = 0
  /\ pc \in Backgrounds => ~Foreground /\ pid_file = 0
  /\ pc = "setsid" => self \in {1, 2} /\ leader = 0
  /\ pc = "fork2" => self \in {1, 2} /\ leader = self
  /\ pc = "chdir" => self = 3 /\ leader \in {1, 2}
  /\ pc \in Ready /\ AsStarted => IF Foreground THEN Alone ELSE Detached
  /\ pc = "pid" => pid_file = 0
  /\ pc \in Ready => pid_file \in {0, self}

\* What is held, and where.
ResourceInv ==
  /\ pc \in {"background"} \cup Backgrounds \cup Ready => listening
  /\ shared => pc \in {"serving", "crashed", "missing"}
  /\ pc = "serving" => shared

ToldInv ==
  /\ status[1] = "failure" => (pc = "ended" /\ self = 1 /\ ~listening /\ ~shared)
  /\ leaving # {} => status[1] # "failure"

SettingsTypes ==
  /\ config \in Configs /\ line \in Nat \ {0}
  /\ DOMAIN strings = StringOptions /\ numbers \in [NumberOptions -> Int]
  /\ \E V : calls \in Seq(V)
  /\ pc \in {"options", "parse", "backend"} =>
       \A o \in Enumerated : strings[o] \in Allowed(o) \cup {NULL, Freed}

\* What is known of the settings after each check, until a module changes them.
Untouched   == pc = "serving" => AsStarted
Bound       == {"background"} \cup Backgrounds \cup Ready
AfterConfig == {"parsed", "connect", "queue_dir", "engine", "load", "listen"} \cup Bound

Connected == numbers[MaxChilds] <= ChildLimit /\ strings[BackendConnection] # NULL

UsableInv ==
  Untouched =>
    /\ pc \in {"backend", "failmsg"} \cup AfterConfig => Connected
    /\ pc \in {"failmsg"} \cup AfterConfig => SqlUsable /\ LdapUsable
    /\ pc \in AfterConfig => strings[FailMsg] # NULL
    /\ pc \in {"engine", "load", "listen"} \cup Bound => strings[QueueDir] \in Directories
    /\ pc \in {"listen"} \cup Bound => strings[Engine] = "smtpd"
    /\ pc \in {"ipc", "serving"} /\ Switches => <<uid, gid>> = <<strings[User], strings[Group]>>

ProcessInv == ProcessTypes /\ ForkInv /\ ResourceInv /\ ToldInv
IndInv     == SettingsTypes /\ ProcessInv /\ UsableInv

(***************************************************************************)
(* The settings.                                                           *)
(***************************************************************************)
Lines == SkipLine \/ SectionLine \/ ValueLine \/ ValueTooEarly

\* The kinds of options do not overlap.
LEMMA Kinds ==
  /\ Plain \cap Enumerated = {} /\ Facility \notin Plain \cup Enumerated
  /\ StringOptions \cap NumberOptions = {}
  /\ Debug \in NumberOptions /\ Enumerated \subseteq StringOptions
  /\ {MaxChilds, <<"sql", "port">>, <<"ldap", "port">>, <<"global", "foreground">>}
       \subseteq NumberOptions \ {Debug}
  /\ {Backend, BackendConnection, Driver, QueueDir, Engine, FailMsg, Scope, <<"sql", "name">>, User, Group}
       \subseteq StringOptions
<1>1. Plain \cap Enumerated = {} /\ Facility \notin Plain \cup Enumerated
      BY DEF Plain, Enumerated, In, Backend, BackendConnection, Driver, Facility
<1>2. StringOptions \cap NumberOptions = {}
      BY DEF StringOptions, NumberOptions, Plain, Enumerated, In, Backend, BackendConnection,
         Driver,
             Facility, Flags, PlainNumber, ModuleFail, Tls
<1>3. Debug \in NumberOptions /\ Enumerated \subseteq StringOptions
      BY DEF StringOptions, NumberOptions, Flags, In, Debug
<1>4. {MaxChilds, <<"sql", "port">>, <<"ldap", "port">>, <<"global", "foreground">>}
        \subseteq NumberOptions \ {Debug}
      BY DEF NumberOptions, Flags, PlainNumber, In, Debug, MaxChilds
<1>5. {Backend, BackendConnection, Driver, QueueDir, Engine, FailMsg, Scope, <<"sql", "name">>, User, Group}
        \subseteq StringOptions
      BY DEF StringOptions, Plain, Enumerated, In, Backend, BackendConnection, Driver, QueueDir,
         Engine,
             FailMsg, Scope, User, Group
<1>6. QED BY <1>1, <1>2, <1>3, <1>4, <1>5

\* What is taken for granted of texts and files.
LEMMA Readings ==
  /\ \A t \in Texts : Integer[t] \in Int /\ Boolean[t] \in Int
  /\ \A c \in Configs : Len(c) \in Nat /\ \A i \in 1..Len(c) : c[i].kind = "value" => c[i].text \in Texts
  /\ NULL # Freed /\ \A o \in Enumerated : {NULL, Freed} \cap Allowed(o) = {}
<1>1. \A t \in Texts : Integer[t] \in Int /\ Boolean[t] \in Int
      BY SettingsAssumption
<1>2. \A c \in Configs : Len(c) \in Nat /\ \A i \in 1..Len(c) : c[i].kind = "value" => c[i].text \in Texts
      BY FilesAssumption
<1>3. QED BY <1>1, <1>2, SettingsAssumption

\* Storing a value keeps the types.
LEMMA StoreTyped ==
  ASSUME NEW o, NEW v, DOMAIN strings = StringOptions, numbers \in [NumberOptions -> Int]
  PROVE  /\ StoreText(o, v) => DOMAIN strings' = StringOptions
         /\ StoreText(o, v) => \A e \in StringOptions : strings'[e] = IF e = o THEN v ELSE strings[e]
         /\ StoreNumber(o, v) /\ v \in Int => numbers' \in [NumberOptions -> Int]
         /\ numbers' = numbers => numbers' \in [NumberOptions -> Int]
BY DEF StoreText, StoreNumber

\* A line of the file, and the values that a key may take.
LEMMA LineTyped ==
  ASSUME SettingsTypes, pc = "parse", Lines
  PROVE  SettingsTypes' /\ pc' \in {"parse", "crashed"}
<1> DEFINE l == config[line]
           o == <<section, l.key>>
<1> USE Kinds
<1>1. CASE SkipLine
      BY <1>1 DEF SettingsTypes, SkipLine, Reading, Advance, options
<1>2. CASE SectionLine
      BY <1>2 DEF SettingsTypes, SectionLine, Reading, Advance, options
<1>3. CASE ValueTooEarly
      BY <1>3 DEF SettingsTypes, ValueTooEarly, Reading, settingsVars, options
<1>4. CASE ValueLine
  <2> /\ config' = config /\ line' = line + 1 /\ calls' = calls
      /\ section # NULL /\ l.kind = "value" /\ line <= Len(config)
      BY <1>4 DEF ValueLine, Advance, Reading
  <2>1. l.text \in Texts /\ Integer[l.text] \in Int /\ Boolean[l.text] \in Int
        BY Readings DEF SettingsTypes
  <2>2. CASE section \notin KnownSections \/ l.text = Empty
        BY <1>4, <2>2 DEF ValueLine, SetConfigValue, SettingsTypes
  <2>3. ASSUME DOMAIN strings' = StringOptions, numbers' \in [NumberOptions -> Int],
               pc' \in {"parse", "crashed"},
               \A e \in Enumerated : strings'[e] \in Allowed(e) \cup {NULL, Freed}
        PROVE  SettingsTypes' /\ pc' \in {"parse", "crashed"}
        BY <2>3 DEF SettingsTypes
  <2> SUFFICES ASSUME section \in KnownSections, l.text # Empty
               PROVE  /\ DOMAIN strings' = StringOptions /\ numbers' \in [NumberOptions -> Int]
                      /\ pc' \in {"parse", "crashed"}
                      /\ \A e \in Enumerated : strings'[e] \in Allowed(e) \cup {NULL, Freed}
        BY <2>2, <2>3
  <2> SetConfigValue(o, l.text)
      BY <1>4 DEF ValueLine
  <2> /\ DOMAIN strings = StringOptions /\ numbers \in [NumberOptions -> Int]
      /\ \A e \in Enumerated : strings[e] \in Allowed(e) \cup {NULL, Freed}
      /\ o[1] = section
      BY DEF SettingsTypes
  <2> HIDE DEF o
  <2>4. CASE section = "global"
    <3>1. SetGlobal(o, l.text)
          BY <2>4 DEF SetConfigValue
    <3>2. CASE o \in StringOptions
      <4>1. StoreText(o, GlobalText(o, l.text)) /\ numbers' = numbers /\ pc' \in {"parse", "crashed"}
            BY <3>1, <3>2 DEF SetGlobal, Frees
      <4>2. o \in Enumerated => GlobalText(o, l.text) \in Allowed(o) \cup {NULL, Freed}
            BY DEF GlobalText, AfterWrong
      <4>3. QED BY <4>1, <4>2, StoreTyped
    <3>3. CASE o \notin StringOptions
      <4>1. strings' = strings /\ pc' \in {"parse", "crashed"}
            BY <3>1, <3>3 DEF SetGlobal, Frees, StoreList
      <4>2. o \in NumberOptions => StoreNumber(o, GlobalNumber(o, l.text)) /\ GlobalNumber(o, l.text) \in Int
            BY <2>1, <3>1, <3>3 DEF SetGlobal, GlobalNumber
      <4>3. o \notin NumberOptions => numbers' = numbers
            BY <3>1, <3>3 DEF SetGlobal
      <4>4. QED BY <4>1, <4>2, <4>3, StoreTyped
    <3>4. QED BY <3>2, <3>3
  <2>5. CASE section = "sql"
    <3>1. SetSql(o, l.text)
          BY <2>5 DEF SetConfigValue
    <3> DEFINE v == IF o # Driver \/ l.text \in Allowed(o) THEN l.text ELSE AfterWrong(strings[o])
    <3>2. o \in Enumerated => o = Driver /\ v \in Allowed(o) \cup {NULL, Freed}
          BY <2>5 DEF Enumerated, Backend, BackendConnection, AfterWrong
    <3>3. StoreText(o, v) /\ pc' \in {"parse", "crashed"}
          BY <3>1 DEF SetSql, Frees
    <3>4. numbers' \in [NumberOptions -> Int]
          BY <2>1, <3>1, StoreTyped DEF SetSql
    <3> HIDE DEF v
    <3>5. /\ DOMAIN strings' = StringOptions
          /\ \A e \in StringOptions : strings'[e] = IF e = o THEN v ELSE strings[e]
          BY <3>3, StoreTyped
    <3>6. QED BY <3>2, <3>3, <3>4, <3>5
  <2>6. CASE section = "ldap"
    <3>1. SetLdap(o, l.text)
          BY <2>6 DEF SetConfigValue
    <3>2. o \notin Enumerated
          BY <2>6 DEF Enumerated, Backend, BackendConnection, Driver
    <3>3. StoreText(o, l.text) /\ pc' \in {"parse", "crashed"}
          BY <3>1 DEF SetLdap, Frees
    <3>4. numbers' \in [NumberOptions -> Int]
          BY <2>1, <3>1, StoreTyped DEF SetLdap
    <3>5. /\ DOMAIN strings' = StringOptions
          /\ \A e \in StringOptions : strings'[e] = IF e = o THEN l.text ELSE strings[e]
          BY <3>3, StoreTyped
    <3>6. QED BY <3>2, <3>3, <3>4, <3>5
  <2>7. CASE section = "smtpd"
    <3>1. SetSmtpd(o, l.text)
          BY <2>7 DEF SetConfigValue
    <3>2. o \notin Enumerated
          BY <2>7 DEF Enumerated, Backend, BackendConnection, Driver
    <3>3. StoreText(o, l.text) /\ pc' \in {"parse", "crashed"}
          BY <3>1 DEF SetSmtpd, Frees
    <3>4. numbers' \in [NumberOptions -> Int]
          BY <2>1, <3>1, StoreTyped DEF SetSmtpd
    <3>5. /\ DOMAIN strings' = StringOptions
          /\ \A e \in StringOptions : strings'[e] = IF e = o THEN l.text ELSE strings[e]
          BY <3>3, StoreTyped
    <3>6. QED BY <3>2, <3>3, <3>4, <3>5
  <2>8. QED BY <2>4, <2>5, <2>6, <2>7 DEF KnownSections
<1>5. QED BY <1>1, <1>2, <1>3, <1>4 DEF Lines

\* The history grows by the call, so that only calls of smf_settings_set_debug leave AsStarted true.
LEMMA CalledHistory ==
  ASSUME SettingsTypes, NEW o, NEW v, Called(o, v)
  PROVE  /\ config' = config /\ line' = line /\ \E V : calls' \in Seq(V)
         /\ AsStarted' => AsStarted /\ o = Debug
<1> DEFINE c == [option |-> o, value |-> v]
<1>1. PICK V : calls \in Seq(V)
      BY DEF SettingsTypes
<1>2. calls' = Append(calls, c) /\ config' = config /\ line' = line
      BY DEF Called
<1>3. calls \in Seq(V \cup {c}) /\ c \in V \cup {c}
      BY <1>1
<1>4. calls' \in Seq(V \cup {c})
      BY <1>2, <1>3
<1>5. /\ DOMAIN calls' = 1..Len(calls) + 1 /\ calls'[Len(calls) + 1] = c
      /\ \A i \in DOMAIN calls : i \in DOMAIN calls' /\ calls'[i] = calls[i]
      BY <1>2, <1>3
<1>6. Len(calls) + 1 \in DOMAIN calls'
      BY <1>1, <1>5
<1>7. QED BY <1>2, <1>4, <1>5, <1>6 DEF AsStarted

\* The three ways to set an option.
LEMMA CallTyped ==
  ASSUME SettingsTypes, pc = "serving", NEW o,
         \/ \E t : CallText(o, t)
         \/ \E n \in Int : CallNumber(o, n)
         \/ \E t : CallAdd(o, t)
  PROVE  /\ SettingsTypes' /\ pc' \in {"serving", "crashed"}
         /\ AsStarted' => AsStarted /\ o = Debug
<1>1. CASE \E t : CallText(o, t)
  <2>1. PICK t : CallText(o, t)
        BY <1>1
  <2>2. StoreText(o, t) /\ Called(o, t) /\ numbers' = numbers /\ pc' \in {"serving", "crashed"}
        BY <2>1 DEF CallText, Frees
  <2>3. QED BY <2>2, CalledHistory, StoreTyped DEF SettingsTypes
<1>2. CASE \E n \in Int : CallNumber(o, n)
  <2>1. PICK n \in Int : CallNumber(o, n)
        BY <1>2
  <2>2. StoreNumber(o, n) /\ Called(o, n) /\ strings' = strings /\ pc' = pc
        BY <2>1 DEF CallNumber
  <2>3. QED BY <2>2, CalledHistory, StoreTyped DEF SettingsTypes
<1>3. CASE \E t : CallAdd(o, t)
  <2>1. PICK t : CallAdd(o, t)
        BY <1>3
  <2>2. Called(o, t) /\ strings' = strings /\ numbers' = numbers /\ pc' = pc
        BY <2>1 DEF CallAdd
  <2>3. QED BY <2>2, CalledHistory DEF SettingsTypes
<1>4. QED BY <1>1, <1>2, <1>3

\* Modules may change any setting, but then the daemon's copy is no longer AsStarted.
LEMMA SettersTyped ==
  ASSUME SettingsTypes, pc = "serving", Setters
  PROVE  /\ SettingsTypes' /\ pc' \in {"serving", "crashed"}
         /\ AsStarted' => /\ AsStarted /\ strings' = strings /\ lists' = lists
                          /\ \A q \in NumberOptions \ {Debug} : numbers'[q] = numbers[q]
<1> DEFINE Goal == /\ SettingsTypes' /\ pc' \in {"serving", "crashed"}
                   /\ AsStarted' => /\ AsStarted /\ strings' = strings /\ lists' = lists
                                    /\ \A q \in NumberOptions \ {Debug} : numbers'[q] = numbers[q]
<1>1. ASSUME NEW o, o # Debug,
             \/ \E t : CallText(o, t)
             \/ \E n \in Int : CallNumber(o, n)
             \/ \E t : CallAdd(o, t)
      PROVE  Goal
      BY <1>1, CallTyped
<1>2. ASSUME NEW o, o # Debug, Call(o) PROVE Goal
      BY <1>1, <1>2, SettingsAssumption DEF Call
<1>3. ASSUME SetDelivery \/ SetDaemon \/ SetReplies \/ SetSqlOption \/ SetLdapOption PROVE Goal
  <2>1. \E o : o # Debug /\ Call(o)
        BY <1>3 DEF SetDelivery, SetDaemon, SetReplies, SetSqlOption, SetLdapOption, Debug, In,
           DaemonKeys
  <2>2. QED BY <1>2, <2>1
<1>4. ASSUME NEW t \in Texts, SetQueueDir(t) \/ AddModule(t) \/ SetSyslogFacility(t) PROVE Goal
  <2>1. QueueDir # Debug /\ Modules # Debug /\ Facility # Debug
        BY DEF QueueDir, Modules, Facility, Debug
  <2>2. QED BY <1>1, <1>4, <2>1 DEF SetQueueDir, AddModule, SetSyslogFacility
<1>5. ASSUME NEW k \in CodeKeys, NEW t \in Texts, SetSmtpCode(k, t) PROVE Goal
  <2>1. /\ Called(<<"smtpd", k>>, t) /\ strings' = strings /\ lists' = lists /\ numbers' = numbers /\ pc' = pc
        /\ <<"smtpd", k>> # Debug
        BY <1>5 DEF SetSmtpCode, Debug
  <2>2. QED BY <2>1, CalledHistory DEF SettingsTypes
<1>6. ASSUME NEW n \in Ints, SetDebug(n) PROVE Goal
  <2>1. n \in Int /\ CallNumber(Debug, n)
        BY <1>6, SettingsAssumption DEF SetDebug
  <2>2. strings' = strings /\ lists' = lists /\ StoreNumber(Debug, n)
        BY <2>1 DEF CallNumber
  <2>3. \A q \in NumberOptions \ {Debug} : numbers'[q] = numbers[q]
        BY <2>2 DEF StoreNumber, SettingsTypes
  <2>4. QED BY <2>1, <2>2, <2>3, CallTyped
<1>7. QED BY <1>3, <1>4, <1>5, <1>6 DEF Setters

(***************************************************************************)
(* The checks after the last line.                                         *)
(***************************************************************************)
\* The options that the checks read are different ones.
LEMMA Distinct ==
  /\ {QueueDir, BackendConnection} \cap {Backend, Driver, Scope, FailMsg, Engine, <<"sql", "name">>} = {}
  /\ QueueDir # BackendConnection
  /\ {Scope, <<"ldap", "base">>} \cap {Backend, Driver, Engine, FailMsg, QueueDir, <<"sql", "name">>} = {}
  /\ Scope # <<"ldap", "base">> /\ BackendConnection # <<"ldap", "base">>
  /\ FailMsg \notin {Backend, Driver, Engine, <<"sql", "name">>}
  /\ MaxChilds \notin {<<"sql", "port">>, <<"ldap", "port">>} /\ <<"sql", "port">> # <<"ldap", "port">>
BY DEF QueueDir, BackendConnection, Backend, Driver, Scope, FailMsg, Engine, MaxChilds

\* No text of the code is NULL or dangles.
LEMMA OwnTexts ==
  /\ {NULL, Freed} \cap {"/var/spool/spmfilter", "failover", "subtree",
                         "Requested action aborted: local error in processing"} = {}
  /\ {NULL, Freed} \cap {"sql", "ldap"} = {} /\ {NULL, Freed} \cap Allowed(Driver) = {}
<1>1. Backend \in Enumerated /\ Driver \in Enumerated /\ Allowed(Backend) = {"sql", "ldap"}
      BY DEF Enumerated, Allowed
<1>2. QED BY <1>1, SettingsAssumption DEF DefaultTexts

\* The engine, the number of children, and the defaults of two options.
LEMMA GlobalChecked ==
  ASSUME SettingsTypes, CheckGlobal
  PROVE  SettingsTypes' /\ pc' \in {"refused", "backend"} /\ (pc' = "backend" => Connected')
<1> USE Kinds, Distinct, OwnTexts DEF CheckGlobal
<1>1. numbers[MaxChilds] \in Int
      BY DEF SettingsTypes
<1>2. pc' \in {"refused", "backend"} /\ numbers' = numbers
      OBVIOUS
<1>3. pc' = "backend" => numbers[MaxChilds] <= ChildLimit
      BY <1>1 DEF ChildLimit
<1>4. /\ DOMAIN strings' = StringOptions
      /\ \A o \in StringOptions \ {QueueDir, BackendConnection} : strings'[o] = strings[o]
      /\ pc' = "backend" => strings'[BackendConnection] = Or(strings[BackendConnection], "failover")
      /\ strings'[BackendConnection] \in {strings[BackendConnection], "failover"}
      BY DEF SettingsTypes, Or
<1>5. \A o \in Enumerated : o # QueueDir
      BY DEF Enumerated, Backend, BackendConnection, Driver, QueueDir
<1>6. "failover" \in Allowed(BackendConnection)
      BY DEF Allowed, Backend, BackendConnection
<1>7. SettingsTypes'
      BY <1>2, <1>4, <1>5, <1>6 DEF SettingsTypes
<1>8. pc' = "backend" => Connected'
      BY <1>2, <1>3, <1>4 DEF Connected, Or
<1>9. QED BY <1>2, <1>7, <1>8

\* A port that is 0 gets its default.
LEMMA PortTyped ==
  ASSUME numbers \in [NumberOptions -> Int], NEW o \in NumberOptions, NEW n \in Int \ {0}, PortOr(o, n)
  PROVE  /\ numbers' \in [NumberOptions -> Int] /\ numbers'[o] # 0
         /\ \A q \in NumberOptions \ {o} : numbers'[q] = numbers[q]
BY DEF PortOr

\* What the lookups need is there.
LEMMA BackendChecked ==
  ASSUME SettingsTypes, Connected, CheckBackend
  PROVE  /\ SettingsTypes' /\ Connected' /\ pc' \in {"failmsg", "refused", "crashed"}
         /\ pc' = "failmsg" => SqlUsable' /\ LdapUsable'
<1> DEFINE Goal == /\ SettingsTypes' /\ Connected' /\ pc' \in {"failmsg", "refused", "crashed"}
                   /\ pc' = "failmsg" => SqlUsable' /\ LdapUsable'
<1> USE Kinds, Distinct, OwnTexts
<1> /\ pc = "backend" /\ DOMAIN strings = StringOptions /\ numbers \in [NumberOptions -> Int]
    /\ strings[Driver] \in Allowed(Driver) \cup {NULL, Freed}
    /\ UNCHANGED <<config, line, lists, calls>>
    BY DEF CheckBackend, SettingsTypes, Enumerated
<1>1. CASE pc' = "crashed" /\ UNCHANGED <<strings, numbers>>
      BY <1>1 DEF SettingsTypes, Connected
<1>2. ASSUME NEW b \in Seen(strings[Backend]), NEW d \in Seen(strings[Driver]), b = "sql", CheckSql(d)
      PROVE  Goal
  <2>1. CASE SqlIncomplete(d)
        BY <1>2, <2>1 DEF CheckSql, SettingsTypes, Connected
  <2>2. CASE ~SqlIncomplete(d)
    <3>1. pc' = "failmsg" /\ strings' = strings
          BY <1>2, <2>2 DEF CheckSql
    <3>2. /\ numbers' \in [NumberOptions -> Int]
          /\ numbers'[MaxChilds] = numbers[MaxChilds]
          /\ d \in {"mysql", "postgresql"} => numbers'[<<"sql", "port">>] # 0
          BY <1>2, <2>2, PortTyped DEF CheckSql
    <3>3. strings[Backend] # "ldap"
          BY <1>2 DEF Seen
    <3>4. /\ strings[Driver] # Freed => d = strings[Driver]
          /\ d # NULL /\ strings[<<"sql", "name">>] # NULL
          /\ d \in {"mysql", "postgresql"} => lists[<<"sql", "host">>] # <<>>
          BY <2>2 DEF Seen, SqlIncomplete
    <3>5. Allowed(Driver) = {"mysql", "postgresql", "sqlite"}
          BY DEF Allowed, Backend, BackendConnection, Driver
    <3>6. SqlUsable' /\ LdapUsable'
          BY <3>1, <3>2, <3>3, <3>4, <3>5 DEF SqlUsable, LdapUsable
    <3>7. QED BY <3>1, <3>2, <3>6 DEF SettingsTypes, Connected
  <2>3. QED BY <2>1, <2>2
<1>3. ASSUME NEW b \in Seen(strings[Backend]), b = "ldap", CheckLdap
      PROVE  Goal
  <2>1. /\ pc' \in {"failmsg", "refused"}
        /\ pc' = "failmsg" => strings[Scope] \in {NULL, "base", "onlevel", "subtree"}
        BY <1>3 DEF CheckLdap
  <2>2. /\ numbers' \in [NumberOptions -> Int] /\ numbers'[<<"ldap", "port">>] # 0
        /\ numbers'[MaxChilds] = numbers[MaxChilds]
        BY <1>3, PortTyped DEF CheckLdap
  <2>3. /\ DOMAIN strings' = StringOptions /\ strings'[Scope] = Or(strings[Scope], "subtree")
        /\ \A o \in StringOptions \ {Scope, <<"ldap", "base">>} : strings'[o] = strings[o]
        BY <1>3 DEF CheckLdap
  <2>4. strings[Backend] # "sql" /\ strings'[Backend] = strings[Backend]
        BY <1>3, <2>3 DEF Seen
  <2>5. strings'[BackendConnection] = strings[BackendConnection]
        BY <2>3 DEF BackendConnection, Scope
  <2>6. pc' = "failmsg" => LdapUsable' /\ SqlUsable'
        BY <2>1, <2>2, <2>3, <2>4 DEF LdapUsable, SqlUsable, Or
  <2>7. QED BY <2>1, <2>2, <2>3, <2>5, <2>6 DEF SettingsTypes, Connected
<1>4. ASSUME NEW b \in Seen(strings[Backend]), b \notin {"sql", "ldap"}, pc' = "failmsg",
             UNCHANGED <<strings, numbers>>
      PROVE  Goal
  <2>1. strings[Backend] \notin {"sql", "ldap"}
        BY <1>4 DEF Seen
  <2>2. QED BY <1>4, <2>1 DEF SettingsTypes, Connected, SqlUsable, LdapUsable
<1>5. QED BY <1>1, <1>2, <1>3, <1>4 DEF CheckBackend

\* The text for a nexthop that fails.
LEMMA SmtpdChecked ==
  ASSUME SettingsTypes, Connected, SqlUsable, LdapUsable, CheckSmtpd
  PROVE  /\ SettingsTypes' /\ Connected' /\ pc' = "parsed" /\ SqlUsable' /\ LdapUsable'
         /\ strings'[FailMsg] # NULL
<1> USE Kinds, Distinct, OwnTexts
<1>1. /\ pc' = "parsed" /\ UNCHANGED <<config, line, numbers, lists, calls>>
      /\ DOMAIN strings' = StringOptions /\ strings'[FailMsg] # NULL
      /\ \A o \in StringOptions \ {FailMsg} : strings'[o] = strings[o]
      BY DEF CheckSmtpd, SettingsTypes, Or
<1>2. FailMsg \notin {BackendConnection, Scope}
      BY DEF FailMsg, BackendConnection, Scope
<1>3. QED BY <1>1, <1>2 DEF SettingsTypes, Connected, SqlUsable, LdapUsable


(***************************************************************************)
(* Steps that leave the settings alone.                                    *)
(***************************************************************************)
LEMMA InitHolds == Init => IndInv
<1> SUFFICES ASSUME Init PROVE IndInv
    OBVIOUS
<1>0. UsableInv
  <2>1. pc = "options"
        BY DEF Init
  <2>2. pc \notin {"backend", "failmsg", "ipc", "serving"} \cup AfterConfig
        BY <2>1 DEF AfterConfig, Bound, Backgrounds, Ready
  <2>3. QED BY <2>2 DEF UsableInv, AfterConfig
<1> USE Kinds DEF Init, SettingsInit
<1>1. \A o \in Enumerated : o # Facility
      BY DEF Enumerated, Backend, BackendConnection, Driver, Facility
<1>2. \A o \in Enumerated : strings[o] = NULL
      BY <1>1 DEF DefaultString
<1>3. \A o \in NumberOptions : DefaultNumber(o) \in Int
  <2>1. \A k \in DOMAIN DefaultNumbers : DefaultNumbers[k] \in Int
        BY DEF DefaultNumbers
  <2>2. QED BY <2>1 DEF DefaultNumber
<1>4. SettingsTypes
  <2>1. calls \in Seq({})
        OBVIOUS
  <2>2. numbers \in [NumberOptions -> Int]
        BY <1>3
  <2>3. DOMAIN strings = StringOptions /\ config \in Configs /\ line \in Nat \ {0}
        OBVIOUS
  <2> HIDE DEF Init, SettingsInit
  <2>4. QED BY <1>2, <2>1, <2>2, <2>3 DEF SettingsTypes
<1>5. ProcessInv
      BY DEF ProcessInv, ProcessTypes, Processes, ForkInv, ResourceInv, ToldInv, Early,
         Backgrounds, Ready, Alone
<1>6. QED BY <1>0, <1>4, <1>5 DEF IndInv

\* Unchanged settings say the same.
LEMMA SameSettings ==
  ASSUME SettingsTypes, UNCHANGED settingsVars
  PROVE  /\ (pc' \in {"options", "parse", "backend"} => pc \in {"options", "parse", "backend"}) => SettingsTypes'
         /\ Foreground' = Foreground /\ AsStarted' = AsStarted /\ Connected' = Connected
         /\ SqlUsable' = SqlUsable /\ LdapUsable' = LdapUsable /\ Switches' = Switches
         /\ strings' = strings
BY DEF settingsVars, options, SettingsTypes, Foreground, AsStarted, Connected, SqlUsable,
   LdapUsable, Switches

\* The process ends.
LEMMA EndsHolds ==
  ASSUME IndInv, NEW s \in {"success", "failure"}, Ends(s),
         pc \notin {"serving", "crashed", "missing", "ended"}
  PROVE  IndInv'
<1>1. SettingsTypes'
      BY SameSettings DEF IndInv, Ends, Goto
<1>2. UsableInv'
      BY DEF UsableInv, Ends, Goto, AfterConfig, Bound, Backgrounds, Ready
<1>3. pc' = "ended" /\ status' = [status EXCEPT ![self] = s] /\ ~lookup' /\ ~listening'
      /\ UNCHANGED <<self, leaving, daemon>> /\ shared' = shared
      BY DEF Ends, Goto, daemon
<1>4. ~shared /\ status[1] # "failure"
      BY DEF IndInv, ProcessInv, ResourceInv, ToldInv
<1>5. self = 1 => leaving = {}
      BY DEF IndInv, ProcessInv, ProcessTypes
<1>6. ProcessTypes'
      BY <1>3 DEF IndInv, ProcessInv, ProcessTypes
<1>7. self # 1 => status'[1] = status[1]
      BY <1>3 DEF IndInv, ProcessInv, ProcessTypes, Processes
<1>8. ForkInv' /\ ResourceInv' /\ ToldInv'
      BY <1>3, <1>4, <1>5, <1>7 DEF IndInv, ProcessInv, ProcessTypes, ForkInv, ResourceInv,
         ToldInv, Early,
         Backgrounds, Ready
<1>9. QED BY <1>1, <1>2, <1>6, <1>8 DEF IndInv, ProcessInv

\* The process breaks down, or returns from the engine.
LEMMA LeavesHolds ==
  ASSUME IndInv, SettingsTypes', UNCHANGED processVars, pc # "ended",
         \/ pc' \in {"crashed", "missing"}
         \/ pc' \in {"undefined", "returned", "failed"} /\ pc \notin {"serving", "crashed", "missing"}
  PROVE  IndInv'
<1>1. UsableInv'
      BY DEF UsableInv, AfterConfig, Bound, Backgrounds, Ready
<1>2. ProcessInv'
      BY DEF processVars, forks, daemon, IndInv, ProcessInv, ProcessTypes, ForkInv, ResourceInv,
         ToldInv, Early,
         Backgrounds, Ready
<1>3. QED BY <1>1, <1>2 DEF IndInv

\* Before the first fork() one process goes on, and has settings that are checked further.
LEMMA EarlyHolds ==
  ASSUME IndInv, UNCHANGED <<forks, daemon>>, pc \in Early, pc' \in Early,
         pc' = "background" => listening', SettingsTypes', UsableInv'
  PROVE  IndInv'
<1>1. ProcessInv'
      BY DEF forks, daemon, IndInv, ProcessInv, ProcessTypes, ForkInv, ResourceInv, ToldInv, Early,
         Backgrounds, Ready, Alone
<1>2. QED BY <1>1 DEF IndInv


LEMMA FreesAndEndsHolds ==
  ASSUME IndInv, NEW here \in {"refused", "queue_dir", "returned", "failed"},
         NEW s \in {"success", "failure"}, FreesAndEnds(here, s)
  PROVE  IndInv'
<1>1. pc = here
      BY DEF FreesAndEnds, At
<1>2. CASE Ends(s)
      BY <1>1, <1>2, EndsHolds
<1>3. CASE Goto("crashed") /\ Same
      BY <1>1, <1>3, LeavesHolds, SameSettings DEF Goto, Same, IndInv
<1>4. QED BY <1>2, <1>3 DEF FreesAndEnds

(***************************************************************************)
(* main.                                                                   *)
(***************************************************************************)
LEMMA ParseHolds == IndInv /\ Parse => IndInv'
<1> SUFFICES ASSUME IndInv, Parse PROVE IndInv'
    OBVIOUS
<1> UNCHANGED processVars /\ SettingsTypes
    BY DEF Parse, IndInv
<1>1. CASE Lines
  <2>1. pc = "parse"
        BY <1>1 DEF Lines, SkipLine, SectionLine, ValueLine, ValueTooEarly, Reading
  <2>2. SettingsTypes' /\ pc' \in {"parse", "crashed"}
        BY <1>1, <2>1, LineTyped
  <2>3. CASE pc' = "crashed"
        BY <2>1, <2>2, <2>3, LeavesHolds
  <2>4. CASE pc' = "parse"
    <3>1. UsableInv'
          BY <2>4 DEF UsableInv, AfterConfig, Bound, Backgrounds, Ready
    <3>2. QED BY <2>1, <2>2, <2>4, <3>1, EarlyHolds DEF processVars, Early
  <2>5. QED BY <2>2, <2>3, <2>4
<1>2. CASE CheckGlobal
  <2>1. SettingsTypes' /\ pc' \in {"refused", "backend"} /\ (pc' = "backend" => Connected')
        BY <1>2, GlobalChecked
  <2>2. UsableInv'
        BY <2>1 DEF UsableInv, AfterConfig, Bound, Backgrounds, Ready
  <2>3. pc = "parse"
        BY <1>2 DEF CheckGlobal
  <2>4. QED BY <2>1, <2>2, <2>3, EarlyHolds DEF processVars, Early
<1>3. CASE CheckBackend
  <2>1. pc = "backend" /\ Connected
        BY <1>3 DEF CheckBackend, IndInv, UsableInv, Untouched
  <2>2. /\ SettingsTypes' /\ Connected' /\ pc' \in {"failmsg", "refused", "crashed"}
        /\ pc' = "failmsg" => SqlUsable' /\ LdapUsable'
        BY <1>3, <2>1, BackendChecked
  <2>3. CASE pc' = "crashed"
        BY <2>1, <2>2, <2>3, LeavesHolds
  <2>4. CASE pc' \in {"failmsg", "refused"}
    <3>1. UsableInv'
          BY <2>2, <2>4 DEF UsableInv, AfterConfig, Bound, Backgrounds, Ready
    <3>2. QED BY <2>1, <2>2, <2>4, <3>1, EarlyHolds DEF processVars, Early
  <2>5. QED BY <2>2, <2>3, <2>4
<1>4. CASE CheckSmtpd
  <2>1. pc = "failmsg" /\ Connected /\ SqlUsable /\ LdapUsable
        BY <1>4 DEF CheckSmtpd, IndInv, UsableInv, Untouched
  <2>2. /\ SettingsTypes' /\ Connected' /\ pc' = "parsed" /\ SqlUsable' /\ LdapUsable'
        /\ strings'[FailMsg] # NULL
        BY <1>4, <2>1, SmtpdChecked
  <2>3. UsableInv'
        BY <2>2 DEF UsableInv, Bound, Backgrounds, Ready
  <2>4. QED BY <2>1, <2>2, <2>3, EarlyHolds DEF processVars, Early
<1>5. QED BY <1>1, <1>2, <1>3, <1>4 DEF Parse, Lines

\* -d changes one number that no other part of the invariant reads.
LEMMA DebugHolds == IndInv /\ DebugOption => IndInv'
<1> SUFFICES ASSUME IndInv, DebugOption PROVE IndInv'
    OBVIOUS
<1> USE Kinds
<1>1. /\ SettingsTypes /\ UNCHANGED processVars /\ pc = "parsed" /\ pc' = "connect"
      /\ Connected /\ SqlUsable /\ LdapUsable /\ strings[FailMsg] # NULL
      BY DEF IndInv, UsableInv, Untouched, AfterConfig, DebugOption, At, Goto
<1>2. CASE debug
  <2>1. StoreNumber(Debug, 1) /\ Called(Debug, 1) /\ UNCHANGED <<strings, lists>>
        BY <1>2 DEF DebugOption
  <2>2. SettingsTypes'
        BY <1>1, <2>1, CalledHistory, StoreTyped DEF SettingsTypes
  <2>3. \A q \in NumberOptions \ {Debug} : numbers'[q] = numbers[q]
        BY <1>1, <2>1 DEF StoreNumber, SettingsTypes
  <2>4. Connected' /\ SqlUsable' /\ LdapUsable' /\ strings'[FailMsg] # NULL
        BY <1>1, <2>1, <2>3 DEF Connected, SqlUsable, LdapUsable
  <2>5. UsableInv'
        BY <1>1, <2>4 DEF UsableInv, Bound, Backgrounds, Ready
  <2>6. QED BY <1>1, <2>2, <2>5, EarlyHolds DEF processVars, Early
<1>3. CASE ~debug
  <2>1. UNCHANGED settingsVars
        BY <1>3 DEF DebugOption
  <2>2. UsableInv'
        BY <1>1, <2>1, SameSettings DEF UsableInv, Bound, Backgrounds, Ready
  <2>3. QED BY <1>1, <2>1, <2>2, SameSettings, EarlyHolds DEF processVars, Early
<1>4. QED BY <1>2, <1>3


\* A step to the next check.
LEMMA NextCheckHolds ==
  ASSUME IndInv, UNCHANGED <<settingsVars, forks, daemon>>,
         \/ pc = "options" /\ pc' = "parse"
         \/ pc = "parse" /\ pc' = "refused"
         \/ pc = "connect" /\ pc' = "queue_dir"
         \/ pc = "queue_dir" /\ pc' = "engine" /\ strings[QueueDir] \in Directories
         \/ pc = "engine" /\ pc' = "load"
         \/ pc = "load" /\ pc' = "listen" /\ strings[Engine] = "smtpd"
         \/ pc = "listen" /\ pc' = "background" /\ listening'
  PROVE  IndInv'
<1>1. SettingsTypes'
      BY SameSettings DEF IndInv
<1>2. UsableInv'
  <2>1. CASE pc' \in {"parse", "refused"}
        BY <2>1 DEF UsableInv, AfterConfig, Bound, Backgrounds, Ready
  <2>2. CASE pc' \notin {"parse", "refused"}
    <3>1. Connected' /\ SqlUsable' /\ LdapUsable' /\ strings' = strings /\ strings[FailMsg] # NULL
          BY <2>2, SameSettings DEF IndInv, UsableInv, Untouched, AfterConfig
    <3>2. pc' \in {"engine", "load", "listen"} \cup Bound => strings[QueueDir] \in Directories
          BY DEF IndInv, UsableInv, Untouched, Bound, Backgrounds, Ready
    <3>3. pc' \in {"listen"} \cup Bound => strings[Engine] = "smtpd"
          BY DEF IndInv, UsableInv, Untouched, Bound, Backgrounds, Ready
    <3>4. pc' \notin {"ipc", "serving"}
          OBVIOUS
    <3>5. QED BY <3>1, <3>2, <3>3, <3>4 DEF UsableInv
  <2>3. QED BY <2>1, <2>2
<1>3. QED BY <1>1, <1>2, EarlyHolds DEF Early

LEMMA MainHolds == IndInv /\ Main => IndInv'
<1> SUFFICES ASSUME IndInv, Main PROVE IndInv'
    OBVIOUS
<1> USE DEF At, Goto
<1> Same => UNCHANGED <<settingsVars, forks, daemon>> /\ UNCHANGED processVars /\ SettingsTypes
    BY DEF Same, processVars, IndInv
<1>1. CASE Usage
      BY <1>1, EndsHolds DEF Usage
<1>2. CASE Options
      BY <1>2, NextCheckHolds DEF Options
<1>3. CASE NoFile
      BY <1>3, NextCheckHolds DEF NoFile
<1>4. CASE Parse
      BY <1>4, ParseHolds
<1>5. CASE Refused
      BY <1>5, FreesAndEndsHolds DEF Refused
<1>6. CASE DebugOption
      BY <1>6, DebugHolds
<1>7. CASE LookupConnect
  <2>1. pc = "connect"
        BY <1>7 DEF LookupConnect
  <2>2. CASE pc' = "queue_dir" /\ UNCHANGED <<settingsVars, forks, daemon>>
        BY <2>1, <2>2, NextCheckHolds
  <2>3. CASE Ends("failure")
        BY <2>1, <2>3, EndsHolds
  <2>4. CASE pc' = "crashed" /\ Same
        BY <2>1, <2>4, LeavesHolds, SameSettings
  <2>5. QED BY <1>7, <2>2, <2>3, <2>4 DEF LookupConnect, Connect
<1>8. CASE CheckQueueDir
      BY <1>8, NextCheckHolds DEF CheckQueueDir
<1>9. CASE NoQueueDir
      BY <1>9, FreesAndEndsHolds DEF NoQueueDir
<1>10. CASE EngineLoad
  <2>1. pc = "engine" /\ Same /\ pc' \in {"load", "failed", "undefined"}
        BY <1>10 DEF EngineLoad
  <2>2. CASE pc' = "load"
        BY <2>1, <2>2, NextCheckHolds
  <2>3. CASE pc' # "load"
        BY <2>1, <2>3, LeavesHolds, SameSettings
  <2>4. QED BY <2>2, <2>3
<1>11. CASE OtherEngine
  <2>1. pc = "load" /\ Same /\ pc' \in {"returned", "failed"}
        BY <1>11 DEF OtherEngine
  <2>2. QED BY <2>1, LeavesHolds, SameSettings
<1>12. CASE Returned
      BY <1>12, FreesAndEndsHolds DEF Returned
<1>13. CASE Failed
      BY <1>13, FreesAndEndsHolds DEF Failed
<1>14. QED BY <1>1, <1>2, <1>3, <1>4, <1>5, <1>6, <1>7, <1>8, <1>9, <1>10, <1>11, <1>12, <1>13 DEF Main


(***************************************************************************)
(* The daemon.                                                             *)
(***************************************************************************)

\* A step on the way into the background, or to the pid file, the user and the semaphore.
LEMMA WayHolds ==
  ASSUME IndInv, UNCHANGED <<settingsVars, listening>>, pc \in Bound \ {"serving"}, pc' \in Bound \ {"background"},
         pc' \in {"ipc", "serving"} /\ Switches => <<uid', gid'>> = <<strings[User], strings[Group]>>,
         ProcessTypes', ForkInv', shared' <=> pc' = "serving", status'[1] # "failure"
  PROVE  IndInv'
<1>1. SettingsTypes'
      BY SameSettings DEF IndInv, Bound, Backgrounds, Ready
<1>2. pc \in {"engine", "load", "listen"} \cup Bound /\ pc \in AfterConfig /\ Untouched
      BY DEF AfterConfig, Untouched
<1>3. /\ Connected /\ SqlUsable /\ LdapUsable /\ strings[FailMsg] # NULL
      /\ strings[QueueDir] \in Directories /\ strings[Engine] = "smtpd"
      BY <1>2 DEF IndInv, UsableInv
<1>4. UsableInv'
      BY <1>3, SameSettings DEF UsableInv, IndInv
<1>5. ResourceInv' /\ ToldInv'
      BY DEF IndInv, ProcessInv, ResourceInv, ToldInv, Bound, Backgrounds, Ready
<1>6. QED BY <1>1, <1>4, <1>5 DEF IndInv, ProcessInv

LEMMA BackgroundHolds == IndInv /\ (Fork1 \/ Setsid \/ Fork2 \/ Chdir) => IndInv'
<1> SUFFICES ASSUME IndInv, Fork1 \/ Setsid \/ Fork2 \/ Chdir PROVE IndInv'
    OBVIOUS
<1> USE DEF At, Goto
<1> SettingsTypes /\ ProcessTypes /\ ForkInv /\ ResourceInv /\ ToldInv
    BY DEF IndInv, ProcessInv
<1>1. CASE Fork1
  <2>1. /\ pc = "background" /\ Alone /\ leader = 0 /\ pid_file = 0 /\ ~shared
        /\ UNCHANGED <<settingsVars, listening, leader, pid_file, cwd, shared>>
        BY <1>1 DEF Fork1, ForkInv, ResourceInv, Early, daemon
  <2>2. /\ Foreground => pc' = "pid" /\ UNCHANGED forks
        /\ ~Foreground => pc' = "setsid" /\ (Forks(2) \/ UNCHANGED forks)
        BY <1>1 DEF Fork1
  <2>3. ProcessTypes' /\ status' = status
        BY <2>2, <2>1 DEF Forks, forks, ProcessTypes, Processes, Alone
  <2>4. Foreground' = Foreground
        BY <2>1, SameSettings
  <2>5. ForkInv'
        BY <2>1, <2>2, <2>4 DEF ForkInv, Forks, forks, Early, Backgrounds, Ready, Alone
  <2>6. QED BY <2>1, <2>2, <2>3, <2>5, WayHolds DEF Bound, Backgrounds, Ready, Alone
<1>2. CASE Setsid
  <2>1. CASE Ends("failure")
        BY <1>2, <2>1, EndsHolds DEF Setsid
  <2>2. CASE ~Ends("failure")
    <3>1. /\ pc = "setsid" /\ pc' = "fork2" /\ leader' = self /\ ~shared
          /\ UNCHANGED <<settingsVars, self, leaving, status, listening, pid_file, cwd, shared>>
          BY <1>2, <2>2 DEF Setsid, ResourceInv, forks
    <3>2. ForkInv'
          BY <3>1, SameSettings DEF ForkInv, Early, Backgrounds, Ready
    <3>3. QED BY <3>1, <3>2, WayHolds DEF ProcessTypes, ToldInv, Bound, Backgrounds, Ready
  <2>3. QED BY <2>1, <2>2
<1>3. CASE Fork2
  <2>1. CASE Ends("failure")
        BY <1>3, <2>1, EndsHolds DEF Fork2
  <2>2. CASE ~Ends("failure")
    <3>1. /\ pc = "fork2" /\ pc' = "chdir" /\ self' = 3 /\ leaving' = leaving \cup {self} /\ ~shared
          /\ self \in {1, 2} /\ leader = self
          /\ UNCHANGED <<settingsVars, status, listening, leader, pid_file, cwd, shared>>
          BY <1>3, <2>2 DEF Fork2, Forks, ForkInv, ResourceInv, daemon
    <3>2. ForkInv'
          BY <3>1, SameSettings DEF ForkInv, Early, Backgrounds, Ready
    <3>3. ProcessTypes' /\ status'[1] # "failure"
          BY <3>1 DEF ProcessTypes, Processes, ToldInv
    <3>4. QED BY <3>1, <3>2, <3>3, WayHolds DEF Bound, Backgrounds, Ready
  <2>3. QED BY <2>1, <2>2
<1>4. CASE Chdir
  <2>1. CASE Ends("failure")
        BY <1>4, <2>1, EndsHolds DEF Chdir
  <2>2. CASE ~Ends("failure")
    <3>1. /\ pc = "chdir" /\ pc' = "pid" /\ cwd' = "spool" /\ ~shared
          /\ UNCHANGED <<settingsVars, self, leaving, status, listening, leader, pid_file, shared>>
          BY <1>4, <2>2 DEF Chdir, ResourceInv, forks
    <3>2. self = 3 /\ leader \in {1, 2} /\ ~Foreground /\ pid_file = 0
          BY <3>1 DEF ForkInv, Backgrounds
    <3>3. ForkInv'
          BY <3>1, <3>2, SameSettings DEF ForkInv, Early, Backgrounds, Ready, Detached
    <3>4. QED BY <3>1, <3>3, WayHolds DEF ProcessTypes, ToldInv, Bound, Backgrounds, Ready
  <2>3. QED BY <2>1, <2>2
<1>5. QED BY <1>1, <1>2, <1>3, <1>4

LEMMA ReadyHolds == IndInv /\ (WritePidFile \/ SwitchUser \/ InitIpc) => IndInv'
<1> SUFFICES ASSUME IndInv, WritePidFile \/ SwitchUser \/ InitIpc PROVE IndInv'
    OBVIOUS
<1> USE DEF At, Goto
<1> SettingsTypes /\ ProcessTypes /\ ForkInv /\ ResourceInv /\ ToldInv
    BY DEF IndInv, ProcessInv
<1>1. ASSUME pc \in Ready \ {"serving"}, pc' \in Ready \ {"pid"},
             UNCHANGED <<settingsVars, self, leaving, status, leader, cwd>>, pid_file' \in {0, pid_file, self}
      PROVE  ForkInv' /\ ProcessTypes' /\ status'[1] # "failure"
  <2>1. AsStarted => IF Foreground THEN Alone ELSE Detached
        BY <1>1 DEF ForkInv
  <2>2. ForkInv'
        BY <1>1, <2>1, SameSettings DEF ForkInv, Early, Backgrounds, Ready, Alone, Detached
  <2>3. QED BY <1>1, <2>2 DEF ProcessTypes, ToldInv, Ready
<1>2. CASE WritePidFile
  <2>1. /\ pc = "pid" /\ pc' = "user" /\ pid_file' \in {0, pid_file, self} /\ ~shared /\ shared' = shared
        /\ UNCHANGED <<settingsVars, listening, self, leaving, status, leader, cwd>>
        BY <1>2 DEF WritePidFile, ResourceInv, forks
  <2>2. QED BY <1>1, <2>1, WayHolds DEF Bound, Ready
<1>3. CASE SwitchUser
  <2>1. CASE Ends("failure")
        BY <1>3, <2>1, EndsHolds DEF SwitchUser
  <2>2. CASE ~Ends("failure")
    <3>1. /\ pc = "user" /\ pc' = "ipc" /\ ~shared
          /\ Switches => <<uid', gid'>> = <<strings[User], strings[Group]>>
          /\ UNCHANGED <<settingsVars, listening, self, leaving, status, leader, pid_file, cwd, shared>>
          BY <1>3, <2>2 DEF SwitchUser, ResourceInv, Same, processVars, forks, daemon
    <3>2. QED BY <1>1, <3>1, WayHolds DEF Bound, Ready
  <2>3. QED BY <2>1, <2>2
<1>4. CASE InitIpc
  <2>1. CASE Ends("failure")
        BY <1>4, <2>1, EndsHolds DEF InitIpc
  <2>2. CASE ~Ends("failure")
    <3>1. /\ pc = "ipc" /\ pc' = "serving" /\ shared'
          /\ UNCHANGED <<settingsVars, listening, self, leaving, status, leader, pid_file, cwd, uid, gid>>
          BY <1>4, <2>2 DEF InitIpc, forks, who
    <3>2. Switches => <<uid', gid'>> = <<strings[User], strings[Group]>>
          BY <3>1 DEF IndInv, UsableInv, Untouched
    <3>3. QED BY <1>1, <3>1, <3>2, WayHolds DEF Bound, Ready
  <2>3. QED BY <2>1, <2>2
<1>5. QED BY <1>2, <1>3, <1>4


\* Modules change settings, a session ends, the loop returns.
LEMMA ServingHolds == IndInv /\ (ModuleCalls \/ SessionEnds \/ ServerLoopReturns) => IndInv'
<1> SUFFICES ASSUME IndInv, ModuleCalls \/ SessionEnds \/ ServerLoopReturns PROVE IndInv'
    OBVIOUS
<1> USE DEF At, Goto
<1> /\ SettingsTypes /\ ProcessTypes /\ ForkInv /\ ResourceInv /\ ToldInv /\ UsableInv
    /\ pc = "serving"
    BY DEF IndInv, ProcessInv, ModuleCalls, SessionEnds, ServerLoopReturns
<1>1. CASE ModuleCalls /\ Setters
  <2>1. /\ SettingsTypes' /\ pc' \in {"serving", "crashed"} /\ UNCHANGED processVars
        /\ AsStarted' => /\ AsStarted /\ strings' = strings /\ lists' = lists
                         /\ \A q \in NumberOptions \ {Debug} : numbers'[q] = numbers[q]
        BY <1>1, SettersTyped DEF ModuleCalls
  <2>2. CASE pc' = "crashed"
        BY <2>1, <2>2, LeavesHolds
  <2>3. CASE pc' = "serving"
    <3> /\ UNCHANGED <<self, leaving, status, listening, shared, leader, pid_file, cwd, uid, gid>>
        BY <2>1 DEF processVars, forks, daemon, who
    <3>1. /\ AsStarted' => AsStarted /\ Foreground' = Foreground /\ Connected' = Connected /\ Switches' = Switches
                           /\ SqlUsable' = SqlUsable /\ LdapUsable' = LdapUsable /\ strings' = strings
          BY <2>1, Kinds DEF Foreground, Connected, Switches, SqlUsable, LdapUsable
    <3>2. UsableInv'
          BY <2>3, <3>1 DEF UsableInv, Untouched, AfterConfig, Bound, Backgrounds, Ready
    <3>3. ForkInv'
          BY <2>3, <3>1 DEF ForkInv, Early, Backgrounds, Ready, Alone, Detached
    <3>4. ProcessTypes' /\ ResourceInv' /\ ToldInv'
          BY <2>3 DEF ProcessTypes, ResourceInv, ToldInv, Backgrounds, Ready
    <3>5. QED BY <2>1, <3>2, <3>3, <3>4 DEF IndInv, ProcessInv
  <2>4. QED BY <2>1, <2>2, <2>3
<1>2. CASE ModuleCalls /\ ~Setters
  <2>1. pc' = "missing" /\ UNCHANGED <<settingsVars, processVars>>
        BY <1>2 DEF ModuleCalls, GroupGet
  <2>2. QED BY <2>1, SameSettings, LeavesHolds
<1>3. CASE SessionEnds
      BY <1>3, SameSettings, LeavesHolds DEF SessionEnds, Same
<1>4. CASE ServerLoopReturns
  <2>1. /\ pc' = "returned" /\ ~shared' /\ SettingsTypes'
        /\ UNCHANGED <<self, leaving, status, listening>>
        BY <1>4, SameSettings DEF ServerLoopReturns, forks
  <2>2. ProcessInv'
        BY <2>1 DEF ProcessInv, ProcessTypes, ForkInv, ResourceInv, ToldInv, Early, Backgrounds,
           Ready
  <2>3. UsableInv'
        BY <2>1 DEF UsableInv, AfterConfig, Bound, Backgrounds, Ready
  <2>4. QED BY <2>1, <2>2, <2>3 DEF IndInv
<1>5. QED BY <1>1, <1>2, <1>3, <1>4

LEMMA DaemonHolds == IndInv /\ Daemon => IndInv'
<1> SUFFICES ASSUME IndInv, Daemon PROVE IndInv'
    OBVIOUS
<1> USE DEF At, Goto
<1>1. CASE Load
  <2>1. pc = "load" /\ strings[Engine] = "smtpd" /\ Same /\ pc' \in {"listen", "failed"}
        BY <1>1 DEF Load
  <2>2. CASE pc' = "listen"
        BY <2>1, <2>2, NextCheckHolds DEF Same, processVars
  <2>3. CASE pc' = "failed"
        BY <2>1, <2>3, LeavesHolds, SameSettings DEF Same, IndInv
  <2>4. QED BY <2>1, <2>2, <2>3
<1>2. CASE Listen
      BY <1>2, NextCheckHolds DEF Listen
<1>3. CASE NoListen
      BY <1>3, EndsHolds DEF NoListen
<1>4. CASE Unresolved
      BY <1>4, LeavesHolds, SameSettings DEF Unresolved, Same, IndInv
<1>5. CASE Fork1 \/ Setsid \/ Fork2 \/ Chdir
      BY <1>5, BackgroundHolds
<1>6. CASE WritePidFile \/ SwitchUser \/ InitIpc
      BY <1>6, ReadyHolds
<1>7. CASE ModuleCalls \/ SessionEnds \/ ServerLoopReturns
      BY <1>7, ServingHolds
<1>8. QED BY <1>1, <1>2, <1>3, <1>4, <1>5, <1>6, <1>7 DEF Daemon

(***************************************************************************)
(* The theorems.                                                           *)
(***************************************************************************)

\* A parent tells success, and there is none as long as the first process goes on.
LEMMA ParentHolds == ASSUME IndInv, NEW p \in Processes, ParentExits(p) PROVE IndInv'
<1> /\ SettingsTypes /\ ProcessTypes /\ ForkInv /\ ResourceInv /\ ToldInv /\ UsableInv
    /\ p \in leaving /\ leaving' = leaving \ {p} /\ status' = [status EXCEPT ![p] = "success"]
    /\ UNCHANGED <<settingsVars, pc, self, listening, leader, pid_file, cwd, shared, uid, gid>>
    BY DEF IndInv, ProcessInv, ParentExits, daemon, who
<1>1. ProcessTypes' /\ status'[1] \in {"success", status[1]}
      BY DEF ProcessTypes, Processes
<1>2. SettingsTypes' /\ UsableInv'
      BY SameSettings DEF UsableInv, Untouched
<1>3. ForkInv'
      BY SameSettings DEF ForkInv, Alone, Detached
<1>4. ResourceInv' /\ ToldInv'
      BY <1>1 DEF ResourceInv, ToldInv
<1>5. QED BY <1>1, <1>2, <1>3, <1>4 DEF IndInv, ProcessInv

LEMMA Inductive == Spec => []IndInv
<1>1. IndInv /\ [Next]_vars => IndInv'
  <2> SUFFICES ASSUME IndInv, [Next]_vars PROVE IndInv'
      OBVIOUS
  <2>1. CASE UNCHANGED vars
    <3>1. UNCHANGED <<settingsVars, pc, processVars>>
          BY <2>1 DEF vars
    <3>2. SettingsTypes' /\ UsableInv'
          BY <3>1, SameSettings DEF IndInv, UsableInv, Untouched, processVars, who
    <3>3. ProcessInv'
          BY <3>1, SameSettings DEF IndInv, ProcessInv, ProcessTypes, ForkInv, ResourceInv,
             ToldInv, Alone, Detached,
             processVars, forks, daemon
    <3>4. QED BY <3>2, <3>3 DEF IndInv
  <2>2. QED BY <2>1, MainHolds, DaemonHolds, ParentHolds DEF Next
<1>2. QED BY InitHolds, <1>1, PTL DEF Spec

\* Whatever the file says and the environment answers, who starts spmfilter is told of a failure
\* only if nothing goes on, and a daemon in the foreground has told nothing while it serves.
THEOREM ToldCorrectly == Spec => []StatusTold
<1>1. IndInv => StatusTold
      BY DEF IndInv, ProcessInv, ToldInv, ForkInv, StatusTold, Ready, Alone
<1>2. QED BY <1>1, Inductive, PTL

\* Whatever the file says, a daemon that serves has passed main, load and smf_server_init.
THEOREM PreparedHolds == Spec => []Prepared
<1>1. IndInv => Prepared
  <2> SUFFICES ASSUME IndInv, pc = "serving"
               PROVE  /\ listening /\ shared /\ pid_file \in {0, self}
                      /\ AsStarted =>
                           /\ Usable /\ (Foreground \/ Detached)
                           /\ Switches => <<uid, gid>> = <<strings[User], strings[Group]>>
      BY DEF Prepared
  <2>1. listening /\ shared /\ pid_file \in {0, self}
        BY DEF IndInv, ProcessInv, ResourceInv, ForkInv, Ready
  <2>2. AsStarted => Foreground \/ Detached
        BY DEF IndInv, ProcessInv, ForkInv, Ready
  <2>3. AsStarted => /\ Connected /\ SqlUsable /\ LdapUsable /\ strings[FailMsg] # NULL
                     /\ strings[QueueDir] \in Directories /\ strings[Engine] = "smtpd"
                     /\ Switches => <<uid, gid>> = <<strings[User], strings[Group]>>
        BY DEF IndInv, UsableInv, Untouched, AfterConfig, Bound, Ready
  <2>4. QED BY <2>1, <2>2, <2>3 DEF Usable, Connected
<1>2. QED BY <1>1, Inductive, PTL

(***************************************************************************)
(* What the settings are: the invariant.                                   *)
(***************************************************************************)
Reads == {"options", "parse"}

\* Before the last line is read there was no call; a value has a section, and the section is
\* that of the lines before.
SectionInv ==
  /\ line \in 1..Len(config) + 1
  /\ pc \in Reads => /\ calls = <<>>
                     /\ IF \E j \in 1..line - 1 : config[j].kind = "section"
                        THEN section = SectionOf(line) ELSE section = NULL

\* The last request for a text, a number, the text of a reply.
TextAsked(o) ==
  IF CallsOf(o) # {} THEN calls[Max(CallsOf(o))].value
  ELSE IF Accepted(o) # {} THEN config[Max(Accepted(o))].text ELSE DefaultString(o)
NumberIn(o, t) == IF o \in Flags THEN Boolean[t] ELSE Integer[t]
NumberAsked(o) ==
  IF CallsOf(o) # {} THEN calls[Max(CallsOf(o))].value
  ELSE IF Accepted(o) # {} THEN NumberIn(o, config[Max(Accepted(o))].text) ELSE DefaultNumber(o)
CodeAsked(o) ==
  IF CallsOf(o) # {} THEN calls[Max(CallsOf(o))].value
  ELSE IF Accepted(o) # {} THEN config[Max(Accepted(o))].text ELSE NULL

\* A wrong choice after an accepted one: the value dangles.
Dangles(o) ==
  /\ strings[o] = Freed /\ o \in Enumerated /\ CallsOf(o) = {}
  /\ Accepted(o) # {} /\ Max(Given(o)) > Max(Accepted(o))

\* While the file is read no default has been set yet.
TextRead(o)  == strings[o] = TextAsked(o) \/ Dangles(o)
TextRight(o) == TextRead(o) \/ (TextAsked(o) = NULL /\ strings[o] = Late(o))
NumberRight(o) ==
  numbers[o] = NumberAsked(o) \/ (NumberAsked(o) = 0 /\ numbers[o] \in LatePort(o))
CodeRight(k) ==
  LET o == <<"smtpd", k>> IN
  codes[k] = IF Integer[k] \in 250..599 \/ CallsOf(o) # {} THEN CodeAsked(o) ELSE NULL

FileList(o) == IF Given(o) = {} THEN <<>> ELSE Items[config[Max(Given(o))].text]
Place(o, i) == Len(FileList(o)) + Cardinality({j \in CallsOf(o) : j <= i})
ListRight(o) ==
  /\ \E V : lists[o] \in Seq(V)
  /\ Len(lists[o]) = Len(FileList(o)) + Cardinality(CallsOf(o))
  /\ \A i \in DOMAIN FileList(o) :
       lists[o][i] = IF o = Modules THEN <<FileList(o)[i], LibDirAt(Max(Given(o)))>> ELSE FileList(o)[i]
  /\ \A i \in CallsOf(o) : lists[o][Place(o, i)] = calls[i].value

SetFor(g) == {i \in 1..line - 1 : config[i].kind = "value" /\ <<SectionOf(i), config[i].key>> = g}
GroupRight(g) == groups[g] = IF SetFor(g) = {} THEN NULL ELSE config[Max(SetFor(g))].text

\* What a call may say.
CallsTyped ==
  \A i \in DOMAIN calls :
    /\ calls[i].option \in StringOptions => calls[i].value \in Texts
    /\ calls[i].option \in In("smtpd", CodeKeys) => calls[i].value \in Texts
    /\ calls[i].option = Debug => calls[i].value \in {0, 1}

RightInv ==
  /\ \A o \in StringOptions : TextRight(o) /\ (pc \in Reads => TextRead(o))
  /\ \A o \in NumberOptions : NumberRight(o)
  /\ \A o \in ListOptions : ListRight(o)
  /\ \A k \in CodeKeys : CodeRight(k)
  /\ \A g \in GroupKeys : GroupRight(g)

\* What RightInv takes for granted of functions.
DomainsInv == DOMAIN lists = ListOptions /\ DOMAIN codes = CodeKeys /\ DOMAIN groups = GroupKeys

SettingsInv == SectionInv /\ CallsTyped /\ RightInv /\ DomainsInv

\* The invariant says what LastRequestCounts asks.
LEMMA RightMeans == RightInv => LastRequestCounts
<1> SUFFICES ASSUME RightInv PROVE TextsRight /\ NumbersRight /\ ListsRight /\ CodesRight /\ GroupsRight
    BY DEF LastRequestCounts
<1>1. TextsRight
      BY DEF RightInv, TextRight, TextRead, Dangles, TextAsked, TextsRight, Latest
<1>2. NumbersRight
      BY DEF RightInv, NumberRight, NumberAsked, NumberIn, NumbersRight, Latest
<1>3. ListsRight
      BY DEF RightInv, ListRight, FileList, Place, ListsRight
<1>4. CodesRight
      BY DEF RightInv, CodeRight, CodeAsked, CodesRight, Latest
<1>5. GroupsRight
      BY DEF RightInv, GroupRight, SetFor, GroupsRight
<1>6. QED BY <1>1, <1>2, <1>3, <1>4, <1>5

(***************************************************************************)
(* Sets of lines and of calls.                                             *)
(***************************************************************************)

\* Max is the greatest of a set of lines.
LEMMA MaxGreatest ==
  ASSUME NEW n \in Nat, NEW S \in SUBSET (1..n), S # {}
  PROVE  Max(S) \in S /\ \A y \in S : y <= Max(S)
<1> DEFINE R == {ss \in Nat \X Nat : ss[1] < ss[2]}
           T == {n - y : y \in S}
<1>1. IsWellFoundedOn(R, Nat)
      BY NatLessThanWellFounded DEF OpToRel
<1>2. T \subseteq Nat /\ T # {}
  <2>1. \A y \in S : n - y \in Nat
        OBVIOUS
  <2>2. PICK y \in S : TRUE
        OBVIOUS
  <2>3. n - y \in T
        OBVIOUS
  <2>4. QED BY <2>1, <2>3
<1>3. PICK t \in T : \A u \in T : ~(<<u, t>> \in R)
      BY <1>1, <1>2, WFMin
<1>4. PICK x \in S : t = n - x
      OBVIOUS
<1>5. ASSUME NEW y \in S PROVE x >= y
  <2>1. n - y \in T /\ n - y \in Nat /\ t \in Nat
        BY <1>2
  <2>2. <<n - y, t>> \in Nat \X Nat /\ ~(<<n - y, t>> \in R)
        BY <1>3, <2>1
  <2>3. ~(<<n - y, t>>[1] < <<n - y, t>>[2])
        BY <2>2
  <2>4. ~(n - y < n - x)
        BY <1>4, <2>3
  <2>5. QED BY <2>4
<1>6. Max(S) \in S /\ \A y \in S : Max(S) >= y
      BY <1>5 DEF Max
<1>7. QED BY <1>6

\* A line is greater than those before it.
LEMMA MaxTop ==
  ASSUME NEW n \in Nat \ {0}, NEW S \in SUBSET (1..n - 1)
  PROVE  Max(S \cup {n}) = n
<1>1. S \cup {n} \in SUBSET (1..n) /\ S \cup {n} # {}
      OBVIOUS
<1>2. Max(S \cup {n}) \in S \cup {n} /\ n <= Max(S \cup {n})
      BY <1>1, MaxGreatest
<1> DEFINE m == Max(S \cup {n})
<1>3. m \in S => m \in 1..n - 1
      OBVIOUS
<1>4. m \in S \cup {n} /\ n <= m
      BY <1>2
<1> HIDE DEF m
<1>5. m = n
      BY <1>3, <1>4
<1>6. QED BY <1>5 DEF m

\* What the lines say does not depend on how far the file has been read.
LEMMA SameFile ==
  ASSUME config' = config
  PROVE  /\ \A i : SectionOf(i)' = SectionOf(i)
         /\ line' = line => \A o : /\ Given(o)' = Given(o) /\ Accepted(o)' = Accepted(o)
                                   /\ SetFor(o)' = SetFor(o)
BY DEF SectionOf, Given, Accepted, Acceptable, SetFor

LEMMA GivenBefore ==
  ASSUME NEW o
  PROVE  /\ Given(o) \in SUBSET (1..line - 1) /\ Accepted(o) \in SUBSET (1..line - 1)
         /\ SetFor(o) \in SUBSET (1..line - 1) /\ Accepted(o) \subseteq Given(o)
BY DEF Given, Accepted, SetFor

LEMMA LastBefore ==
  ASSUME line \in Nat \ {0}, NEW S \in SUBSET (1..line - 1), S # {}
  PROVE  Max(S) \in S /\ Max(S) \in 1..line - 1 /\ Max(S) < line
<1> DEFINE n == line - 1
<1>1. n \in Nat /\ S \in SUBSET (1..n)
      OBVIOUS
<1> HIDE DEF n
<1>2. Max(S) \in S
      BY <1>1, MaxGreatest
<1> USE DEF n
<1>3. Max(S) \in 1..line - 1
      BY <1>2
<1>4. QED BY <1>2, <1>3

\* What the line that is read next says.
Sets(o) == config[line].kind = "value" /\ <<SectionOf(line), config[line].key>> = o
Says(o) == Sets(o) /\ config[line].text # Empty

LEMMA GivenGrows ==
  ASSUME line \in Nat \ {0}, config' = config, line' = line + 1, NEW o
  PROVE  /\ Given(o)' = IF Says(o) THEN Given(o) \cup {line} ELSE Given(o)
         /\ Accepted(o)' = IF Says(o) /\ Acceptable(o, config[line].text)
                           THEN Accepted(o) \cup {line} ELSE Accepted(o)
         /\ SetFor(o)' = IF Sets(o) THEN SetFor(o) \cup {line} ELSE SetFor(o)
<1>1. 1..line' - 1 = 1..line - 1 \cup {line}
      OBVIOUS
<1>2. \A i : SectionOf(i)' = SectionOf(i)
      BY SameFile
<1>3. \A t : Acceptable(o, t)' = Acceptable(o, t)
      BY DEF Acceptable
<1>4. line \notin Given(o) /\ line \notin SetFor(o)
      BY GivenBefore
<1>5. Given(o)' = IF Says(o) THEN Given(o) \cup {line} ELSE Given(o)
  <2>1. Given(o)' = {i \in 1..line - 1 \cup {line} : config[i].kind = "value"
                       /\ <<SectionOf(i), config[i].key>> = o /\ config[i].text # Empty}
        BY <1>1, <1>2 DEF Given
  <2>2. QED BY <2>1 DEF Given, Says, Sets
<1>6. Accepted(o)' = IF Says(o) /\ Acceptable(o, config[line].text)
                     THEN Accepted(o) \cup {line} ELSE Accepted(o)
  <2>1. Accepted(o)' = {i \in Given(o)' : Acceptable(o, config[i].text)}
        BY <1>3 DEF Accepted
  <2>2. QED BY <1>5, <2>1 DEF Accepted
<1>7. SetFor(o)' = IF Sets(o) THEN SetFor(o) \cup {line} ELSE SetFor(o)
  <2>1. SetFor(o)' = {i \in 1..line - 1 \cup {line} : config[i].kind = "value"
                        /\ <<SectionOf(i), config[i].key>> = o}
        BY <1>1, <1>2 DEF SetFor
  <2>2. QED BY <2>1 DEF SetFor, Sets
<1>8. QED BY <1>5, <1>6, <1>7

(***************************************************************************)
(* A line of the file: what it asks for.                                   *)
(***************************************************************************)

\* A step that reads a line, before any call.
Reader ==
  /\ line \in Nat \ {0} /\ config \in Configs /\ line \in DOMAIN config
  /\ config' = config /\ line' = line + 1 /\ calls = <<>> /\ calls' = calls

\* The text of the line, and whether it asks something of o that is allowed.
Said       == config[line].text
Allows(o)  == Says(o) /\ Acceptable(o, Said)

LEMMA NoCalls == calls = <<>> => \A o : CallsOf(o) = {}
BY DEF CallsOf

LEMMA LineAsks ==
  ASSUME Reader, NEW o
  PROVE  /\ Allows(o) => /\ TextAsked(o)' = Said /\ CodeAsked(o)' = Said
                         /\ NumberAsked(o)' = NumberIn(o, Said)
         /\ ~Allows(o) => /\ TextAsked(o)' = TextAsked(o) /\ CodeAsked(o)' = CodeAsked(o)
                          /\ NumberAsked(o)' = NumberAsked(o)
<1>1. CallsOf(o) = {} /\ CallsOf(o)' = {}
      BY NoCalls DEF Reader, CallsOf
<1>2. Accepted(o)' = IF Allows(o) THEN Accepted(o) \cup {line} ELSE Accepted(o)
      BY GivenGrows DEF Reader, Allows, Said
<1>3. Allows(o) => Max(Accepted(o)') = line /\ Accepted(o)' # {}
      BY <1>2, GivenBefore, MaxTop DEF Reader
<1>4. config' = config
      BY DEF Reader
<1>5. CASE Allows(o)
      BY <1>1, <1>3, <1>4, <1>5 DEF TextAsked, CodeAsked, NumberAsked, NumberIn, Said
<1>6. CASE ~Allows(o)
      BY <1>1, <1>2, <1>4, <1>6 DEF TextAsked, CodeAsked, NumberAsked, NumberIn
<1>7. QED BY <1>5, <1>6

\* The options and their sections.
LEMMA Sections ==
  /\ \A o \in StringOptions \cup NumberOptions \cup ListOptions : o[1] \in KnownSections
  /\ ListOptions \cap (StringOptions \cup NumberOptions) = {}
  /\ Flags \subseteq NumberOptions /\ {ModuleFail, Tls} \subseteq NumberOptions /\ {ModuleFail, Tls} \cap Flags = {}
  /\ LibDir \in Plain /\ Modules \in ListOptions
<1>1. \A o \in Plain \cup Enumerated \cup {Facility} : o[1] \in KnownSections
      BY DEF Plain, Enumerated, In, Backend, BackendConnection, Driver, Facility, KnownSections
<1>2. \A o \in Flags \cup {ModuleFail, Tls} \cup PlainNumber : o[1] \in KnownSections
      BY DEF Flags, ModuleFail, Tls, PlainNumber, In, KnownSections
<1>3. \A o \in ListOptions : o[1] \in KnownSections
      BY DEF ListOptions, Modules, KnownSections
<1>4. ListOptions \cap (Plain \cup Enumerated \cup {Facility}) = {}
      BY DEF ListOptions, Modules, Plain, Enumerated, In, Backend, BackendConnection, Driver,
         Facility
<1>5. ListOptions \cap (Flags \cup {ModuleFail, Tls} \cup PlainNumber) = {}
      BY DEF ListOptions, Modules, Flags, ModuleFail, Tls, PlainNumber, In
<1>6. {ModuleFail, Tls} \cap Flags = {}
      BY DEF ModuleFail, Tls, Flags, In
<1>7. LibDir \in Plain /\ Modules \in ListOptions
      BY DEF LibDir, Plain, In, ListOptions
<1>8. QED BY <1>1, <1>2, <1>3, <1>4, <1>5, <1>6, <1>7 DEF StringOptions, NumberOptions

\* A text that the file asked for is neither NULL nor dangling.
LEMMA SaidTexts ==
  ASSUME config \in Configs, line \in 1..Len(config) + 1, NEW o, NEW i \in Given(o)
  PROVE  config[i].text \in Texts /\ config[i].text \notin {NULL, Freed}
<1>1. DOMAIN config = 1..Len(config) /\ Len(config) \in Nat
      BY FilesAssumption
<1>2. i \in 1..line - 1 /\ config[i].kind = "value"
      BY DEF Given
<1>3. i \in DOMAIN config
      BY <1>1, <1>2
<1>4. config[i].text \in Texts
      BY <1>2, <1>3, FilesAssumption
<1>5. QED BY <1>4, SettingsAssumption

\* A text after the line: the one that is asked for, or a wrong choice.
LEMMA TextAfterLine ==
  ASSUME Reader, line \in 1..Len(config) + 1, NEW o \in StringOptions, TextRead(o),
         strings'[o] = IF Allows(o) THEN Said
                       ELSE IF Says(o) /\ o \in Enumerated THEN AfterWrong(strings[o]) ELSE strings[o]
  PROVE  TextRead(o)'
<1>1. CallsOf(o) = {} /\ CallsOf(o)' = {}
      BY NoCalls DEF Reader, CallsOf
<1>2. /\ Given(o)' = IF Says(o) THEN Given(o) \cup {line} ELSE Given(o)
      /\ Accepted(o)' = IF Allows(o) THEN Accepted(o) \cup {line} ELSE Accepted(o)
      BY GivenGrows DEF Reader, Allows, Said
<1>3. CASE Allows(o)
      BY <1>3, LineAsks DEF TextRead
<1>4. CASE ~Allows(o)
  <2>1. TextAsked(o)' = TextAsked(o) /\ Accepted(o)' = Accepted(o)
        BY <1>2, <1>4, LineAsks
  <2>2. CASE ~(Says(o) /\ o \in Enumerated)
    <3>1. strings'[o] = strings[o]
          BY <1>4, <2>2
    <3>2. o \in Enumerated => Given(o)' = Given(o)
          BY <1>2, <2>2
    <3>3. QED BY <1>1, <2>1, <3>1, <3>2 DEF TextRead, Dangles
  <2>3. CASE Says(o) /\ o \in Enumerated
    <3>1. strings'[o] = AfterWrong(strings[o]) /\ Given(o)' = Given(o) \cup {line}
          BY <1>2, <1>4, <2>3
    <3>2. CASE Accepted(o) = {}
      <4>1. o # Facility
            BY <2>3, Kinds
      <4>2. TextAsked(o) = NULL
            BY <1>1, <3>2, <4>1 DEF TextAsked, DefaultString
      <4>3. strings[o] = NULL
            BY <3>2, <4>2 DEF TextRead, Dangles
      <4>4. QED BY <2>1, <3>1, <4>2, <4>3 DEF TextRead, AfterWrong
    <3>3. CASE Accepted(o) # {}
      <4>1. Max(Accepted(o)) \in Accepted(o)
            BY <3>3, GivenBefore, LastBefore DEF Reader
      <4>2. TextAsked(o) # NULL
        <5>1. TextAsked(o) = config[Max(Accepted(o))].text
              BY <1>1, <3>3 DEF TextAsked
        <5>2. Max(Accepted(o)) \in Given(o)
              BY <4>1, GivenBefore
        <5>3. config[Max(Accepted(o))].text # NULL
              BY <5>2, SaidTexts DEF Reader
        <5>4. QED BY <5>1, <5>3
      <4>3. strings[o] # NULL
            BY <4>2, SettingsAssumption DEF TextRead, Dangles
      <4>4. strings'[o] = Freed
            BY <3>1, <4>3 DEF AfterWrong
      <4>5. Max(Given(o)') = line
            BY <3>1, GivenBefore, MaxTop DEF Reader
      <4>6. Max(Accepted(o)) < line
        <5>1. Max(Accepted(o)) \in 1..line - 1
              BY <4>1, GivenBefore
        <5>2. QED BY <5>1 DEF Reader
      <4>7. QED BY <1>1, <2>1, <2>3, <3>3, <4>4, <4>5, <4>6 DEF TextRead, Dangles
    <3>4. QED BY <3>2, <3>3
  <2>4. QED BY <2>2, <2>3
<1>5. QED BY <1>3, <1>4

LEMMA NumberAfterLine ==
  ASSUME Reader, NEW o, NumberRight(o),
         numbers'[o] = IF Allows(o) THEN NumberIn(o, Said) ELSE numbers[o]
  PROVE  NumberRight(o)'
<1>1. LatePort(o)' = LatePort(o)
      BY DEF LatePort
<1>2. QED BY <1>1, LineAsks DEF NumberRight

LEMMA CodeAfterLine ==
  ASSUME Reader, NEW k \in CodeKeys, CodeRight(k),
         codes'[k] = IF Says(<<"smtpd", k>>) /\ Integer[k] \in 250..599 THEN Said ELSE codes[k]
  PROVE  CodeRight(k)'
<1> DEFINE o == <<"smtpd", k>>
<1>1. o \notin StringOptions \cup NumberOptions
      BY KeysAssumption
<1>2. \A t : Acceptable(o, t)
      BY <1>1, Sections DEF Acceptable, StringOptions
<1>3. CallsOf(o) = {} /\ CallsOf(o)' = {}
      BY NoCalls DEF Reader, CallsOf
<1>4. Says(o) <=> Allows(o)
      BY <1>2 DEF Allows
<1>5. CodeAsked(o)' = IF Says(o) THEN Said ELSE CodeAsked(o)
      BY <1>4, LineAsks
<1>6. codes[k] = IF Integer[k] \in 250..599 THEN CodeAsked(o) ELSE NULL
      BY <1>3 DEF CodeRight
<1> HIDE DEF o
<1>7. codes'[k] = IF Integer[k] \in 250..599 THEN CodeAsked(o)' ELSE NULL
      BY <1>5, <1>6 DEF o
<1>8. QED BY <1>3, <1>7 DEF CodeRight, o

LEMMA GroupAfterLine ==
  ASSUME Reader, NEW g \in GroupKeys, GroupRight(g),
         groups'[g] = IF Sets(g) THEN Said ELSE groups[g]
  PROVE  GroupRight(g)'
<1>1. SetFor(g)' = IF Sets(g) THEN SetFor(g) \cup {line} ELSE SetFor(g)
      BY GivenGrows DEF Reader
<1>2. Sets(g) => Max(SetFor(g)') = line
      BY <1>1, GivenBefore, MaxTop DEF Reader
<1>3. QED BY <1>1, <1>2 DEF GroupRight, Reader, Said

\* What a module is loaded from is known when its line is read, and later lines do not change it.
LEMMA LibDirRead ==
  ASSUME Reader, TextRead(LibDir), NEW i \in 1..line
  PROVE  LibDirAt(i)' = IF i = line THEN strings[LibDir] ELSE LibDirAt(i)
<1> DEFINE G  == Given(LibDir)
           G1 == Given(LibDir)'
           last(S) == IF S = {} THEN NULL ELSE config[Max(S)].text
<1>1. /\ G \in SUBSET (1..line - 1) /\ config' = config /\ line \in Nat \ {0}
      /\ G1 = IF Says(LibDir) THEN G \cup {line} ELSE G
      BY GivenBefore, GivenGrows DEF Reader
<1>2. LibDir \notin Enumerated \cup {Facility} /\ LibDir \notin {ModuleFail, Tls}
      BY DEF LibDir, Enumerated, Facility, Backend, BackendConnection, Driver, ModuleFail, Tls
<1>3. Accepted(LibDir) = G
      BY <1>2 DEF Accepted, Acceptable
<1>4. strings[LibDir] = last(G)
  <2>1. CallsOf(LibDir) = {} /\ ~Dangles(LibDir) /\ DefaultString(LibDir) = NULL
        BY <1>2, NoCalls DEF Reader, Dangles, DefaultString
  <2>2. QED BY <1>3, <2>1 DEF TextRead, TextAsked
<1>5. LibDirAt(i) = last({j \in G : j < i})
      BY DEF LibDirAt
<1>6. LibDirAt(i)' = last({j \in G1 : j < i})
      BY <1>1 DEF LibDirAt
<1> HIDE DEF G, G1
<1>7. {j \in G1 : j < i} = {j \in G : j < i} /\ {j \in G : j < line} = G
  <2>1. /\ \A j \in G : j \in Int /\ j < line
        /\ \A j \in G1 : j \in G \/ j = line
        /\ ~(line < i) /\ G \subseteq G1
        BY <1>1
  <2>2. QED BY <2>1
<1>8. QED BY <1>4, <1>5, <1>6, <1>7

\* A list of the file is one.
LEMMA FileListTyped ==
  ASSUME config \in Configs, line \in 1..Len(config) + 1, NEW o
  PROVE  FileList(o) \in Seq(Texts) /\ Len(FileList(o)) \in Nat
<1>1. CASE Given(o) = {}
      BY <1>1 DEF FileList
<1>2. CASE Given(o) # {}
  <2>1. Len(config) \in Nat
        BY FilesAssumption
  <2>2. line \in Nat \ {0}
        BY <2>1
  <2>3. Max(Given(o)) \in Given(o)
        BY <1>2, <2>2, GivenBefore, LastBefore
  <2>4. config[Max(Given(o))].text \in Texts
        BY <2>3, SaidTexts
  <2>5. FileList(o) \in Seq(Texts)
        BY <1>2, <2>4, SettingsAssumption DEF FileList
  <2>6. QED BY <2>5
<1>3. QED BY <1>1, <1>2

\* Without calls a list is what the file says.
LEMMA ListOfFile ==
  ASSUME NEW o, CallsOf(o)' = {}, \E V : lists'[o] \in Seq(V), Len(FileList(o)') \in Nat,
         Len(lists'[o]) = Len(FileList(o)'),
         \A i \in DOMAIN FileList(o)' :
           lists'[o][i] = IF o = Modules THEN <<FileList(o)'[i], LibDirAt(Max(Given(o)))'>>
                          ELSE FileList(o)'[i]
  PROVE  ListRight(o)'
<1>1. Cardinality(CallsOf(o)') = 0
      BY FS_EmptySet
<1>2. Len(lists'[o]) = Len(FileList(o)') + Cardinality(CallsOf(o)')
      BY <1>1
<1>3. \A i \in CallsOf(o)' : FALSE
      OBVIOUS
<1>4. QED BY <1>2, <1>3 DEF ListRight

LEMMA ListAfterLine ==
  ASSUME Reader, line \in 1..Len(config) + 1, NEW o \in ListOptions, ListRight(o), TextRead(LibDir),
         lists'[o] = IF Says(o) THEN Elements(o, Said) ELSE lists[o]
  PROVE  ListRight(o)'
<1>1. CallsOf(o) = {} /\ CallsOf(o)' = {} /\ Cardinality({}) = 0
      BY NoCalls, FS_EmptySet DEF Reader, CallsOf
<1>2. /\ Given(o)' = IF Says(o) THEN Given(o) \cup {line} ELSE Given(o)
      /\ config' = config
      BY GivenGrows DEF Reader
<1>3. CASE Says(o)
  <2> DEFINE f == Items[Said]
  <2>1. Given(o)' # {} /\ Max(Given(o)') = line
        BY <1>2, <1>3, GivenBefore, MaxTop DEF Reader
  <2>2. FileList(o)' = f
        BY <1>2, <2>1 DEF FileList, Said
  <2>3. f \in Seq(Texts)
        BY <1>3, FilesAssumption, SettingsAssumption DEF Reader, Says, Sets, Said
  <2>4. DOMAIN f = 1..Len(f) /\ Len(f) \in Nat
        BY <2>3
  <2> HIDE DEF f
  <2>5. CASE o # Modules
    <3>1. lists'[o] = f
          BY <1>3, <2>5 DEF Elements, f
    <3>2. QED BY <1>1, <2>2, <2>3, <2>4, <2>5, <3>1, ListOfFile
  <2>6. CASE o = Modules
    <3> DEFINE d == strings[LibDir]
               W == {<<f[i], d>> : i \in DOMAIN f}
    <3>1. lists'[o] = [i \in DOMAIN f |-> <<f[i], d>>]
          BY <1>3, <2>6 DEF Elements, f
    <3> HIDE DEF d
    <3>2. lists'[o] \in Seq(W) /\ Len(lists'[o]) = Len(f)
          BY <2>4, <3>1
    <3>3. \E V : lists'[o] \in Seq(V)
          BY <3>2
    <3>4. LibDirAt(Max(Given(o)))' = d
      <4>1. PICK n : n = line
            OBVIOUS
      <4>2. LibDirAt(n)' = d
            BY <4>1, LibDirRead DEF Reader, d
      <4>3. Max(Given(o)') = n
            BY <2>1, <4>1
      <4>4. QED BY <4>2, <4>3 DEF LibDirAt
    <3> HIDE DEF W
    <3>5. \A i \in DOMAIN FileList(o)' : lists'[o][i] = <<FileList(o)'[i], LibDirAt(Max(Given(o)))'>>
          BY <2>2, <3>1, <3>4
    <3>6. QED BY <1>1, <2>2, <2>4, <2>6, <3>2, <3>3, <3>5, ListOfFile
  <2>7. QED BY <2>5, <2>6
<1>4. CASE ~Says(o)
  <2>1. Given(o)' = Given(o) /\ FileList(o)' = FileList(o) /\ lists'[o] = lists[o]
        BY <1>2, <1>4 DEF FileList
  <2>2. Given(o) # {} => Max(Given(o)) \in 1..line - 1
        BY GivenBefore, LastBefore DEF Reader
  <2>3. Given(o) # {} => LibDirAt(Max(Given(o)))' = LibDirAt(Max(Given(o)))
    <3> SUFFICES ASSUME Given(o) # {} PROVE LibDirAt(Max(Given(o)))' = LibDirAt(Max(Given(o)))
        OBVIOUS
    <3>1. PICK n : n = Max(Given(o))
          OBVIOUS
    <3>2. n \in 1..line /\ n # line
          BY <2>2, <3>1 DEF Reader
    <3>3. LibDirAt(n)' = LibDirAt(n)
          BY <3>2, LibDirRead
    <3>4. QED BY <2>1, <3>1, <3>3 DEF LibDirAt
  <2>4. Given(o) = {} => FileList(o) = <<>>
        BY DEF FileList
  <2>5. Len(FileList(o)) \in Nat
        BY FileListTyped DEF Reader
  <2>6. Len(lists[o]) = Len(FileList(o)) + 0
        BY <1>1 DEF ListRight
  <2>7. Len(lists'[o]) = Len(FileList(o)')
        BY <2>1, <2>5, <2>6
  <2>8. (\E V : lists'[o] \in Seq(V)) /\ Len(FileList(o)') \in Nat
        BY <2>1, <2>5 DEF ListRight
  <2>9. DOMAIN FileList(o) # {} => Given(o) # {}
        BY <2>4
  <2>10. \A i \in DOMAIN FileList(o)' :
           lists'[o][i] = IF o = Modules THEN <<FileList(o)'[i], LibDirAt(Max(Given(o)))'>>
                          ELSE FileList(o)'[i]
        BY <2>1, <2>3, <2>9 DEF ListRight
  <2>11. QED BY <1>1, <2>7, <2>8, <2>10, ListOfFile
<1>5. QED BY <1>3, <1>4

(***************************************************************************)
(* A line of the file: what _set_config_value makes of it.                 *)
(***************************************************************************)

\* What a value that is not empty does to the options.
Effect(o, t) ==
  /\ \A e \in StringOptions :
       strings'[e] = IF e # o THEN strings[e] ELSE IF Acceptable(e, t) THEN t
                     ELSE IF e \in Enumerated THEN AfterWrong(strings[e]) ELSE strings[e]
  /\ \A e \in NumberOptions :
       numbers'[e] = IF e = o /\ Acceptable(e, t) THEN NumberIn(e, t) ELSE numbers[e]
  /\ \A e \in ListOptions : lists'[e] = IF e = o THEN Elements(e, t) ELSE lists[e]
  /\ \A k \in CodeKeys :
       codes'[k] = IF o = <<"smtpd", k>> /\ Integer[k] \in 250..599 THEN t ELSE codes[k]
  /\ DOMAIN lists' = ListOptions /\ DOMAIN codes' = CodeKeys

OptionTypes ==
  /\ DOMAIN strings = StringOptions /\ numbers \in [NumberOptions -> Int]
  /\ DOMAIN lists = ListOptions /\ DOMAIN codes = CodeKeys

\* What a file may choose, kind by kind.
LEMMA FileChoices ==
  ASSUME NEW e, NEW t \in Texts
  PROVE  /\ e \in Enumerated \cup {Facility} => (Acceptable(e, t) <=> t \in Allowed(e))
         /\ e \in Plain \cup Flags => Acceptable(e, t)
         /\ e \in NumberOptions \ Flags => (Acceptable(e, t) <=> Integer[t] \in NumberRange(e))
<1>0. Integer[t] \in Int
      BY SettingsAssumption
<1>1. e \in Enumerated \cup {Facility} => (Acceptable(e, t) <=> t \in Allowed(e))
  <2>1. e \in Enumerated \cup {Facility} => e \notin NumberOptions
        BY Kinds DEF StringOptions
  <2>2. e \in Enumerated \cup {Facility} => e # ModuleFail /\ e # Tls
        BY <2>1, Sections
  <2>3. QED BY <2>2 DEF Acceptable
<1>2. e \in Plain \cup Flags => e \notin Enumerated \cup {Facility} /\ e # ModuleFail /\ e # Tls
  <2>1. e \in Plain => e # ModuleFail /\ e # Tls
        BY DEF Plain, In, ModuleFail, Tls
  <2>2. e \in Flags => e \notin Enumerated \cup {Facility}
        BY Kinds DEF StringOptions, NumberOptions
  <2>3. QED BY <2>1, <2>2, Kinds, Sections
<1>3. e \in NumberOptions => e \notin Enumerated \cup {Facility}
      BY Kinds DEF StringOptions
<1>4. ModuleFail # Tls
      BY DEF ModuleFail, Tls
<1>5. e \in NumberOptions => (Acceptable(e, t) <=> Integer[t] \in NumberRange(e))
      BY <1>0, <1>3, <1>4 DEF Acceptable, NumberRange
<1>6. e \in Plain \cup Flags => Acceptable(e, t)
      BY <1>2 DEF Acceptable
<1>7. QED BY <1>1, <1>5, <1>6

\* Options that a section does not have.
LEMMA InSections ==
  /\ \A e \in Enumerated \cup {Facility} : e[1] = "global" \/ (e = Driver /\ e[1] = "sql")
  /\ \A e \in NumberOptions \ Flags : e \in {ModuleFail, Tls} => e[1] = "global"
  /\ \A e \in Flags : e[1] \in {"global", "ldap"}
  /\ \A e \in ListOptions : e[1] # "smtpd"
<1>1. \A e \in Enumerated \cup {Facility} : e[1] = "global" \/ (e = Driver /\ e[1] = "sql")
  <2>1. Backend[1] = "global" /\ BackendConnection[1] = "global" /\ Facility[1] = "global" /\ Driver[1] = "sql"
        BY DEF Facility, Backend, BackendConnection, Driver
  <2>2. \A e \in Enumerated \cup {Facility} :
          e = Backend \/ e = BackendConnection \/ e = Facility \/ e = Driver
        BY DEF Enumerated
  <2>3. QED BY <2>1, <2>2
<1>2. \A e \in Flags : e[1] \in {"global", "ldap"}
      BY DEF Flags, In
<1>3. \A e \in ListOptions : e[1] # "smtpd"
      BY DEF ListOptions, Modules
<1>4. ModuleFail[1] = "global" /\ Tls[1] = "global"
      BY DEF ModuleFail, Tls
<1>5. QED BY <1>1, <1>2, <1>3, <1>4

\* One option takes a value.
LEMMA TextStored ==
  ASSUME OptionTypes, NEW o, NEW v, StoreText(o, v)
  PROVE  \A e \in StringOptions : strings'[e] = IF e = o THEN v ELSE strings[e]
BY DEF OptionTypes, StoreText

LEMMA NumberStored ==
  ASSUME OptionTypes, NEW o, NEW v, IF o \in NumberOptions THEN StoreNumber(o, v) ELSE UNCHANGED numbers
  PROVE  \A e \in NumberOptions : numbers'[e] = IF e = o THEN v ELSE numbers[e]
BY DEF OptionTypes, StoreNumber

LEMMA ListStored ==
  ASSUME OptionTypes, NEW o, NEW t, StoreList(o, t)
  PROVE  /\ DOMAIN lists' = ListOptions
         /\ \A e \in ListOptions : lists'[e] = IF e = o THEN Elements(e, t) ELSE lists[e]
BY DEF OptionTypes, StoreList

LEMMA GlobalEffect ==
  ASSUME OptionTypes, NEW o, NEW t \in Texts, o[1] = "global", SetGlobal(o, t)
  PROVE  Effect(o, t)
<1> USE Kinds, Sections
<1>1. \A k \in CodeKeys : o # <<"smtpd", k>>
      OBVIOUS
<1>2. codes' = codes /\ DOMAIN codes' = CodeKeys
      BY DEF SetGlobal, OptionTypes
<1>3. CASE o \in StringOptions
  <2>1. StoreText(o, GlobalText(o, t)) /\ numbers' = numbers /\ lists' = lists
        BY <1>3 DEF SetGlobal
  <2>2. GlobalText(o, t) = IF Acceptable(o, t) THEN t
                           ELSE IF o \in Enumerated THEN AfterWrong(strings[o]) ELSE strings[o]
    <3>1. CASE o \in Plain
          BY <3>1, FileChoices DEF GlobalText
    <3>2. CASE o \in Enumerated
          BY <3>2, FileChoices DEF GlobalText
    <3>3. CASE o = Facility
          BY <3>3, FileChoices DEF GlobalText
    <3>4. QED BY <1>3, <3>1, <3>2, <3>3 DEF StringOptions
  <2>3. \A e \in StringOptions : strings'[e] = IF e = o THEN GlobalText(o, t) ELSE strings[e]
        BY <2>1, TextStored
  <2>4. o \notin NumberOptions /\ o \notin ListOptions
        BY <1>3
  <2>5. DOMAIN lists' = ListOptions
        BY <2>1 DEF OptionTypes
  <2>6. QED BY <1>1, <1>2, <2>1, <2>2, <2>3, <2>4, <2>5 DEF Effect
<1>4. CASE o \in NumberOptions
  <2>1. StoreNumber(o, GlobalNumber(o, t)) /\ strings' = strings /\ lists' = lists
        BY <1>4 DEF SetGlobal
  <2>2. GlobalNumber(o, t) = IF Acceptable(o, t) THEN NumberIn(o, t) ELSE numbers[o]
        BY <1>4, FileChoices DEF GlobalNumber, NumberIn
  <2>3. \A e \in NumberOptions : numbers'[e] = IF e = o THEN GlobalNumber(o, t) ELSE numbers[e]
        BY <1>4, <2>1, NumberStored
  <2>4. o \notin StringOptions /\ o \notin ListOptions
        BY <1>4
  <2>5. DOMAIN lists' = ListOptions
        BY <2>1 DEF OptionTypes
  <2>6. QED BY <1>1, <1>2, <2>1, <2>2, <2>3, <2>4, <2>5 DEF Effect
<1>5. CASE o \notin StringOptions \cup NumberOptions
  <2>1. StoreList(o, t) /\ strings' = strings /\ numbers' = numbers
        BY <1>5 DEF SetGlobal
  <2>2. /\ DOMAIN lists' = ListOptions
        /\ \A e \in ListOptions : lists'[e] = IF e = o THEN Elements(e, t) ELSE lists[e]
        BY <2>1, ListStored
  <2>3. /\ \A e \in StringOptions : e # o /\ strings'[e] = strings[e]
        /\ \A e \in NumberOptions : e # o /\ numbers'[e] = numbers[e]
        BY <1>5, <2>1
  <2>4. QED BY <1>1, <1>2, <2>2, <2>3 DEF Effect
<1>6. QED BY <1>3, <1>4, <1>5

LEMMA SqlEffect ==
  ASSUME OptionTypes, NEW o, NEW t \in Texts, o[1] = "sql", SetSql(o, t)
  PROVE  Effect(o, t)
<1> USE Kinds, Sections, InSections
<1> DEFINE v == IF o # Driver \/ t \in Allowed(o) THEN t ELSE AfterWrong(strings[o])
<1>1. \A k \in CodeKeys : o # <<"smtpd", k>>
      OBVIOUS
<1>2. codes' = codes /\ DOMAIN codes' = CodeKeys
      BY DEF SetSql, OptionTypes
<1>3. o \in StringOptions => v = IF Acceptable(o, t) THEN t
                                 ELSE IF o \in Enumerated THEN AfterWrong(strings[o]) ELSE strings[o]
  <2>1. CASE o = Driver
        BY <2>1, FileChoices DEF Enumerated
  <2>2. CASE o # Driver
        BY <2>2, FileChoices DEF StringOptions
  <2>3. QED BY <2>1, <2>2
<1>4. o \in NumberOptions => Acceptable(o, t) /\ NumberIn(o, t) = Integer[t]
  <2>1. o \in NumberOptions => o \notin Flags /\ o # ModuleFail /\ o # Tls
        BY DEF ModuleFail, Tls
  <2>2. Integer[t] \in Int
        BY SettingsAssumption
  <2>3. QED BY <2>1, <2>2, FileChoices DEF NumberRange, NumberIn
<1>5. StoreText(o, v)
      BY DEF SetSql
<1> HIDE DEF v
<1>6. \A e \in StringOptions : strings'[e] = IF e = o THEN v ELSE strings[e]
      BY <1>5, TextStored
<1>7. \A e \in NumberOptions : numbers'[e] = IF e = o THEN Integer[t] ELSE numbers[e]
  <2>1. IF o \in NumberOptions THEN StoreNumber(o, Integer[t]) ELSE UNCHANGED numbers
        BY DEF SetSql
  <2>2. QED BY <2>1, NumberStored
<1>8. /\ DOMAIN lists' = ListOptions
      /\ \A e \in ListOptions : lists'[e] = IF e = o THEN Elements(e, t) ELSE lists[e]
  <2>1. StoreList(o, t)
        BY DEF SetSql
  <2>2. QED BY <2>1, ListStored
<1>9. QED BY <1>1, <1>2, <1>3, <1>4, <1>6, <1>7, <1>8 DEF Effect

LEMMA LdapEffect ==
  ASSUME OptionTypes, NEW o, NEW t \in Texts, o[1] = "ldap", SetLdap(o, t)
  PROVE  Effect(o, t)
<1> USE Kinds, Sections, InSections
<1>1. \A k \in CodeKeys : o # <<"smtpd", k>>
      OBVIOUS
<1>2. codes' = codes /\ DOMAIN codes' = CodeKeys
      BY DEF SetLdap, OptionTypes
<1>3. o \in StringOptions => Acceptable(o, t)
      BY FileChoices DEF StringOptions
<1> DEFINE n == IF o \in Flags THEN Boolean[t] ELSE Integer[t]
<1>4. o \in NumberOptions => Acceptable(o, t) /\ NumberIn(o, t) = n
  <2>1. o # ModuleFail /\ o # Tls
        BY DEF ModuleFail, Tls
  <2>2. Integer[t] \in Int
        BY SettingsAssumption
  <2>3. QED BY <2>1, <2>2, FileChoices DEF NumberRange, NumberIn
<1>5. \A e \in StringOptions : strings'[e] = IF e = o THEN t ELSE strings[e]
  <2>1. StoreText(o, t)
        BY DEF SetLdap
  <2>2. QED BY <2>1, TextStored
<1>6. \A e \in NumberOptions : numbers'[e] = IF e = o THEN n ELSE numbers[e]
  <2>1. IF o \in NumberOptions THEN StoreNumber(o, n) ELSE UNCHANGED numbers
        BY DEF SetLdap
  <2> HIDE DEF n
  <2>2. QED BY <2>1, NumberStored
<1>7. /\ DOMAIN lists' = ListOptions
      /\ \A e \in ListOptions : lists'[e] = IF e = o THEN Elements(e, t) ELSE lists[e]
  <2>1. StoreList(o, t)
        BY DEF SetLdap
  <2>2. QED BY <2>1, ListStored
<1> HIDE DEF n
<1>8. QED BY <1>1, <1>2, <1>3, <1>4, <1>5, <1>6, <1>7 DEF Effect

LEMMA SmtpdEffect ==
  ASSUME OptionTypes, NEW key, NEW t \in Texts, SetSmtpd(<<"smtpd", key>>, t)
  PROVE  Effect(<<"smtpd", key>>, t)
<1> USE Kinds, Sections, InSections
<1> DEFINE o == <<"smtpd", key>>
<1>0. o[1] = "smtpd" /\ o[2] = key
      OBVIOUS
<1>1. \A k \in CodeKeys : o = <<"smtpd", k>> <=> k = key
      OBVIOUS
<1>2. /\ DOMAIN codes' = CodeKeys
      /\ \A k \in CodeKeys : codes'[k] = IF k = key /\ Integer[k] \in 250..599 THEN t ELSE codes[k]
  <2>1. codes' = IF o \notin StringOptions \cup NumberOptions /\ key \in CodeKeys /\ Integer[key] \in 250..599
                 THEN [codes EXCEPT ![key] = t] ELSE codes
        BY <1>0 DEF SetSmtpd
  <2>2. key \in CodeKeys => o \notin StringOptions \cup NumberOptions
        BY KeysAssumption
  <2>3. QED BY <2>1, <2>2 DEF OptionTypes
<1>3. o \in StringOptions => Acceptable(o, t)
      BY <1>0, FileChoices DEF StringOptions
<1>4. o \in NumberOptions => Acceptable(o, t) /\ NumberIn(o, t) = Integer[t]
  <2>1. o \in NumberOptions => o \notin Flags /\ o # ModuleFail /\ o # Tls
        BY <1>0 DEF ModuleFail, Tls
  <2>2. Integer[t] \in Int
        BY SettingsAssumption
  <2>3. QED BY <2>1, <2>2, FileChoices DEF NumberRange, NumberIn
<1>5. StoreText(o, t) /\ UNCHANGED lists
      BY DEF SetSmtpd
<1>6. IF o \in NumberOptions THEN StoreNumber(o, Integer[t]) ELSE UNCHANGED numbers
      BY DEF SetSmtpd
<1>7. \A e \in ListOptions : e # o
      BY <1>0
<1> HIDE DEF o
<1>8. \A e \in StringOptions : strings'[e] = IF e = o THEN t ELSE strings[e]
      BY <1>5, TextStored
<1>9. \A e \in NumberOptions : numbers'[e] = IF e = o THEN Integer[t] ELSE numbers[e]
      BY <1>6, NumberStored
<1>10. DOMAIN lists' = ListOptions
      BY <1>5 DEF OptionTypes
<1>11. Effect(o, t)
      BY <1>1, <1>2, <1>3, <1>4, <1>5, <1>7, <1>8, <1>9, <1>10 DEF Effect
<1>12. QED BY <1>11 DEF o

LEMMA ValueEffect ==
  ASSUME OptionTypes, NEW key, NEW t \in Texts, t # Empty, section \in KnownSections,
         SetConfigValue(<<section, key>>, t)
  PROVE  Effect(<<section, key>>, t)
<1> DEFINE o == <<section, key>>
<1>1. o[1] = section
      OBVIOUS
<1>2. \/ section = "global" /\ SetGlobal(o, t)
      \/ section = "sql" /\ SetSql(o, t)
      \/ section = "ldap" /\ SetLdap(o, t)
      \/ section = "smtpd" /\ SetSmtpd(o, t)
      BY <1>1 DEF SetConfigValue
<1>3. CASE section = "smtpd"
      BY <1>2, <1>3, SmtpdEffect
<1> HIDE DEF o
<1>4. CASE section = "global"
  <2>1. Effect(o, t)
        BY <1>1, <1>2, <1>4, GlobalEffect
  <2>2. QED BY <2>1 DEF o
<1>5. CASE section = "sql"
  <2>1. Effect(o, t)
        BY <1>1, <1>2, <1>5, SqlEffect
  <2>2. QED BY <2>1 DEF o
<1>6. CASE section = "ldap"
  <2>1. Effect(o, t)
        BY <1>1, <1>2, <1>6, LdapEffect
  <2>2. QED BY <2>1 DEF o
<1>7. QED BY <1>3, <1>4, <1>5, <1>6 DEF KnownSections

(***************************************************************************)
(* A line of the file keeps the invariant.                                 *)
(***************************************************************************)

\* What the invariant says while lines are read.
ReadInv ==
  /\ \A o \in StringOptions : TextRead(o)
  /\ \A o \in NumberOptions : NumberRight(o)
  /\ \A o \in ListOptions : ListRight(o)
  /\ \A k \in CodeKeys : CodeRight(k)
  /\ \A g \in GroupKeys : GroupRight(g)

\* The value of a line goes to the option of its section and key.
LEMMA ValueRead ==
  ASSUME ReadInv, OptionTypes, DOMAIN groups = GroupKeys, Reader, line \in 1..Len(config) + 1,
         config[line].kind = "value", section = SectionOf(line),
         LET o == <<section, config[line].key>> IN
           IF section \in KnownSections
           THEN SetConfigValue(o, Said) /\ UNCHANGED groups
           ELSE /\ groups' = [groups EXCEPT ![o] = Said]
                /\ UNCHANGED <<strings, numbers, lists, codes>>
  PROVE  ReadInv' /\ DOMAIN lists' = ListOptions /\ DOMAIN codes' = CodeKeys /\ DOMAIN groups' = GroupKeys
<1> DEFINE o == <<section, config[line].key>>
<1>1. \A e : Sets(e) <=> e = o
      BY DEF Sets
<1>2. \A e : Says(e) <=> e = o /\ Said # Empty
      BY <1>1 DEF Says, Said
<1>3. \A e : Allows(e) <=> Says(e) /\ Acceptable(e, Said)
      BY DEF Allows
<1>4. Said \in Texts
      BY FilesAssumption DEF Reader, Said
<1>5. o[1] = section
      OBVIOUS
<1> HIDE DEF o
<1>6. CASE section \in KnownSections /\ Said # Empty
  <2>1. Effect(o, Said) /\ groups' = groups
        BY <1>4, <1>6, ValueEffect DEF o
  <2>2. \A e \in StringOptions : TextRead(e)'
    <3> TAKE e \in StringOptions
    <3>1. strings'[e] = IF Allows(e) THEN Said
                        ELSE IF Says(e) /\ e \in Enumerated THEN AfterWrong(strings[e]) ELSE strings[e]
          BY <1>2, <1>3, <1>6, <2>1 DEF Effect
    <3>2. QED BY <3>1, TextAfterLine DEF ReadInv
  <2>3. \A e \in NumberOptions : NumberRight(e)'
    <3> TAKE e \in NumberOptions
    <3>1. numbers'[e] = IF Allows(e) THEN NumberIn(e, Said) ELSE numbers[e]
          BY <1>2, <1>3, <1>6, <2>1 DEF Effect
    <3>2. QED BY <3>1, NumberAfterLine DEF ReadInv
  <2>4. \A e \in ListOptions : ListRight(e)'
    <3> TAKE e \in ListOptions
    <3>1. lists'[e] = IF Says(e) THEN Elements(e, Said) ELSE lists[e]
          BY <1>2, <1>6, <2>1 DEF Effect
    <3>2. LibDir \in StringOptions
          BY Sections DEF StringOptions
    <3>3. QED BY <3>1, <3>2, ListAfterLine DEF ReadInv
  <2>5. \A k \in CodeKeys : CodeRight(k)'
    <3> TAKE k \in CodeKeys
    <3>1. codes'[k] = IF Says(<<"smtpd", k>>) /\ Integer[k] \in 250..599 THEN Said ELSE codes[k]
          BY <1>2, <1>6, <2>1 DEF Effect
    <3>2. QED BY <3>1, CodeAfterLine DEF ReadInv
  <2>6. \A g \in GroupKeys : GroupRight(g)'
    <3> TAKE g \in GroupKeys
    <3>1. g # o
          BY <1>5, <1>6, KeysAssumption
    <3>2. groups'[g] = IF Sets(g) THEN Said ELSE groups[g]
          BY <1>1, <2>1, <3>1
    <3>3. QED BY <3>2, GroupAfterLine DEF ReadInv
  <2>7. QED BY <2>1, <2>2, <2>3, <2>4, <2>5, <2>6 DEF ReadInv, Effect
<1>7. CASE section \notin KnownSections \/ Said = Empty
  <2>1. /\ UNCHANGED <<strings, numbers, lists, codes>> /\ DOMAIN groups' = GroupKeys
        /\ groups' = IF section \in KnownSections THEN groups ELSE [groups EXCEPT ![o] = Said]
        BY <1>7 DEF SetConfigValue, o
  <2>2. \A e \in StringOptions \cup NumberOptions \cup ListOptions : ~Says(e) /\ ~Allows(e)
    <3> TAKE e \in StringOptions \cup NumberOptions \cup ListOptions
    <3>1. e[1] \in KnownSections
          BY Sections
    <3>2. QED BY <1>2, <1>3, <1>5, <1>7, <3>1
  <2>3. \A e \in StringOptions : TextRead(e)'
    <3> TAKE e \in StringOptions
    <3>1. strings'[e] = IF Allows(e) THEN Said
                        ELSE IF Says(e) /\ e \in Enumerated THEN AfterWrong(strings[e]) ELSE strings[e]
          BY <2>1, <2>2
    <3>2. QED BY <3>1, TextAfterLine DEF ReadInv
  <2>4. \A e \in NumberOptions : NumberRight(e)'
    <3> TAKE e \in NumberOptions
    <3>1. numbers'[e] = IF Allows(e) THEN NumberIn(e, Said) ELSE numbers[e]
          BY <2>1, <2>2
    <3>2. QED BY <3>1, NumberAfterLine DEF ReadInv
  <2>5. \A e \in ListOptions : ListRight(e)'
    <3> TAKE e \in ListOptions
    <3>1. lists'[e] = IF Says(e) THEN Elements(e, Said) ELSE lists[e]
          BY <2>1, <2>2
    <3>2. LibDir \in StringOptions
          BY Sections DEF StringOptions
    <3>3. QED BY <3>1, <3>2, ListAfterLine DEF ReadInv
  <2>6. \A k \in CodeKeys : CodeRight(k)'
    <3> TAKE k \in CodeKeys
    <3>1. ~Says(<<"smtpd", k>>)
      <4>1. <<"smtpd", k>>[1] \in KnownSections
            BY DEF KnownSections
      <4>2. QED BY <1>2, <1>5, <1>7, <4>1
    <3>2. codes'[k] = IF Says(<<"smtpd", k>>) /\ Integer[k] \in 250..599 THEN Said ELSE codes[k]
          BY <2>1, <3>1
    <3>3. QED BY <3>2, CodeAfterLine DEF ReadInv
  <2>7. \A g \in GroupKeys : GroupRight(g)'
    <3> TAKE g \in GroupKeys
    <3>1. section \in KnownSections => g # o
          BY <1>5, KeysAssumption
    <3>2. groups'[g] = IF Sets(g) THEN Said ELSE groups[g]
          BY <1>1, <2>1, <3>1
    <3>3. QED BY <3>2, GroupAfterLine DEF ReadInv
  <2>8. QED BY <2>1, <2>3, <2>4, <2>5, <2>6, <2>7 DEF ReadInv, OptionTypes
<1>8. QED BY <1>6, <1>7

\* Lines without a value ask for nothing.
LEMMA OtherRead ==
  ASSUME ReadInv, Reader, line \in 1..Len(config) + 1, config[line].kind # "value", UNCHANGED options
  PROVE  ReadInv'
<1>1. \A e : ~Sets(e) /\ ~Says(e) /\ ~Allows(e)
      BY DEF Sets, Says, Allows
<1>2. UNCHANGED <<strings, numbers, lists, codes, groups>>
      BY DEF options
<1>3. \A e \in StringOptions : TextRead(e)'
      BY <1>1, <1>2, TextAfterLine DEF ReadInv
<1>4. \A e \in NumberOptions : NumberRight(e)'
      BY <1>1, <1>2, NumberAfterLine DEF ReadInv
<1>5. \A e \in ListOptions : ListRight(e)'
  <2>1. LibDir \in StringOptions
        BY Sections DEF StringOptions
  <2>2. QED BY <1>1, <1>2, <2>1, ListAfterLine DEF ReadInv
<1>6. \A k \in CodeKeys : CodeRight(k)'
      BY <1>1, <1>2, CodeAfterLine DEF ReadInv
<1>7. \A g \in GroupKeys : GroupRight(g)'
      BY <1>1, <1>2, GroupAfterLine DEF ReadInv
<1>8. QED BY <1>3, <1>4, <1>5, <1>6, <1>7 DEF ReadInv

(***************************************************************************)
(* Sections.                                                               *)
(***************************************************************************)
Named(i) == {j \in 1..i - 1 : config[j].kind = "section" /\ config[j].name # Empty}

LEMMA SectionRead ==
  ASSUME Reader, line \in 1..Len(config) + 1, pc \in Reads, SectionInv,
         IF config[line].kind # "section" THEN section' = section
         ELSE section' = IF config[line].name # Empty THEN config[line].name
                         ELSE IF section = NULL THEN Empty ELSE section
  PROVE  SectionInv'
<1> DEFINE N  == Named(line)
           N1 == Named(line)'
           isSection == config[line].kind = "section"
           some == \E j \in 1..line - 1 : config[j].kind = "section"
<1>1. /\ line \in Nat \ {0} /\ line \in DOMAIN config /\ config \in Configs
      /\ config' = config /\ line' = line + 1 /\ calls' = <<>>
      BY DEF Reader
<1>2. DOMAIN config = 1..Len(config) /\ Len(config) \in Nat
      BY <1>1, FilesAssumption
<1>3. line' \in 1..Len(config') + 1
      BY <1>1, <1>2
<1>4. 1..line' - 1 = 1..line - 1 \cup {line}
      BY <1>1
<1>5. (\E j \in 1..line' - 1 : config'[j].kind = "section") <=> (some \/ isSection)
      BY <1>1, <1>4
<1>6. N1 = IF isSection /\ config[line].name # Empty THEN N \cup {line} ELSE N
      BY <1>1, <1>4 DEF Named
<1>7. N \in SUBSET (1..line - 1)
      BY DEF Named
<1>8. SectionOf(line) = IF N = {} THEN Empty ELSE config[Max(N)].name
      BY DEF SectionOf, Named
<1>9. SectionOf(line)' = IF N1 = {} THEN Empty ELSE config[Max(N1)].name
      BY <1>1 DEF SectionOf, Named
<1>10. IF some THEN section = SectionOf(line) ELSE section = NULL
      BY DEF SectionInv
<1>11. ~some => N = {}
      BY DEF Named
<1>12. some => section # NULL
  <2>1. N # {} => Max(N) \in N
        BY <1>1, <1>7, LastBefore
  <2>2. \A j \in N : j \in DOMAIN config /\ config[j].kind = "section"
        BY <1>1, <1>2 DEF Named
  <2>3. \A j \in N : config[j].name # NULL
        BY <1>1, <2>2, FilesAssumption
  <2>4. Empty # NULL
        BY SettingsAssumption
  <2> HIDE DEF N
  <2>5. QED BY <1>8, <1>10, <2>1, <2>3, <2>4
<1>13. Max(N \cup {line}) = line
      BY <1>1, <1>7, MaxTop
<1>14. SectionOf(line)' = IF isSection /\ config[line].name # Empty THEN config[line].name ELSE SectionOf(line)
  <2> HIDE DEF N, N1
  <2>1. N \cup {line} # {}
        OBVIOUS
  <2>2. QED BY <1>6, <1>8, <1>9, <1>13, <2>1
<1>15. IF some \/ isSection THEN section' = SectionOf(line)' ELSE section' = NULL
  <2>1. CASE ~isSection
        BY <1>10, <1>14, <2>1
  <2>2. CASE isSection /\ config[line].name # Empty
        BY <1>14, <2>2
  <2>3. CASE isSection /\ config[line].name = Empty /\ some
        BY <1>10, <1>12, <1>14, <2>3
  <2>4. CASE isSection /\ config[line].name = Empty /\ ~some
        BY <1>8, <1>10, <1>11, <1>14, <2>4
  <2>5. QED BY <2>1, <2>2, <2>3, <2>4
<1> HIDE DEF N, N1
<1>16. QED BY <1>1, <1>3, <1>5, <1>15 DEF SectionInv

\* A line is read, and the process goes on or breaks down.
LEMMA LineHolds ==
  ASSUME SettingsTypes, SettingsInv, pc \in Reads, SkipLine \/ SectionLine \/ ValueLine
  PROVE  SettingsInv'
<1>1. /\ config \in Configs /\ config' = config /\ line' = line + 1 /\ calls' = calls /\ calls = <<>>
      /\ line \in Nat \ {0} /\ line <= Len(config)
      BY DEF SettingsTypes, SettingsInv, SectionInv, SkipLine, SectionLine, ValueLine, Advance,
         Reading
<1>2. DOMAIN config = 1..Len(config) /\ Len(config) \in Nat
      BY <1>1, FilesAssumption
<1>3. Reader /\ line \in 1..Len(config) + 1
      BY <1>1, <1>2 DEF Reader
<1>4. ReadInv /\ OptionTypes
      BY DEF SettingsInv, RightInv, ReadInv, OptionTypes, SettingsTypes, DomainsInv
<1>5. CallsTyped'
      BY <1>1 DEF CallsTyped
<1>6. (ReadInv /\ DomainsInv)'
  <2>1. CASE ValueLine
    <3>1. config[line].kind = "value" /\ section # NULL
          BY <2>1 DEF ValueLine
    <3>2. section = SectionOf(line)
          BY <3>1 DEF SettingsInv, SectionInv
    <3>3. LET o == <<section, config[line].key>> IN
            IF section \in KnownSections
            THEN SetConfigValue(o, Said) /\ UNCHANGED groups
            ELSE /\ groups' = [groups EXCEPT ![o] = Said]
                 /\ UNCHANGED <<strings, numbers, lists, codes>>
          BY <2>1 DEF ValueLine, Said
    <3>4. DOMAIN groups = GroupKeys
          BY DEF SettingsInv, DomainsInv
    <3>5. ReadInv' /\ DOMAIN lists' = ListOptions /\ DOMAIN codes' = CodeKeys /\ DOMAIN groups' = GroupKeys
          BY <1>3, <1>4, <3>1, <3>2, <3>3, <3>4, ValueRead
    <3>6. QED BY <3>5 DEF DomainsInv
  <2>2. CASE SkipLine \/ SectionLine
    <3>1. config[line].kind # "value" /\ UNCHANGED options
          BY <2>2 DEF SkipLine, SectionLine
    <3>2. ReadInv'
          BY <1>3, <1>4, <3>1, OtherRead
    <3>3. QED BY <3>1, <3>2 DEF DomainsInv, options, SettingsInv
  <2>3. QED BY <2>1, <2>2
<1>7. SectionInv'
  <2>1. IF config[line].kind # "section" THEN section' = section
        ELSE section' = IF config[line].name # Empty THEN config[line].name
                        ELSE IF section = NULL THEN Empty ELSE section
        BY DEF SkipLine, SectionLine, ValueLine
  <2>2. QED BY <1>3, <2>1, SectionRead DEF SettingsInv
<1>8. RightInv'
      BY <1>6 DEF ReadInv, RightInv, TextRight
<1>9. QED BY <1>5, <1>6, <1>7, <1>8 DEF SettingsInv

(***************************************************************************)
(* The checks set defaults.                                                *)
(***************************************************************************)

\* What was asked for changes with the file and with calls only.
LEMMA SameAsked ==
  ASSUME UNCHANGED <<config, line, calls>>, NEW o
  PROVE  /\ TextAsked(o)' = TextAsked(o) /\ NumberAsked(o)' = NumberAsked(o) /\ CodeAsked(o)' = CodeAsked(o)
         /\ CallsOf(o)' = CallsOf(o) /\ Given(o)' = Given(o) /\ Accepted(o)' = Accepted(o)
         /\ SetFor(o)' = SetFor(o) /\ FileList(o)' = FileList(o)
<1>1. CallsOf(o)' = CallsOf(o)
      BY DEF CallsOf
<1>2. Given(o)' = Given(o) /\ Accepted(o)' = Accepted(o) /\ SetFor(o)' = SetFor(o)
      BY SameFile
<1>3. /\ TextAsked(o)' = TextAsked(o) /\ NumberAsked(o)' = NumberAsked(o) /\ CodeAsked(o)' = CodeAsked(o)
      BY <1>1, <1>2 DEF TextAsked, NumberAsked, CodeAsked, NumberIn
<1>4. FileList(o)' = FileList(o)
      BY <1>2 DEF FileList
<1>5. QED BY <1>1, <1>2, <1>3, <1>4

LEMMA SameLists ==
  ASSUME UNCHANGED <<config, line, calls, lists>>, NEW o, ListRight(o)
  PROVE  ListRight(o)'
<1>1. CallsOf(o)' = CallsOf(o) /\ Given(o)' = Given(o) /\ FileList(o)' = FileList(o)
      BY SameAsked
<1>2. \A i : Place(o, i)' = Place(o, i)
      BY <1>1 DEF Place
<1>3. LibDirAt(Max(Given(o)))' = LibDirAt(Max(Given(o)))
      BY <1>1, SameAsked DEF LibDirAt
<1>4. QED BY <1>1, <1>2, <1>3 DEF ListRight

LEMMA SameCodes ==
  ASSUME UNCHANGED <<config, line, calls, codes, groups>>, NEW x
  PROVE  /\ CodeRight(x) => CodeRight(x)'
         /\ GroupRight(x) => GroupRight(x)'
<1>1. CodeRight(x) => CodeRight(x)'
      BY SameAsked DEF CodeRight
<1>2. GroupRight(x) => GroupRight(x)'
      BY SameAsked DEF GroupRight
<1>3. QED BY <1>1, <1>2

\* A pointer that is NULL may get its default.
LEMMA LateText ==
  ASSUME UNCHANGED <<config, line, calls>>, NEW o, TextRight(o),
         strings'[o] = strings[o] \/ strings'[o] = Or(strings[o], Late(o))
  PROVE  TextRight(o)'
<1>1. /\ TextAsked(o)' = TextAsked(o) /\ CallsOf(o)' = CallsOf(o) /\ Given(o)' = Given(o)
      /\ Accepted(o)' = Accepted(o) /\ Late(o)' = Late(o)
      BY SameAsked DEF Late
<1>2. CASE strings'[o] = strings[o]
      BY <1>1, <1>2 DEF TextRight, TextRead, Dangles
<1>3. CASE strings'[o] # strings[o]
  <2>1. strings[o] = NULL /\ strings'[o] = Late(o)
        BY <1>3 DEF Or
  <2>2. ~Dangles(o)
        BY <2>1, SettingsAssumption DEF Dangles
  <2>3. TextAsked(o) = NULL
        BY <2>1, <2>2 DEF TextRight, TextRead
  <2>4. QED BY <1>1, <2>1, <2>3 DEF TextRight
<1>4. QED BY <1>2, <1>3

\* A port that is 0 may get its default.
LEMMA LateNumber ==
  ASSUME UNCHANGED <<config, line, calls>>, NEW o, NumberRight(o),
         numbers'[o] = numbers[o] \/ (numbers[o] = 0 /\ numbers'[o] \in LatePort(o))
  PROVE  NumberRight(o)'
<1>1. NumberAsked(o)' = NumberAsked(o) /\ LatePort(o)' = LatePort(o)
      BY SameAsked DEF LatePort
<1>2. QED BY <1>1 DEF NumberRight

\* Steps of the checks, and all that leave settings alone.
LEMMA DefaultsHold ==
  ASSUME SettingsInv, UNCHANGED <<config, line, lists, codes, groups, calls>>, pc' \notin Reads,
         \A o \in StringOptions : strings'[o] = strings[o] \/ strings'[o] = Or(strings[o], Late(o)),
         \A o \in NumberOptions : numbers'[o] = numbers[o] \/ (numbers[o] = 0 /\ numbers'[o] \in LatePort(o))
  PROVE  SettingsInv'
<1>1. SectionInv'
      BY DEF SettingsInv, SectionInv
<1>2. CallsTyped' /\ DomainsInv'
      BY DEF SettingsInv, CallsTyped, DomainsInv
<1>3. \A o \in StringOptions : TextRight(o)'
      BY LateText DEF SettingsInv, RightInv
<1>4. \A o \in NumberOptions : NumberRight(o)'
      BY LateNumber DEF SettingsInv, RightInv
<1>5. \A o \in ListOptions : ListRight(o)'
      BY SameLists DEF SettingsInv, RightInv
<1>6. (\A k \in CodeKeys : CodeRight(k)') /\ (\A g \in GroupKeys : GroupRight(g)')
      BY SameCodes DEF SettingsInv, RightInv
<1>7. RightInv'
      BY <1>3, <1>4, <1>5, <1>6 DEF RightInv
<1>8. QED BY <1>1, <1>2, <1>7 DEF SettingsInv

LEMMA SameHolds ==
  ASSUME SettingsInv, UNCHANGED settingsVars, pc' \in Reads => pc \in Reads
  PROVE  SettingsInv'
<1>1. UNCHANGED <<config, line, section, strings, numbers, lists, codes, groups, calls>>
      BY DEF settingsVars, options
<1>2. CASE pc' \notin Reads
      BY <1>1, <1>2, DefaultsHold
<1>3. CASE pc' \in Reads
  <2>1. SectionOf(line)' = SectionOf(line)
        BY <1>1 DEF SectionOf
  <2>2. SectionInv'
        BY <1>1, <1>3, <2>1 DEF SettingsInv, SectionInv
  <2>3. CallsTyped' /\ DomainsInv'
        BY <1>1 DEF SettingsInv, CallsTyped, DomainsInv
  <2>4. \A o \in StringOptions : TextRead(o)'
    <3> TAKE o \in StringOptions
    <3>1. TextRead(o)
          BY <1>3 DEF SettingsInv, RightInv
    <3>2. QED BY <1>1, <3>1, SameAsked DEF TextRead, Dangles
  <2>5. \A o \in NumberOptions : NumberRight(o)'
        BY <1>1, LateNumber DEF SettingsInv, RightInv
  <2>6. \A o \in ListOptions : ListRight(o)'
        BY <1>1, SameLists DEF SettingsInv, RightInv
  <2>7. (\A k \in CodeKeys : CodeRight(k)') /\ (\A g \in GroupKeys : GroupRight(g)')
        BY <1>1, SameCodes DEF SettingsInv, RightInv
  <2>8. RightInv'
        BY <2>4, <2>5, <2>6, <2>7 DEF RightInv, TextRight
  <2>9. QED BY <2>2, <2>3, <2>8 DEF SettingsInv
<1>4. QED BY <1>2, <1>3

LEMMA ChecksHold ==
  ASSUME SettingsTypes, SettingsInv, CheckGlobal \/ CheckBackend \/ CheckSmtpd
  PROVE  SettingsInv'
<1> USE Kinds, Distinct
<1>0. /\ DOMAIN strings = StringOptions /\ numbers \in [NumberOptions -> Int]
      /\ UNCHANGED <<config, line, lists, codes, groups, calls>>
      BY DEF SettingsTypes, CheckGlobal, CheckBackend, CheckSmtpd
<1>1. /\ Late(QueueDir) = "/var/spool/spmfilter" /\ Late(BackendConnection) = "failover"
      /\ Late(Scope) = "subtree" /\ Late(<<"ldap", "base">>) = Empty
      /\ Late(FailMsg) = "Requested action aborted: local error in processing"
      BY DEF Late, QueueDir, BackendConnection, Scope, FailMsg
<1>2. LatePort(<<"sql", "port">>) = {0, 3306, 5432} /\ LatePort(<<"ldap", "port">>) = {0, 389}
      BY DEF LatePort
<1> DEFINE Texts1 == \A o \in StringOptions : strings'[o] = strings[o] \/ strings'[o] = Or(strings[o], Late(o))
           Numbers1 == \A o \in NumberOptions :
                         numbers'[o] = numbers[o] \/ (numbers[o] = 0 /\ numbers'[o] \in LatePort(o))
<1>3. CASE CheckGlobal
  <2>1. pc' \notin Reads /\ numbers' = numbers
        BY <1>3 DEF CheckGlobal, Reads
  <2>2. /\ strings'[QueueDir] = Or(strings[QueueDir], "/var/spool/spmfilter")
        /\ \/ strings'[BackendConnection] = strings[BackendConnection]
           \/ strings'[BackendConnection] = Or(strings[BackendConnection], "failover")
        /\ \A o \in StringOptions \ {QueueDir, BackendConnection} : strings'[o] = strings[o]
        BY <1>0, <1>3 DEF CheckGlobal
  <2>3. Texts1
        BY <1>1, <2>2
  <2>4. QED BY <1>0, <2>1, <2>3, DefaultsHold
<1>4. CASE CheckBackend
  <2>1. pc' \notin Reads
        BY <1>4 DEF CheckBackend, CheckSql, CheckLdap, Reads
  <2>2. CASE UNCHANGED strings /\ (UNCHANGED numbers \/ PortOr(<<"sql", "port">>, 3306) \/ PortOr(<<"sql", "port">>, 5432))
    <3>1. Numbers1
          BY <1>0, <1>2, <2>2 DEF PortOr
    <3>2. QED BY <1>0, <2>1, <2>2, <3>1, DefaultsHold
  <2>3. CASE CheckLdap
    <3>1. Numbers1
          BY <1>0, <1>2, <2>3 DEF CheckLdap, PortOr
    <3>2. /\ strings'[Scope] = Or(strings[Scope], "subtree")
          /\ strings'[<<"ldap", "base">>] = Or(strings[<<"ldap", "base">>], Empty)
          /\ \A o \in StringOptions \ {Scope, <<"ldap", "base">>} : strings'[o] = strings[o]
      <4>1. <<"ldap", "base">> \in StringOptions
            BY DEF StringOptions, Plain, In
      <4>2. QED BY <1>0, <2>3, <4>1 DEF CheckLdap
    <3>3. Texts1
          BY <1>1, <3>2
    <3>4. QED BY <1>0, <2>1, <3>1, <3>3, DefaultsHold
  <2>4. QED BY <1>4, <2>2, <2>3 DEF CheckBackend, CheckSql
<1>5. CASE CheckSmtpd
  <2>1. pc' \notin Reads /\ numbers' = numbers
        BY <1>5 DEF CheckSmtpd, Reads
  <2>2. /\ strings'[FailMsg] = Or(strings[FailMsg], "Requested action aborted: local error in processing")
        /\ \A o \in StringOptions \ {FailMsg} : strings'[o] = strings[o]
        BY <1>0, <1>5 DEF CheckSmtpd
  <2>3. Texts1
        BY <1>1, <2>2
  <2>4. QED BY <1>0, <2>1, <2>3, DefaultsHold
<1>6. QED BY <1>3, <1>4, <1>5

(***************************************************************************)
(* The setters.                                                            *)
(***************************************************************************)

\* A call is the last one for its option, and no other option notices.
LEMMA CallCounts ==
  ASSUME SettingsTypes, NEW o, NEW v, Called(o, v), NEW n, n = Len(calls) + 1
  PROVE  /\ n \in Nat \ {0} /\ DOMAIN calls = 1..n - 1 /\ DOMAIN calls' = 1..n
         /\ calls'[n] = [option |-> o, value |-> v]
         /\ \A i \in 1..n - 1 : calls'[i] = calls[i]
         /\ CallsOf(o)' = CallsOf(o) \cup {n}
         /\ \A e : CallsOf(e) \in SUBSET (1..n - 1)
         /\ \A e : e # o => CallsOf(e)' = CallsOf(e)
<1> DEFINE c == [option |-> o, value |-> v]
<1>1. PICK V : calls \in Seq(V)
      BY DEF SettingsTypes
<1>2. calls' = Append(calls, c)
      BY DEF Called
<1>3. /\ Len(calls) \in Nat /\ DOMAIN calls = 1..Len(calls)
      /\ calls \in Seq(V \cup {c}) /\ c \in V \cup {c}
      BY <1>1
<1>4. /\ DOMAIN calls' = 1..n /\ calls'[n] = c /\ \A i \in 1..n - 1 : calls'[i] = calls[i]
      BY <1>2, <1>3
<1>5. n \in Nat \ {0} /\ DOMAIN calls = 1..n - 1 /\ 1..n = 1..n - 1 \cup {n} /\ n \notin 1..n - 1
      BY <1>3
<1>6. c.option = o
      OBVIOUS
<1> HIDE DEF c
<1>7. \A e : CallsOf(e)' = {i \in 1..n : calls'[i].option = e}
      BY <1>4 DEF CallsOf
<1>8. \A e : CallsOf(e) = {i \in 1..n - 1 : calls[i].option = e}
      BY <1>5 DEF CallsOf
<1>9. \A e : CallsOf(e)' = IF e = o THEN CallsOf(e) \cup {n} ELSE CallsOf(e)
      BY <1>4, <1>5, <1>6, <1>7, <1>8
<1>10. \A e : CallsOf(e) \in SUBSET (1..n - 1)
      BY <1>8
<1>11. QED BY <1>4, <1>5, <1>9, <1>10 DEF c

\* The last call for an option is one.
LEMMA LastCall ==
  ASSUME NEW n \in Nat \ {0}, NEW S \in SUBSET (1..n - 1), S # {}
  PROVE  Max(S) \in S /\ Max(S) \in 1..n - 1
<1> DEFINE m == n - 1
<1>1. m \in Nat /\ S \in SUBSET (1..m)
      OBVIOUS
<1> HIDE DEF m
<1>2. Max(S) \in S
      BY <1>1, MaxGreatest
<1>3. QED BY <1>2

LEMMA CallAsks ==
  ASSUME SettingsTypes, NEW o, NEW v, Called(o, v)
  PROVE  /\ CallsOf(o)' # {} /\ TextAsked(o)' = v /\ NumberAsked(o)' = v /\ CodeAsked(o)' = v
         /\ \A e : e # o => /\ CallsOf(e)' = CallsOf(e) /\ TextAsked(e)' = TextAsked(e)
                            /\ NumberAsked(e)' = NumberAsked(e) /\ CodeAsked(e)' = CodeAsked(e)
         /\ \A e : /\ Given(e)' = Given(e) /\ Accepted(e)' = Accepted(e) /\ SetFor(e)' = SetFor(e)
                   /\ FileList(e)' = FileList(e) /\ (LibDirAt(Max(Given(e))))' = LibDirAt(Max(Given(e)))
<1> DEFINE n == Len(calls) + 1
<1>1. /\ n \in Nat \ {0} /\ calls'[n] = [option |-> o, value |-> v]
      /\ \A i \in 1..n - 1 : calls'[i] = calls[i]
      /\ CallsOf(o)' = CallsOf(o) \cup {n}
      /\ \A e : CallsOf(e) \in SUBSET (1..n - 1)
      /\ \A e : e # o => CallsOf(e)' = CallsOf(e)
      BY CallCounts
<1> HIDE DEF n
<1>2. config' = config /\ line' = line
      BY DEF Called
<1>3. \A e : /\ Given(e)' = Given(e) /\ Accepted(e)' = Accepted(e) /\ SetFor(e)' = SetFor(e)
      BY <1>2, SameFile
<1>4. \A e : FileList(e)' = FileList(e)
      BY <1>2, <1>3 DEF FileList
<1>5. \A e : (LibDirAt(Max(Given(e))))' = LibDirAt(Max(Given(e)))
      BY <1>2, <1>3 DEF LibDirAt
<1>6. CallsOf(o)' # {} /\ calls'[Max(CallsOf(o)')].value = v
  <2>1. Max(CallsOf(o)') = n
        BY <1>1, MaxTop
  <2>2. QED BY <1>1, <2>1
<1>7. ASSUME NEW e, e # o
      PROVE  /\ CallsOf(e)' = CallsOf(e) /\ TextAsked(e)' = TextAsked(e)
             /\ NumberAsked(e)' = NumberAsked(e) /\ CodeAsked(e)' = CodeAsked(e)
  <2>1. CallsOf(e)' = CallsOf(e)
        BY <1>1, <1>7
  <2>2. CallsOf(e) # {} => calls'[Max(CallsOf(e))] = calls[Max(CallsOf(e))]
        BY <1>1, LastCall
  <2>3. QED BY <1>2, <1>3, <2>1, <2>2 DEF TextAsked, NumberAsked, CodeAsked, NumberIn
<1>8. TextAsked(o)' = v /\ NumberAsked(o)' = v /\ CodeAsked(o)' = v
      BY <1>6 DEF TextAsked, NumberAsked, CodeAsked
<1>9. QED BY <1>3, <1>4, <1>5, <1>6, <1>7, <1>8

\* A list that no call was made for.
LEMMA OtherList ==
  ASSUME SettingsTypes, NEW o, NEW v, Called(o, v), NEW e, e # o, lists'[e] = lists[e], ListRight(e)
  PROVE  ListRight(e)'
<1> DEFINE n == Len(calls) + 1
<1>1. /\ CallsOf(e)' = CallsOf(e) /\ FileList(e)' = FileList(e)
      /\ (LibDirAt(Max(Given(e))))' = LibDirAt(Max(Given(e)))
      BY CallAsks
<1>2. CallsOf(e) \in SUBSET (1..n - 1) /\ \A i \in 1..n - 1 : calls'[i] = calls[i]
      BY CallCounts
<1> HIDE DEF n
<1>3. \A i : Place(e, i)' = Place(e, i)
      BY <1>1 DEF Place
<1>4. \A i \in CallsOf(e) : calls'[i].value = calls[i].value
      BY <1>2
<1>5. QED BY <1>1, <1>3, <1>4 DEF ListRight

\* A list gets one element.
LEMMA AddedList ==
  ASSUME SettingsTypes, config \in Configs, line \in 1..Len(config) + 1,
         NEW o, NEW v, Called(o, v), lists'[o] = Append(lists[o], v), ListRight(o)
  PROVE  ListRight(o)'
<1> DEFINE n == Len(calls) + 1
           L == lists[o]
           C == CallsOf(o)
           F == FileList(o)
           upto(i) == {j \in C : j <= i}
<1>1. /\ FileList(o)' = F /\ (LibDirAt(Max(Given(o))))' = LibDirAt(Max(Given(o)))
      BY CallAsks
<1>2. /\ n \in Nat \ {0} /\ C \in SUBSET (1..n - 1) /\ CallsOf(o)' = C \cup {n}
      /\ calls'[n].value = v /\ \A i \in 1..n - 1 : calls'[i] = calls[i]
  <2>1. /\ n \in Nat \ {0} /\ calls'[n] = [option |-> o, value |-> v]
        /\ \A i \in 1..n - 1 : calls'[i] = calls[i]
        /\ CallsOf(o)' = CallsOf(o) \cup {n}
        /\ \A e : CallsOf(e) \in SUBSET (1..n - 1)
        BY CallCounts
  <2> HIDE DEF n
  <2>2. calls'[n].value = v
        BY <2>1
  <2>3. QED BY <2>1, <2>2
<1>3. PICK V : L \in Seq(V)
      BY DEF ListRight
<1>4. F \in Seq(Texts) /\ Len(F) \in Nat /\ DOMAIN F = 1..Len(F)
      BY FileListTyped
<1> HIDE DEF n
<1>5. /\ Len(L) = Len(F) + Cardinality(C)
      /\ \A i \in DOMAIN F : L[i] = IF o = Modules THEN <<F[i], LibDirAt(Max(Given(o)))>> ELSE F[i]
      /\ \A i \in C : L[Len(F) + Cardinality(upto(i))] = calls[i].value
  <2>1. \A i : Place(o, i) = Len(F) + Cardinality(upto(i))
        BY DEF Place
  <2>2. QED BY <2>1 DEF ListRight
<1>6. IsFiniteSet(C) /\ n \notin C /\ Cardinality(C) \in Nat
  <2>1. IsFiniteSet(1..n - 1)
    <3>1. 1 \in Int /\ n - 1 \in Int
          BY <1>2
    <3>2. QED BY <3>1, FS_Interval
  <2>2. IsFiniteSet(C)
        BY <1>2, <2>1, FS_Subset
  <2>3. QED BY <1>2, <2>2, FS_CardinalityType
<1>7. Cardinality(C \cup {n}) = Cardinality(C) + 1
      BY <1>6, FS_AddElement
<1> DEFINE L1 == lists'[o]
<1>8. /\ \E W : L1 \in Seq(W)
      /\ Len(L1) = Len(L) + 1 /\ L1[Len(L) + 1] = v /\ \A i \in 1..Len(L) : L1[i] = L[i]
  <2>1. L1 = Append(L, v)
        OBVIOUS
  <2> HIDE DEF L, L1
  <2>2. L \in Seq(V \cup {v}) /\ v \in V \cup {v}
        BY <1>3
  <2>3. L1 \in Seq(V \cup {v}) /\ Len(L1) = Len(L) + 1 /\ L1[Len(L) + 1] = v /\ \A i \in 1..Len(L) : L1[i] = L[i]
        BY <2>1, <2>2
  <2>4. QED BY <2>3
<1> HIDE DEF L, L1
<1>9. Len(L1) = Len(FileList(o)') + Cardinality(CallsOf(o)')
      BY <1>1, <1>2, <1>4, <1>5, <1>6, <1>7, <1>8
<1>10. \A i \in DOMAIN F : L1[i] = IF o = Modules THEN <<F[i], LibDirAt(Max(Given(o)))>> ELSE F[i]
  <2>1. \A i \in DOMAIN F : i \in 1..Len(L)
        BY <1>4, <1>5, <1>6
  <2>2. QED BY <1>5, <1>8, <2>1
<1>11. ASSUME NEW i \in C \cup {n}
       PROVE  L1[Len(F) + Cardinality({j \in C \cup {n} : j <= i})] = calls'[i].value
  <2>1. CASE i = n
    <3>1. {j \in C \cup {n} : j <= i} = C \cup {n}
          BY <1>2, <2>1
    <3>2. Len(F) + (Cardinality(C) + 1) = Len(L) + 1
          BY <1>4, <1>5, <1>6
    <3>3. QED BY <1>2, <1>7, <1>8, <2>1, <3>1, <3>2
  <2>2. CASE i \in C
    <3>1. {j \in C \cup {n} : j <= i} = upto(i)
          BY <1>2, <2>2
    <3>2. IsFiniteSet(upto(i)) /\ Cardinality(upto(i)) <= Cardinality(C) /\ Cardinality(upto(i)) \in Nat
          BY <1>6, FS_Subset, FS_CardinalityType
    <3>3. upto(i) # {}
          BY <1>2, <2>2
    <3>4. Cardinality(upto(i)) # 0
          BY <3>2, <3>3, FS_EmptySet
    <3>5. Len(F) + Cardinality(upto(i)) \in 1..Len(L)
      <4> DEFINE a == Len(F)
                 b == Cardinality(upto(i))
                 c == Cardinality(C)
      <4>1. a \in Nat /\ b \in Nat /\ c \in Nat /\ b <= c /\ b # 0 /\ Len(L) = a + c
            BY <1>4, <1>5, <1>6, <3>2, <3>4
      <4> HIDE DEF a, b, c
      <4>2. a + b \in 1..Len(L)
            BY <4>1
      <4>3. QED BY <4>2 DEF a, b
    <3>6. calls'[i] = calls[i]
          BY <1>2, <2>2
    <3>7. QED BY <1>5, <1>8, <2>2, <3>1, <3>5, <3>6
  <2>3. QED BY <2>1, <2>2
<1>12. \A i \in CallsOf(o)' : lists'[o][Place(o, i)'] = calls'[i].value
      BY <1>1, <1>2, <1>11 DEF Place, L1
<1> HIDE DEF F, C
<1>13. QED BY <1>1, <1>8, <1>9, <1>10, <1>12 DEF ListRight, F, L1

\* A call keeps what all setters keep: the file, and types of calls.
LEMMA CallKeeps ==
  ASSUME SettingsTypes, SettingsInv, pc' \notin Reads, NEW o, NEW v, Called(o, v),
         o \in StringOptions \cup In("smtpd", CodeKeys) => v \in Texts, o = Debug => v \in {0, 1}
  PROVE  SectionInv' /\ CallsTyped'
<1> DEFINE n == Len(calls) + 1
<1>1. /\ DOMAIN calls = 1..n - 1 /\ DOMAIN calls' = 1..n /\ n \in Nat \ {0}
      /\ calls'[n] = [option |-> o, value |-> v]
      /\ \A i \in 1..n - 1 : calls'[i] = calls[i]
      BY CallCounts
<1> HIDE DEF n
<1>2. \A i \in DOMAIN calls' : i = n \/ (i \in DOMAIN calls /\ calls'[i] = calls[i])
      BY <1>1
<1>3. calls'[n].option = o /\ calls'[n].value = v
      BY <1>1
<1>4. CallsTyped
      BY DEF SettingsInv
<1>5. CallsTyped'
  <2> SUFFICES ASSUME NEW i \in DOMAIN calls'
               PROVE  /\ calls'[i].option \in StringOptions => calls'[i].value \in Texts
                      /\ calls'[i].option \in In("smtpd", CodeKeys) => calls'[i].value \in Texts
                      /\ calls'[i].option = Debug => calls'[i].value \in {0, 1}
      BY DEF CallsTyped
  <2>1. CASE i = n
        BY <1>3, <2>1
  <2>2. CASE i # n
        BY <1>2, <1>4, <2>2 DEF CallsTyped
  <2>3. QED BY <2>1, <2>2
<1>6. SectionInv'
      BY DEF SettingsInv, SectionInv, Called
<1>7. QED BY <1>5, <1>6

\* The other kinds of options.
LEMMA OtherText ==
  ASSUME SettingsTypes, NEW o, NEW v, Called(o, v), NEW e, e # o, strings'[e] = strings[e], TextRight(e)
  PROVE  TextRight(e)'
<1>1. /\ CallsOf(e)' = CallsOf(e) /\ TextAsked(e)' = TextAsked(e) /\ Given(e)' = Given(e)
      /\ Accepted(e)' = Accepted(e)
      BY CallAsks
<1>2. Late(e)' = Late(e)
      BY DEF Late
<1>3. QED BY <1>1, <1>2 DEF TextRight, TextRead, Dangles

LEMMA OtherNumber ==
  ASSUME SettingsTypes, NEW o, NEW v, Called(o, v), NEW e, e # o, numbers'[e] = numbers[e], NumberRight(e)
  PROVE  NumberRight(e)'
<1>1. NumberAsked(e)' = NumberAsked(e)
      BY CallAsks
<1>2. LatePort(e)' = LatePort(e)
      BY DEF LatePort
<1>3. QED BY <1>1, <1>2 DEF NumberRight

LEMMA OtherCodes ==
  ASSUME SettingsTypes, NEW o, NEW v, Called(o, v), UNCHANGED groups, NEW x
  PROVE  /\ o # <<"smtpd", x>> /\ codes'[x] = codes[x] /\ CodeRight(x) => CodeRight(x)'
         /\ GroupRight(x) => GroupRight(x)'
<1>1. ASSUME o # <<"smtpd", x>>, codes'[x] = codes[x], CodeRight(x) PROVE CodeRight(x)'
  <2>1. CallsOf(<<"smtpd", x>>)' = CallsOf(<<"smtpd", x>>) /\ CodeAsked(<<"smtpd", x>>)' = CodeAsked(<<"smtpd", x>>)
        BY <1>1, CallAsks
  <2>2. QED BY <1>1, <2>1 DEF CodeRight
<1>2. ASSUME GroupRight(x) PROVE GroupRight(x)'
  <2>1. SetFor(x)' = SetFor(x) /\ config' = config
        BY CallAsks DEF Called
  <2>2. QED BY <1>2, <2>1 DEF GroupRight
<1>3. QED BY <1>1, <1>2

\* An option of spmfilter is none of the reply codes.
LEMMA NoCode ==
  \A o \in StringOptions \cup NumberOptions \cup ListOptions : \A k \in CodeKeys : o # <<"smtpd", k>>
<1>1. \A k \in CodeKeys : <<"smtpd", k>> \notin StringOptions \cup NumberOptions
      BY KeysAssumption
<1>2. \A k \in CodeKeys : <<"smtpd", k>> \notin ListOptions
  <2>1. \A k \in CodeKeys : <<"smtpd", k>>[1] = "smtpd"
        OBVIOUS
  <2>2. QED BY <2>1, InSections
<1>3. QED BY <1>1, <1>2

LEMMA TextCalled ==
  ASSUME SettingsTypes, SettingsInv, pc' \notin Reads, NEW o \in StringOptions, NEW t \in Texts, CallText(o, t)
  PROVE  SettingsInv'
<1>1. /\ Called(o, t) /\ UNCHANGED <<numbers, lists, codes, groups>>
      /\ \A e \in StringOptions : strings'[e] = IF e = o THEN t ELSE strings[e]
      BY StoreTyped DEF CallText, SettingsTypes
<1>2. SectionInv' /\ CallsTyped'
      BY <1>1, Kinds, CallKeeps
<1>3. \A e \in StringOptions : TextRight(e)'
  <2> TAKE e \in StringOptions
  <2>1. CASE e = o
        BY <1>1, <2>1, CallAsks DEF TextRight, TextRead
  <2>2. CASE e # o
        BY <1>1, <2>2, OtherText DEF SettingsInv, RightInv
  <2>3. QED BY <2>1, <2>2
<1>4. \A e \in NumberOptions : NumberRight(e)'
      BY <1>1, Kinds, OtherNumber DEF SettingsInv, RightInv
<1>5. \A e \in ListOptions : ListRight(e)'
      BY <1>1, Sections, OtherList DEF SettingsInv, RightInv
<1>6. (\A k \in CodeKeys : CodeRight(k)') /\ (\A g \in GroupKeys : GroupRight(g)')
      BY <1>1, NoCode, OtherCodes DEF SettingsInv, RightInv
<1>7. RightInv' /\ DomainsInv'
      BY <1>1, <1>3, <1>4, <1>5, <1>6 DEF RightInv, SettingsInv, DomainsInv
<1>8. QED BY <1>2, <1>7 DEF SettingsInv

LEMMA NumberCalled ==
  ASSUME SettingsTypes, SettingsInv, pc' \notin Reads, NEW o \in NumberOptions, NEW n \in Int,
         o = Debug => n \in {0, 1}, StoreNumber(o, n), Called(o, n), UNCHANGED <<strings, lists, codes, groups>>
  PROVE  SettingsInv'
<1>1. \A e \in NumberOptions : numbers'[e] = IF e = o THEN n ELSE numbers[e]
      BY DEF StoreNumber, SettingsTypes
<1>2. SectionInv' /\ CallsTyped'
  <2>1. o \notin StringOptions \cup In("smtpd", CodeKeys)
        BY Kinds, NoCode DEF In
  <2>2. QED BY <2>1, CallKeeps
<1>3. \A e \in NumberOptions : NumberRight(e)'
  <2> TAKE e \in NumberOptions
  <2>1. CASE e = o
        BY <1>1, <2>1, CallAsks DEF NumberRight
  <2>2. CASE e # o
        BY <1>1, <2>2, OtherNumber DEF SettingsInv, RightInv
  <2>3. QED BY <2>1, <2>2
<1>4. \A e \in StringOptions : TextRight(e)'
      BY Kinds, OtherText DEF SettingsInv, RightInv
<1>5. \A e \in ListOptions : ListRight(e)'
      BY Sections, OtherList DEF SettingsInv, RightInv
<1>6. (\A k \in CodeKeys : CodeRight(k)') /\ (\A g \in GroupKeys : GroupRight(g)')
      BY NoCode, OtherCodes DEF SettingsInv, RightInv
<1>7. RightInv' /\ DomainsInv'
      BY <1>3, <1>4, <1>5, <1>6 DEF RightInv, SettingsInv, DomainsInv
<1>8. QED BY <1>2, <1>7 DEF SettingsInv

LEMMA AddCalled ==
  ASSUME SettingsTypes, SettingsInv, pc' \notin Reads, NEW o \in ListOptions, NEW v, CallAdd(o, v)
  PROVE  SettingsInv'
<1>1. /\ Called(o, v) /\ UNCHANGED <<strings, numbers, codes, groups>>
      /\ DOMAIN lists' = ListOptions
      /\ \A e \in ListOptions : lists'[e] = IF e = o THEN Append(lists[e], v) ELSE lists[e]
      BY DEF CallAdd, SettingsInv, DomainsInv
<1>2. SectionInv' /\ CallsTyped'
  <2>1. o \notin StringOptions \cup In("smtpd", CodeKeys) /\ o # Debug
        BY Kinds, Sections, NoCode DEF In
  <2>2. QED BY <1>1, <2>1, CallKeeps
<1>3. \A e \in ListOptions : ListRight(e)'
  <2> TAKE e \in ListOptions
  <2>1. CASE e = o
    <3>1. config \in Configs /\ line \in 1..Len(config) + 1
          BY DEF SettingsTypes, SettingsInv, SectionInv
    <3>2. QED BY <1>1, <2>1, <3>1, AddedList DEF SettingsInv, RightInv
  <2>2. CASE e # o
        BY <1>1, <2>2, OtherList DEF SettingsInv, RightInv
  <2>3. QED BY <2>1, <2>2
<1>4. \A e \in StringOptions : TextRight(e)'
      BY <1>1, Sections, OtherText DEF SettingsInv, RightInv
<1>5. \A e \in NumberOptions : NumberRight(e)'
      BY <1>1, Sections, OtherNumber DEF SettingsInv, RightInv
<1>6. (\A k \in CodeKeys : CodeRight(k)') /\ (\A g \in GroupKeys : GroupRight(g)')
      BY <1>1, NoCode, OtherCodes DEF SettingsInv, RightInv
<1>7. RightInv' /\ DomainsInv'
      BY <1>1, <1>3, <1>4, <1>5, <1>6 DEF RightInv, SettingsInv, DomainsInv
<1>8. QED BY <1>2, <1>7 DEF SettingsInv

LEMMA CodeCalled ==
  ASSUME SettingsTypes, SettingsInv, pc' \notin Reads, NEW k \in CodeKeys, NEW t \in Texts, SetSmtpCode(k, t)
  PROVE  SettingsInv'
<1> DEFINE o == <<"smtpd", k>>
<1>1. /\ Called(o, t) /\ UNCHANGED <<strings, numbers, lists, groups>>
      /\ DOMAIN codes' = CodeKeys
      /\ \A x \in CodeKeys : codes'[x] = IF x = k THEN t ELSE codes[x]
      BY DEF SetSmtpCode, SettingsInv, DomainsInv
<1>2. \A e \in StringOptions \cup NumberOptions \cup ListOptions : e # o
      BY NoCode
<1>3. \A x : o = <<"smtpd", x>> => x = k
      OBVIOUS
<1>4. \A x \in CodeKeys : CodeRight(x)'
  <2> TAKE x \in CodeKeys
  <2>1. CASE x = k
    <3>1. CallsOf(o)' # {} /\ CodeAsked(o)' = t
          BY <1>1, CallAsks
    <3>2. QED BY <1>1, <2>1, <3>1 DEF CodeRight
  <2>2. CASE x # k
    <3>1. o # <<"smtpd", x>>
          BY <1>3, <2>2
    <3>2. codes'[x] = codes[x] /\ CodeRight(x)
          BY <1>1, <2>2 DEF SettingsInv, RightInv
    <3>3. QED BY <1>1, <3>1, <3>2, OtherCodes
  <2>3. QED BY <2>1, <2>2
<1> HIDE DEF o
<1>5. SectionInv' /\ CallsTyped'
      BY <1>1, <1>2, Kinds, CallKeeps
<1>6. \A e \in StringOptions : TextRight(e)'
      BY <1>1, <1>2, OtherText DEF SettingsInv, RightInv
<1>7. \A e \in NumberOptions : NumberRight(e)'
      BY <1>1, <1>2, OtherNumber DEF SettingsInv, RightInv
<1>8. \A e \in ListOptions : ListRight(e)'
      BY <1>1, <1>2, OtherList DEF SettingsInv, RightInv
<1>9. \A g \in GroupKeys : GroupRight(g)'
      BY <1>1, OtherCodes DEF SettingsInv, RightInv
<1>10. RightInv' /\ DomainsInv'
      BY <1>1, <1>4, <1>6, <1>7, <1>8, <1>9 DEF RightInv, SettingsInv, DomainsInv
<1>11. QED BY <1>5, <1>10 DEF SettingsInv

\* Whatever module calls whichever setter.
LEMMA SettersHold ==
  ASSUME SettingsTypes, SettingsInv, pc' \notin Reads, Setters
  PROVE  SettingsInv'
<1>1. ASSUME NEW o, o # Debug, Call(o) PROVE SettingsInv'
  <2>1. CASE o \in StringOptions /\ \E t \in Texts : CallText(o, t)
        BY <2>1, TextCalled
  <2>2. CASE o \in NumberOptions /\ \E n \in Ints : CallNumber(o, n)
    <3>1. PICK n \in Ints : CallNumber(o, n)
          BY <2>2
    <3>2. n \in Int
          BY SettingsAssumption
    <3>3. StoreNumber(o, n) /\ Called(o, n) /\ UNCHANGED <<strings, lists, codes, groups>>
          BY <3>1 DEF CallNumber
    <3>4. QED BY <1>1, <2>2, <3>2, <3>3, NumberCalled
  <2>3. CASE o \in ListOptions /\ \E t \in Texts : CallAdd(o, t)
        BY <2>3, AddCalled
  <2>4. QED BY <1>1, <2>1, <2>2, <2>3 DEF Call
<1>2. ASSUME SetDelivery \/ SetDaemon \/ SetReplies \/ SetSqlOption \/ SetLdapOption PROVE SettingsInv'
  <2>1. \E o : o # Debug /\ Call(o)
        BY <1>2 DEF SetDelivery, SetDaemon, SetReplies, SetSqlOption, SetLdapOption, Debug, In,
           DaemonKeys
  <2>2. QED BY <1>1, <2>1
<1>3. ASSUME NEW t \in Texts, SetQueueDir(t) \/ AddModule(t) \/ SetSyslogFacility(t) PROVE SettingsInv'
  <2>1. QueueDir \in StringOptions /\ Facility \in StringOptions /\ Modules \in ListOptions
        BY Kinds, Sections DEF StringOptions
  <2>2. \/ CallText(QueueDir, t) \/ CallText(Facility, t)
        \/ CallAdd(Modules, <<t, strings[LibDir]>>)
        BY <1>3 DEF SetQueueDir, AddModule, SetSyslogFacility
  <2>3. QED BY <2>1, <2>2, TextCalled, AddCalled
<1>4. ASSUME NEW k \in CodeKeys, NEW t \in Texts, SetSmtpCode(k, t) PROVE SettingsInv'
      BY <1>4, CodeCalled
<1>5. ASSUME NEW n \in Ints, SetDebug(n) PROVE SettingsInv'
  <2>1. /\ n \in {0, 1} /\ n \in Int /\ StoreNumber(Debug, n) /\ Called(Debug, n)
        /\ UNCHANGED <<strings, lists, codes, groups>>
        BY <1>5, SettingsAssumption DEF SetDebug, CallNumber
  <2>2. QED BY <2>1, Kinds, NumberCalled
<1>6. QED BY <1>2, <1>3, <1>4, <1>5 DEF Setters

(***************************************************************************)
(* All of Startup.                                                         *)
(***************************************************************************)
LEMMA SettingsBegin == Init => SettingsInv
<1> SUFFICES ASSUME Init PROVE SettingsInv
    OBVIOUS
<1>1. /\ config \in Configs /\ line = 1 /\ section = NULL /\ calls = <<>> /\ pc = "options"
      /\ strings = [o \in StringOptions |-> DefaultString(o)]
      /\ numbers = [o \in NumberOptions |-> DefaultNumber(o)]
      /\ lists = [o \in ListOptions |-> <<>>]
      /\ codes = [k \in CodeKeys |-> NULL] /\ groups = [g \in GroupKeys |-> NULL]
      BY DEF Init, SettingsInit
<1>2. \A o : Given(o) = {} /\ Accepted(o) = {} /\ SetFor(o) = {} /\ CallsOf(o) = {}
      BY <1>1 DEF Given, Accepted, SetFor, CallsOf
<1>3. Len(config) \in Nat
      BY <1>1, FilesAssumption
<1>4. SectionInv
      BY <1>1, <1>3 DEF SectionInv, Reads
<1>5. CallsTyped /\ DomainsInv
      BY <1>1 DEF CallsTyped, DomainsInv
<1>6. \A o : FileList(o) = <<>>
      BY <1>2 DEF FileList
<1>7. \A o \in ListOptions : ListRight(o)
  <2> TAKE o \in ListOptions
  <2>1. lists[o] = <<>> /\ <<>> \in Seq({}) /\ Len(<<>>) = 0 /\ DOMAIN <<>> = {}
        BY <1>1
  <2>2. Cardinality(CallsOf(o)) = 0
        BY <1>2, FS_EmptySet
  <2>3. \E V : lists[o] \in Seq(V)
        BY <2>1
  <2>4. Len(lists[o]) = Len(FileList(o)) + Cardinality(CallsOf(o))
        BY <1>6, <2>1, <2>2
  <2>5. (\A i \in DOMAIN FileList(o) : FALSE) /\ (\A i \in CallsOf(o) : FALSE)
        BY <1>2, <1>6, <2>1
  <2>6. QED BY <2>3, <2>4, <2>5 DEF ListRight
<1>8. \A o \in StringOptions : TextRead(o)
      BY <1>1, <1>2 DEF TextRead, TextAsked
<1>9. \A o \in NumberOptions : NumberRight(o)
      BY <1>1, <1>2 DEF NumberRight, NumberAsked
<1>10. (\A k \in CodeKeys : CodeRight(k)) /\ (\A g \in GroupKeys : GroupRight(g))
      BY <1>1, <1>2 DEF CodeRight, CodeAsked, GroupRight
<1>11. QED BY <1>4, <1>5, <1>7, <1>8, <1>9, <1>10 DEF SettingsInv, RightInv, TextRight

\* Which steps change settings.
LEMMA SettingSteps ==
  ASSUME Next
  PROVE  \/ UNCHANGED settingsVars /\ (pc' \in Reads => pc \in Reads)
         \/ Parse
         \/ pc' = "connect" /\ StoreNumber(Debug, 1) /\ Called(Debug, 1) /\ UNCHANGED <<strings, lists, codes, groups>>
         \/ pc = "serving" /\ Setters
<1> USE DEF At, Goto, Same, Ends, FreesAndEnds, Reads
<1>1. CASE Usage \/ Options \/ NoFile \/ Refused
      BY <1>1 DEF Usage, Options, NoFile, Refused
<1>2. CASE DebugOption
      BY <1>2 DEF DebugOption
<1>3. CASE LookupConnect \/ CheckQueueDir \/ NoQueueDir
      BY <1>3 DEF LookupConnect, Connect, CheckQueueDir, NoQueueDir
<1>4. CASE EngineLoad \/ OtherEngine \/ Returned \/ Failed
      BY <1>4 DEF EngineLoad, OtherEngine, Returned, Failed
<1>5. CASE Load \/ Listen \/ NoListen \/ Unresolved
      BY <1>5 DEF Load, Listen, NoListen, Unresolved
<1>6. CASE Fork1 \/ Setsid \/ Fork2 \/ Chdir
      BY <1>6 DEF Fork1, Setsid, Fork2, Chdir
<1>7. CASE WritePidFile \/ SwitchUser \/ InitIpc
      BY <1>7 DEF WritePidFile, SwitchUser, InitIpc
<1>8. CASE ModuleCalls
      BY <1>8 DEF ModuleCalls, GroupGet
<1>9. CASE SessionEnds \/ ServerLoopReturns
      BY <1>9 DEF SessionEnds, ServerLoopReturns
<1>10. CASE \E p \in Processes : ParentExits(p)
      BY <1>10 DEF ParentExits
<1>11. QED BY <1>1, <1>2, <1>3, <1>4, <1>5, <1>6, <1>7, <1>8, <1>9, <1>10 DEF Next, Main, Daemon

LEMMA SettingsStep ==
  ASSUME IndInv, SettingsInv, [Next]_vars
  PROVE  SettingsInv'
<1>0. SettingsTypes
      BY DEF IndInv
<1>1. CASE UNCHANGED vars
      BY <1>1, SameHolds DEF vars
<1>2. CASE UNCHANGED settingsVars /\ (pc' \in Reads => pc \in Reads)
      BY <1>2, SameHolds
<1>3. CASE Parse
  <2>1. CASE SkipLine \/ SectionLine \/ ValueLine
    <3>1. pc \in Reads
          BY <2>1 DEF SkipLine, SectionLine, ValueLine, Reading, Reads
    <3>2. QED BY <1>0, <2>1, <3>1, LineHolds
  <2>2. CASE ValueTooEarly
    <3>1. UNCHANGED settingsVars /\ pc' \notin Reads
          BY <2>2 DEF ValueTooEarly, Reads
    <3>2. QED BY <3>1, SameHolds
  <2>3. CASE CheckGlobal \/ CheckBackend \/ CheckSmtpd
        BY <1>0, <2>3, ChecksHold
  <2>4. QED BY <1>3, <2>1, <2>2, <2>3 DEF Parse
<1>4. CASE pc' = "connect" /\ StoreNumber(Debug, 1) /\ Called(Debug, 1) /\ UNCHANGED <<strings, lists, codes, groups>>
  <2>1. pc' \notin Reads /\ Debug \in NumberOptions
        BY <1>4, Kinds DEF Reads
  <2>2. QED BY <1>0, <1>4, <2>1, NumberCalled
<1>5. CASE pc = "serving" /\ Setters
  <2>1. pc' \notin Reads
        BY <1>0, <1>5, SettersTyped DEF Reads
  <2>2. QED BY <1>0, <1>5, <2>1, SettersHold
<1>6. QED BY <1>1, <1>2, <1>3, <1>4, <1>5, SettingSteps

LEMMA SettingsInductive == Spec => []SettingsInv
<1>1. IndInv /\ SettingsInv /\ [Next]_vars => SettingsInv'
      BY SettingsStep
<1>2. QED BY SettingsBegin, Inductive, <1>1, PTL DEF Spec

\* Whatever the file says and whatever modules call, each option is what the last request that was
\* allowed says, or its default: smf_settings_parse_config and the setters.
THEOREM LastRequestHolds == Spec => []LastRequestCounts
<1>1. SettingsInv => LastRequestCounts
      BY RightMeans DEF SettingsInv
<1>2. QED BY SettingsInductive, <1>1, PTL

(***************************************************************************)
(* Why the process breaks down.                                            *)
(***************************************************************************)

\* A text that was asked for is one of the file, of a module, or a default.
LEMMA AskedTyped ==
  ASSUME SettingsTypes, SettingsInv
  PROVE  /\ \A o \in StringOptions : TextAsked(o) \in Texts \cup {DefaultString(o)}
         /\ \A k \in CodeKeys : CodeAsked(<<"smtpd", k>>) \in Texts \cup {NULL}
<1>1. /\ config \in Configs /\ line \in 1..Len(config) + 1 /\ line \in Nat \ {0}
      /\ CallsTyped
      BY DEF SettingsTypes, SettingsInv, SectionInv
<1>2. \A o : Accepted(o) # {} => config[Max(Accepted(o))].text \in Texts
  <2> TAKE o
  <2> HAVE Accepted(o) # {}
  <2>1. Max(Accepted(o)) \in Accepted(o)
        BY <1>1, GivenBefore, LastBefore
  <2>2. Max(Accepted(o)) \in Given(o)
        BY <2>1, GivenBefore
  <2>3. QED BY <1>1, <2>2, SaidTexts
<1>3. \A o : CallsOf(o) # {} => /\ Max(CallsOf(o)) \in DOMAIN calls
                                /\ calls[Max(CallsOf(o))].option = o
  <2> TAKE o
  <2> HAVE CallsOf(o) # {}
  <2>1. PICK V : calls \in Seq(V)
        BY DEF SettingsTypes
  <2>2. Len(calls) \in Nat /\ DOMAIN calls = 1..Len(calls)
        BY <2>1
  <2>3. CallsOf(o) \in SUBSET (1..Len(calls))
        BY <2>2 DEF CallsOf
  <2>4. Max(CallsOf(o)) \in CallsOf(o)
        BY <2>2, <2>3, MaxGreatest
  <2>5. QED BY <2>4 DEF CallsOf
<1>4. \A o \in StringOptions : CallsOf(o) # {} => calls[Max(CallsOf(o))].value \in Texts
      BY <1>1, <1>3 DEF CallsTyped
<1>5. \A k \in CodeKeys : LET o == <<"smtpd", k>> IN
        CallsOf(o) # {} => calls[Max(CallsOf(o))].value \in Texts
  <2> TAKE k \in CodeKeys
  <2>1. <<"smtpd", k>> \in In("smtpd", CodeKeys)
        BY DEF In
  <2>2. QED BY <1>1, <1>3, <2>1 DEF CallsTyped
<1>6. \A o \in StringOptions : TextAsked(o) \in Texts \cup {DefaultString(o)}
      BY <1>2, <1>4 DEF TextAsked
<1>7. \A k \in CodeKeys : CodeAsked(<<"smtpd", k>>) \in Texts \cup {NULL}
      BY <1>2, <1>5 DEF CodeAsked
<1>8. QED BY <1>6, <1>7

\* The texts that the code sets are among those it names.
LEMMA LateTyped ==
  ASSUME NEW o
  PROVE  Late(o) \in DefaultTexts \cup {Empty, NULL} /\ DefaultString(o) \in Facilities \cup {NULL}
<1>1. DefaultString(o) \in Facilities \cup {NULL}
      BY DEF DefaultString, Facilities
<1>2. /\ QueueDir # BackendConnection /\ QueueDir # Scope /\ QueueDir # FailMsg /\ QueueDir # <<"ldap", "base">>
      /\ BackendConnection # Scope /\ BackendConnection # FailMsg /\ BackendConnection # <<"ldap", "base">>
      /\ Scope # FailMsg /\ Scope # <<"ldap", "base">> /\ FailMsg # <<"ldap", "base">>
      BY DEF QueueDir, BackendConnection, Scope, FailMsg
<1>3. Late(o) \in DefaultTexts \cup {Empty, NULL}
  <2>1. CASE o = QueueDir
        BY <1>2, <2>1 DEF Late, DefaultTexts
  <2>2. CASE o = BackendConnection
        BY <1>2, <2>2 DEF Late, DefaultTexts
  <2>3. CASE o = Scope
        BY <1>2, <2>3 DEF Late, DefaultTexts
  <2>4. CASE o = FailMsg
        BY <1>2, <2>4 DEF Late, DefaultTexts
  <2>5. CASE o = <<"ldap", "base">>
        BY <1>2, <2>5 DEF Late
  <2>6. CASE o \notin {QueueDir, BackendConnection, Scope, FailMsg, <<"ldap", "base">>}
        BY <2>6 DEF Late
  <2>7. QED BY <2>1, <2>2, <2>3, <2>4, <2>5, <2>6
<1>4. QED BY <1>1, <1>3

\* Only a wrong choice leaves a value that dangles.
LEMMA FreedDangles ==
  ASSUME SettingsTypes, SettingsInv, NEW o \in StringOptions, strings[o] = Freed
  PROVE  Dangles(o)
<1>1. Late(o) # Freed
      BY LateTyped, SettingsAssumption
<1>2. TextAsked(o) # Freed
      BY AskedTyped, LateTyped, SettingsAssumption
<1>3. QED BY <1>1, <1>2 DEF SettingsInv, RightInv, TextRight, TextRead

\* And then there were two choices, of which one was refused.
Rechosen(o) == o \in Enumerated /\ Cardinality(Given(o)) > 1 /\ Given(o) # Accepted(o)

LEMMA TwoChosen ==
  ASSUME NEW n \in Nat, NEW S \in SUBSET (1..n), NEW a \in S, NEW b \in S, a # b
  PROVE  Cardinality(S) > 1
<1>1. IsFiniteSet(S)
  <2>1. IsFiniteSet(1..n)
        BY FS_Interval
  <2>2. QED BY <2>1, FS_Subset
<1>2. IsFiniteSet({a}) /\ b \notin {a} /\ Cardinality({a}) = 1
      BY FS_Singleton
<1>3. Cardinality({a} \cup {b}) = 2
      BY <1>2, FS_AddElement
<1>4. {a} \cup {b} \subseteq S
      OBVIOUS
<1>5. Cardinality({a} \cup {b}) <= Cardinality(S) /\ Cardinality(S) \in Nat
      BY <1>1, <1>4, FS_Subset, FS_CardinalityType
<1>6. QED BY <1>3, <1>5

LEMMA DanglesMeans ==
  ASSUME line \in Nat \ {0}, NEW o, Dangles(o)
  PROVE  Rechosen(o) /\ Max(Given(o)) \in Given(o) \ Accepted(o)
<1> DEFINE n == line - 1
<1>1. n \in Nat /\ Given(o) \in SUBSET (1..n) /\ Accepted(o) \in SUBSET (1..n) /\ Accepted(o) \subseteq Given(o)
      BY GivenBefore
<1>2. o \in Enumerated /\ Accepted(o) # {} /\ Given(o) # {} /\ Max(Given(o)) > Max(Accepted(o))
      BY <1>1 DEF Dangles
<1> HIDE DEF n
<1>3. Max(Given(o)) \in Given(o) /\ Max(Accepted(o)) \in Accepted(o) /\ \A y \in Accepted(o) : y <= Max(Accepted(o))
      BY <1>1, <1>2, MaxGreatest
<1>4. Max(Given(o)) \in 1..n /\ Max(Accepted(o)) \in 1..n
      BY <1>1, <1>3
<1>5. Max(Given(o)) \notin Accepted(o) /\ Max(Given(o)) # Max(Accepted(o))
      BY <1>2, <1>3, <1>4
<1>6. Cardinality(Given(o)) > 1
      BY <1>1, <1>3, <1>5, TwoChosen
<1>7. QED BY <1>2, <1>3, <1>5, <1>6 DEF Rechosen

\* What has been rechosen stays so, if lines are read on and if not.
LEMMA StaysRechosen ==
  ASSUME line \in Nat \ {0}, config' = config, line' \in {line, line + 1}, NEW o, Dangles(o)
  PROVE  Rechosen(o)'
<1>1. Rechosen(o) /\ Max(Given(o)) \in Given(o) \ Accepted(o)
      BY DanglesMeans
<1>2. CASE line' = line
      BY <1>1, <1>2, SameFile DEF Rechosen
<1>3. CASE line' = line + 1
  <2> DEFINE m == Max(Given(o))
             a == Max(Accepted(o))
  <2>1. /\ Given(o)' = IF Says(o) THEN Given(o) \cup {line} ELSE Given(o)
        /\ Accepted(o)' = IF Says(o) /\ Acceptable(o, config[line].text)
                          THEN Accepted(o) \cup {line} ELSE Accepted(o)
        BY <1>3, GivenGrows
  <2>2. Accepted(o) \in SUBSET (1..line - 1) /\ Accepted(o) \subseteq Given(o) /\ Given(o) \in SUBSET (1..line - 1)
        BY GivenBefore
  <2>3. a \in Accepted(o)
        BY <2>2, LastBefore DEF Dangles
  <2>4. m \in Given(o) /\ m \notin Accepted(o) /\ m # line
        BY <1>1, <2>2
  <2> HIDE DEF m, a
  <2>5. m \in Given(o)' /\ m \notin Accepted(o)' /\ a \in Given(o)' /\ m # a
        BY <2>1, <2>2, <2>3, <2>4
  <2>6. line \in Nat /\ Given(o)' \in SUBSET (1..line)
        BY <2>1, <2>2
  <2>7. Cardinality(Given(o)') > 1
        BY <2>5, <2>6, TwoChosen
  <2>8. QED BY <1>1, <2>5, <2>7 DEF Rechosen
<1>4. QED BY <1>2, <1>3

SomeFreed == \E o \in StringOptions : strings[o] = Freed
Onward    == config' = config /\ line' \in {line, line + 1}

\* A process breaks down when it frees what dangles, and then reads the file no further than a line.
LEMMA FreesCrash ==
  ASSUME NEW o, pc # "crashed", Frees(o), pc' = "crashed"
  PROVE  SomeFreed
BY DEF Frees, SomeFreed

LEMMA SetterCrash ==
  ASSUME pc # "crashed", pc' = "crashed", Setters
  PROVE  SomeFreed /\ Onward
<1>1. ASSUME NEW o, NEW t, CallText(o, t) PROVE SomeFreed /\ Onward
      BY <1>1, FreesCrash DEF CallText, Called, Onward
<1>2. ASSUME NEW o, NEW n, CallNumber(o, n) PROVE FALSE
      BY <1>2 DEF CallNumber
<1>3. ASSUME NEW o, NEW v, CallAdd(o, v) PROVE FALSE
      BY <1>3 DEF CallAdd
<1>4. ASSUME NEW o, Call(o) PROVE SomeFreed /\ Onward
      BY <1>1, <1>2, <1>3, <1>4 DEF Call
<1>5. CASE SetDelivery \/ SetDaemon \/ SetReplies \/ SetSqlOption \/ SetLdapOption
      BY <1>4, <1>5 DEF SetDelivery, SetDaemon, SetReplies, SetSqlOption, SetLdapOption
<1>6. CASE \E t \in Texts : SetQueueDir(t) \/ AddModule(t) \/ SetSyslogFacility(t)
      BY <1>1, <1>3, <1>6 DEF SetQueueDir, AddModule, SetSyslogFacility
<1>7. CASE \E k \in CodeKeys, t \in Texts : SetSmtpCode(k, t)
      BY <1>7 DEF SetSmtpCode
<1>8. CASE \E n \in Ints : SetDebug(n)
      BY <1>2, <1>8 DEF SetDebug
<1>9. QED BY <1>5, <1>6, <1>7, <1>8 DEF Setters

LEMMA LineCrash ==
  ASSUME pc # "crashed", pc' = "crashed", ValueLine
  PROVE  SomeFreed /\ Onward
<1> DEFINE o == <<section, config[line].key>>
<1>1. Onward
      BY DEF ValueLine, Advance, Onward
<1>2. SetConfigValue(o, config[line].text) /\ config[line].text # Empty
      BY DEF ValueLine, SetConfigValue
<1> HIDE DEF o
<1>3. Frees(o)
      BY <1>2 DEF SetConfigValue, SetGlobal, SetSql, SetLdap, SetSmtpd
<1>4. QED BY <1>1, <1>3, FreesCrash

LEMMA CrashSteps ==
  ASSUME Next, pc # "crashed", pc' = "crashed"
  PROVE  \/ ValueTooEarly
         \/ SomeFreed /\ Onward
         \/ UNCHANGED settingsVars /\ strings[Backend] = "ldap" /\ Persistent /\ NoLdapHost
<1> USE Kinds DEF At, Goto
<1>1. UNCHANGED settingsVars => Onward
      BY DEF settingsVars, Onward
<1>2. Dangling => SomeFreed
      BY DEF Dangling, SomeFreed
<1>3. \A s : ~Ends(s)
      BY DEF Ends
<1>4. CASE Refused \/ NoQueueDir \/ Returned \/ Failed \/ SessionEnds
      BY <1>1, <1>2, <1>3, <1>4 DEF Refused, NoQueueDir, Returned, Failed, SessionEnds,
         FreesAndEnds, Same
<1>5. CASE Parse
  <2>1. CASE CheckBackend
    <3>1. SomeFreed
          BY <2>1 DEF CheckBackend, CheckSql, CheckLdap, SomeFreed
    <3>2. QED BY <2>1, <3>1 DEF CheckBackend, Onward
  <2>2. QED BY <1>5, <2>1, LineCrash DEF Parse, SkipLine, SectionLine, CheckGlobal, CheckSmtpd
<1>6. CASE LookupConnect
  <2>1. PICK b \in Seen(strings[Backend]) : Persistent /\ b \in {"sql", "ldap"} /\ Connect(b)
        BY <1>6 DEF LookupConnect
  <2>2. UNCHANGED settingsVars
        BY <1>3, <2>1 DEF Connect, Same
  <2>3. \/ b = "ldap" /\ NoLdapHost
        \/ Freed \in {strings[Backend], strings[BackendConnection], strings[Driver]}
        BY <1>3, <2>1 DEF Connect
  <2>4. CASE Freed \in {strings[Backend], strings[BackendConnection], strings[Driver]}
        BY <1>1, <2>2, <2>4 DEF SomeFreed
  <2>5. CASE strings[Backend] # Freed /\ b = "ldap" /\ NoLdapHost
        BY <2>1, <2>2, <2>5 DEF Seen
  <2>6. QED BY <2>3, <2>4, <2>5
<1>7. CASE ModuleCalls
      BY <1>7, SetterCrash DEF ModuleCalls, GroupGet
<1>8. CASE Usage \/ Options \/ NoFile \/ DebugOption \/ CheckQueueDir
      BY <1>3, <1>8 DEF Usage, Options, NoFile, DebugOption, CheckQueueDir
<1>9. CASE EngineLoad \/ OtherEngine \/ Load \/ Listen \/ NoListen \/ Unresolved
      BY <1>3, <1>9 DEF EngineLoad, OtherEngine, Load, Listen, NoListen, Unresolved
<1>10. CASE Fork1 \/ Setsid \/ Fork2 \/ Chdir
      BY <1>3, <1>10 DEF Fork1, Setsid, Fork2, Chdir
<1>11. CASE WritePidFile \/ SwitchUser \/ InitIpc \/ ServerLoopReturns
      BY <1>3, <1>11 DEF WritePidFile, SwitchUser, InitIpc, ServerLoopReturns
<1>12. CASE \E p \in Processes : ParentExits(p)
      BY <1>12 DEF ParentExits
<1>13. QED BY <1>4, <1>5, <1>6, <1>7, <1>8, <1>9, <1>10, <1>11, <1>12 DEF Next, Main, Daemon

\* After that only parents exit.
LEMMA CrashedStays ==
  ASSUME Next, pc = "crashed"
  PROVE  UNCHANGED settingsVars
<1> USE DEF At
<1>1. ~Main
      BY DEF Main, Usage, Options, NoFile, Parse, SkipLine, SectionLine, ValueLine, ValueTooEarly,
         Reading,
             CheckGlobal, CheckBackend, CheckSmtpd, Refused, FreesAndEnds, DebugOption, LookupConnect,
             CheckQueueDir, NoQueueDir, EngineLoad, OtherEngine, Returned, Failed
<1>2. ~Daemon
      BY DEF Daemon, Load, Listen, NoListen, Unresolved, Fork1, Setsid, Fork2, Chdir,
         WritePidFile, SwitchUser,
             InitIpc, ModuleCalls, SessionEnds, ServerLoopReturns
<1>3. QED BY <1>1, <1>2 DEF Next, ParentExits

LEMMA CrashStep ==
  ASSUME IndInv, SettingsInv, CrashExplained, [Next]_vars
  PROVE  CrashExplained'
<1> DEFINE early == \E i \in DOMAIN config :
                      config[i].kind = "value" /\ (\A j \in 1..i - 1 : config[j].kind # "section")
<1> SUFFICES ASSUME pc' = "crashed"
             PROVE  \/ early'
                    \/ \E o \in Enumerated : Rechosen(o)'
                    \/ (Persistent /\ strings[Backend] = "ldap" /\ NoLdapHost)'
    BY DEF CrashExplained, Rechosen
<1>0. /\ SettingsTypes /\ config \in Configs /\ line \in Nat \ {0}
      BY DEF IndInv, SettingsTypes
<1>1. CASE pc = "crashed"
  <2>1. UNCHANGED settingsVars
        BY <1>1, CrashedStays DEF vars
  <2>2. UNCHANGED <<config, line, strings, numbers, lists>>
        BY <2>1 DEF settingsVars, options
  <2>3. early' <=> early
        BY <2>2
  <2>4. \A o : Rechosen(o)' <=> Rechosen(o)
        BY <2>2, SameFile DEF Rechosen
  <2>5. (Persistent /\ strings[Backend] = "ldap" /\ NoLdapHost)' <=> (Persistent /\ strings[Backend] = "ldap" /\ NoLdapHost)
        BY <2>2 DEF Persistent, NoLdapHost
  <2>6. early \/ (\E o \in Enumerated : Rechosen(o)) \/ (Persistent /\ strings[Backend] = "ldap" /\ NoLdapHost)
        BY <1>1 DEF CrashExplained, Rechosen
  <2>7. QED BY <2>3, <2>4, <2>5, <2>6
<1>2. CASE pc # "crashed"
  <2>1. Next
        BY <1>2 DEF vars
  <2>2. CASE ValueTooEarly
    <3>1. /\ line <= Len(config) /\ config[line].kind = "value" /\ section = NULL /\ pc \in Reads
          /\ config' = config
          BY <2>2 DEF ValueTooEarly, Reading, Reads, settingsVars
    <3>2. ~ \E j \in 1..line - 1 : config[j].kind = "section"
      <4>1. SectionOf(line) # NULL
        <5> DEFINE N == Named(line)
        <5>1. N \in SUBSET (1..line - 1)
              BY DEF Named
        <5>2. N # {} => Max(N) \in N
              BY <1>0, <5>1, LastBefore
        <5>3. DOMAIN config = 1..Len(config) /\ Len(config) \in Nat
              BY <1>0, FilesAssumption
        <5>4. \A j \in N : j \in DOMAIN config /\ config[j].kind = "section"
              BY <1>0, <3>1, <5>3 DEF Named
        <5>5. \A j \in N : config[j].name # NULL
              BY <1>0, <5>4, FilesAssumption
        <5>6. Empty # NULL
              BY SettingsAssumption
        <5>7. SectionOf(line) = IF N = {} THEN Empty ELSE config[Max(N)].name
              BY DEF SectionOf, Named
        <5> HIDE DEF N
        <5>8. QED BY <5>2, <5>5, <5>6, <5>7
      <4>2. QED BY <3>1, <4>1 DEF SettingsInv, SectionInv
    <3>3. line \in DOMAIN config
          BY <1>0, <3>1, FilesAssumption
    <3>4. QED BY <3>1, <3>2, <3>3
  <2>3. CASE SomeFreed /\ Onward
    <3>1. PICK o \in StringOptions : strings[o] = Freed
          BY <2>3 DEF SomeFreed
    <3>2. Dangles(o)
          BY <1>0, <3>1, FreedDangles
    <3>3. Rechosen(o)'
          BY <1>0, <2>3, <3>2, StaysRechosen DEF Onward
    <3>4. o \in Enumerated
          BY <3>2 DEF Dangles
    <3>5. QED BY <3>3, <3>4
  <2>4. CASE UNCHANGED settingsVars /\ strings[Backend] = "ldap" /\ Persistent /\ NoLdapHost
    <3>1. UNCHANGED <<strings, numbers, lists>>
          BY <2>4 DEF settingsVars, options
    <3>2. QED BY <2>4, <3>1 DEF Persistent, NoLdapHost
  <2>5. QED BY <1>2, <2>1, <2>2, <2>3, <2>4, CrashSteps
<1>3. QED BY <1>1, <1>2

\* Whatever the file says: settings break the process down for the three reasons only that
\* CrashExplained names.
THEOREM CrashesExplained == Spec => []CrashExplained
<1>1. Init => CrashExplained
      BY DEF Init, CrashExplained
<1>2. IndInv /\ SettingsInv /\ CrashExplained /\ [Next]_vars => CrashExplained'
      BY CrashStep
<1>3. QED BY <1>1, <1>2, Inductive, SettingsInductive, PTL DEF Spec

(***************************************************************************)
(* Types.                                                                  *)
(***************************************************************************)
Functions ==
  /\ strings = [o \in StringOptions |-> strings[o]]
  /\ codes = [k \in CodeKeys |-> codes[k]]
  /\ groups = [g \in GroupKeys |-> groups[g]]

Places == {"options", "parse", "backend", "failmsg", "parsed", "refused", "connect", "queue_dir", "engine",
           "load", "listen", "background", "setsid", "fork2", "chdir", "pid", "user", "ipc", "serving",
           "returned", "failed", "ended", "crashed", "missing", "undefined"}

ProcessParts ==
  /\ lookup \in BOOLEAN /\ listening \in BOOLEAN /\ shared \in BOOLEAN /\ debug \in BOOLEAN
  /\ leader \in 0..self /\ pid_file \in 0..self /\ cwd \in {"caller", "spool"}
  /\ uid \in Texts \cup {"root", "caller"} /\ gid \in Texts \cup {"root", "caller"}

TypesInv == Functions /\ pc \in Places /\ ProcessParts

\* Options are functions, whichever of them changes.
LEMMA ChangedFunction ==
  ASSUME NEW S, NEW f, DOMAIN f = S, f = [x \in S |-> f[x]], NEW o, NEW v
  PROVE  [f EXCEPT ![o] = v] = [x \in S |-> [f EXCEPT ![o] = v][x]]
OBVIOUS

LEMMA FunctionsStep ==
  ASSUME SettingsTypes, SettingsInv, Functions, [Next]_vars
  PROVE  Functions'
<1> DEFINE TextStep == strings' = strings \/ \E o, v : strings' = [strings EXCEPT ![o] = v]
           CodeStep == codes' = codes \/ \E k, v : codes' = [codes EXCEPT ![k] = v]
           GroupStep == groups' = groups \/ \E g, v : groups' = [groups EXCEPT ![g] = v]
<1>0. DOMAIN strings = StringOptions /\ DOMAIN codes = CodeKeys /\ DOMAIN groups = GroupKeys
      BY DEF SettingsTypes, SettingsInv, DomainsInv
<1>1. ASSUME TextStep, CodeStep, GroupStep PROVE Functions'
  <2>1. strings' = [o \in StringOptions |-> strings'[o]]
        BY <1>0, <1>1, ChangedFunction DEF Functions
  <2>2. codes' = [k \in CodeKeys |-> codes'[k]]
        BY <1>0, <1>1, ChangedFunction DEF Functions
  <2>3. groups' = [g \in GroupKeys |-> groups'[g]]
        BY <1>0, <1>1, ChangedFunction DEF Functions
  <2>4. QED BY <2>1, <2>2, <2>3 DEF Functions
<1>2. ASSUME NEW o, NEW v, StoreText(o, v) PROVE TextStep
      BY <1>2 DEF StoreText
<1>3. CASE UNCHANGED settingsVars
      BY <1>1, <1>3 DEF settingsVars, options
<1>4. CASE Parse
  <2>1. CASE SkipLine \/ SectionLine \/ ValueTooEarly
        BY <1>1, <2>1 DEF SkipLine, SectionLine, ValueTooEarly, settingsVars, options
  <2>2. CASE ValueLine
    <3> DEFINE o == <<section, config[line].key>>
    <3>1. CASE section \notin KnownSections
          BY <1>1, <2>2, <3>1 DEF ValueLine
    <3>2. CASE section \in KnownSections
      <4>1. groups' = groups /\ SetConfigValue(o, config[line].text)
            BY <2>2, <3>2 DEF ValueLine
      <4> HIDE DEF o
      <4>2. TextStep /\ CodeStep
        <5>1. CASE config[line].text = Empty
              BY <4>1, <5>1 DEF SetConfigValue
        <5>2. CASE SetGlobal(o, config[line].text)
              BY <1>2, <5>2 DEF SetGlobal
        <5>3. CASE SetSql(o, config[line].text)
              BY <1>2, <5>3 DEF SetSql
        <5>4. CASE SetLdap(o, config[line].text)
              BY <1>2, <5>4 DEF SetLdap
        <5>5. CASE SetSmtpd(o, config[line].text)
              BY <1>2, <5>5 DEF SetSmtpd
        <5>6. QED BY <4>1, <5>1, <5>2, <5>3, <5>4, <5>5 DEF SetConfigValue
      <4>3. QED BY <1>1, <4>1, <4>2
    <3>3. QED BY <3>1, <3>2
  <2>3. CASE CheckGlobal \/ CheckBackend \/ CheckSmtpd
    <3>1. codes' = codes /\ groups' = groups
          BY <2>3 DEF CheckGlobal, CheckBackend, CheckSmtpd
    <3>2. strings' = [o \in StringOptions |-> strings'[o]]
      <4>1. CASE strings' = strings
            BY <4>1 DEF Functions
      <4>2. CASE CheckGlobal
            BY <1>0, <4>2 DEF CheckGlobal
      <4>3. CASE CheckLdap
            BY <1>0, <4>3 DEF CheckLdap
      <4>4. CASE CheckSmtpd
            BY <1>0, <4>4 DEF CheckSmtpd
      <4>5. QED BY <2>3, <4>1, <4>2, <4>3, <4>4 DEF CheckBackend, CheckSql
    <3>3. QED BY <3>1, <3>2 DEF Functions
  <2>4. QED BY <1>4, <2>1, <2>2, <2>3 DEF Parse
<1>5. CASE UNCHANGED <<strings, codes, groups>>
      BY <1>1, <1>5
<1>6. CASE Setters
  <2>1. ASSUME NEW o, NEW v, CallText(o, v) \/ CallNumber(o, v) \/ CallAdd(o, v) PROVE Functions'
    <3>1. TextStep
          BY <1>2, <2>1 DEF CallText, CallNumber, CallAdd
    <3>2. codes' = codes /\ groups' = groups
          BY <2>1 DEF CallText, CallNumber, CallAdd
    <3>3. QED BY <1>1, <3>1, <3>2
  <2>2. ASSUME NEW o, Call(o) PROVE Functions'
        BY <2>1, <2>2 DEF Call
  <2>3. CASE SetDelivery \/ SetDaemon \/ SetReplies \/ SetSqlOption \/ SetLdapOption
        BY <2>2, <2>3 DEF SetDelivery, SetDaemon, SetReplies, SetSqlOption, SetLdapOption
  <2>4. CASE \E t \in Texts : SetQueueDir(t) \/ AddModule(t) \/ SetSyslogFacility(t)
        BY <2>1, <2>4 DEF SetQueueDir, AddModule, SetSyslogFacility
  <2>5. CASE \E k \in CodeKeys, t \in Texts : SetSmtpCode(k, t)
    <3>1. CodeStep /\ strings' = strings /\ groups' = groups
          BY <2>5 DEF SetSmtpCode
    <3>2. QED BY <1>1, <3>1
  <2>6. CASE \E n \in Ints : SetDebug(n)
        BY <2>1, <2>6 DEF SetDebug
  <2>7. QED BY <1>6, <2>3, <2>4, <2>5, <2>6 DEF Setters
<1>7. QED BY <1>3, <1>4, <1>5, <1>6, SettingSteps DEF vars

\* Where the process goes.
LEMMA PlacesStep ==
  ASSUME pc \in Places, [Next]_vars
  PROVE  pc' \in Places
<1> USE DEF At, Goto, Same, Ends, FreesAndEnds, Places
<1>1. CASE UNCHANGED vars
      BY <1>1 DEF vars
<1>2. ASSUME NEW o, Frees(o) PROVE pc' \in Places
      BY <1>2 DEF Frees
<1>3. CASE Parse
  <2>1. CASE ValueLine
    <3>1. pc' = pc \/ \E o : Frees(o)
          BY <2>1 DEF ValueLine, SetConfigValue, SetGlobal, SetSql, SetLdap, SetSmtpd
    <3>2. QED BY <1>2, <3>1
  <2>2. QED BY <1>3, <2>1 DEF Parse, SkipLine, SectionLine, ValueTooEarly, CheckGlobal, CheckBackend, CheckSql,
            CheckLdap, CheckSmtpd
<1>4. CASE ModuleCalls
  <2>1. ASSUME NEW o, NEW v, CallText(o, v) \/ CallNumber(o, v) \/ CallAdd(o, v) PROVE pc' \in Places
        BY <1>2, <2>1 DEF CallText, CallNumber, CallAdd
  <2>2. ASSUME NEW o, Call(o) PROVE pc' \in Places
        BY <2>1, <2>2 DEF Call
  <2>3. CASE SetDelivery \/ SetDaemon \/ SetReplies \/ SetSqlOption \/ SetLdapOption
        BY <2>2, <2>3 DEF SetDelivery, SetDaemon, SetReplies, SetSqlOption, SetLdapOption
  <2>4. CASE \E t \in Texts : SetQueueDir(t) \/ AddModule(t) \/ SetSyslogFacility(t)
        BY <2>1, <2>4 DEF SetQueueDir, AddModule, SetSyslogFacility
  <2>5. CASE \E k \in CodeKeys, t \in Texts : SetSmtpCode(k, t)
        BY <2>5 DEF SetSmtpCode
  <2>6. CASE \E n \in Ints : SetDebug(n)
        BY <2>1, <2>6 DEF SetDebug
  <2>7. QED BY <1>4, <2>3, <2>4, <2>5, <2>6 DEF ModuleCalls, Setters, GroupGet
<1>5. CASE Usage \/ Options \/ NoFile \/ Refused \/ DebugOption
      BY <1>5 DEF Usage, Options, NoFile, Refused, DebugOption
<1>6. CASE LookupConnect \/ CheckQueueDir \/ NoQueueDir \/ EngineLoad \/ OtherEngine \/ Returned \/ Failed
      BY <1>6 DEF LookupConnect, Connect, CheckQueueDir, NoQueueDir, EngineLoad, OtherEngine,
         Returned, Failed
<1>7. CASE Load \/ Listen \/ NoListen \/ Unresolved \/ Fork1 \/ Setsid \/ Fork2 \/ Chdir
      BY <1>7 DEF Load, Listen, NoListen, Unresolved, Fork1, Setsid, Fork2, Chdir
<1>8. CASE WritePidFile \/ SwitchUser \/ InitIpc \/ SessionEnds \/ ServerLoopReturns
      BY <1>8 DEF WritePidFile, SwitchUser, InitIpc, SessionEnds, ServerLoopReturns
<1>9. CASE \E p \in Processes : ParentExits(p)
      BY <1>9 DEF ParentExits
<1>10. QED BY <1>1, <1>3, <1>4, <1>5, <1>6, <1>7, <1>8, <1>9 DEF Next, Main, Daemon

\* User and group are texts of the file.
LEMMA NamesTyped ==
  ASSUME SettingsTypes, SettingsInv, Switches
  PROVE  strings[User] \in Texts /\ strings[Group] \in Texts
<1>1. ASSUME NEW o \in {User, Group} PROVE strings[o] \in Texts
  <2>1. o \in StringOptions /\ o \notin Enumerated /\ Late(o) = NULL /\ DefaultString(o) = NULL
    <3>1. o \in Plain /\ o \in StringOptions
          BY DEF User, Group, Plain, In, StringOptions
    <3>2. o \notin {QueueDir, BackendConnection, Scope, FailMsg, <<"ldap", "base">>}
          BY DEF User, Group, QueueDir, BackendConnection, Scope, FailMsg
    <3>3. QED BY <3>1, <3>2, Kinds DEF Late, DefaultString
  <2>2. strings[o] # NULL
        BY DEF Switches
  <2>3. TextAsked(o) \in Texts \cup {NULL}
        BY <2>1, AskedTyped
  <2>4. strings[o] = TextAsked(o)
        BY <2>1, <2>2 DEF SettingsInv, RightInv, TextRight, TextRead, Dangles
  <2>5. QED BY <2>2, <2>3, <2>4
<1>2. QED BY <1>1

LEMMA ProcessStep ==
  ASSUME IndInv, SettingsInv, ProcessParts, [Next]_vars
  PROVE  ProcessParts'
<1> USE DEF At, Goto, Same
<1>0. SettingsTypes /\ self \in Processes
      BY DEF IndInv, ProcessInv, ProcessTypes
<1>1. CASE UNCHANGED processVars
      BY <1>1 DEF processVars, forks, daemon, who, ProcessParts
<1>2. ASSUME NEW s, Ends(s) PROVE ProcessParts'
      BY <1>2 DEF Ends, daemon, who, ProcessParts
<1>3. CASE LookupConnect
  <2>1. CASE \E b : Connect(b)
        BY <1>1, <1>2, <2>1 DEF Connect, forks, daemon, who, ProcessParts
  <2>2. QED BY <1>1, <1>3, <2>1 DEF LookupConnect
<1>4. CASE Listen \/ Fork1 \/ Fork2
  <2>1. CASE Listen
        BY <2>1 DEF Listen, forks, daemon, who, ProcessParts
  <2>2. CASE Fork1
    <3>1. /\ self' \in {self, 2} /\ UNCHANGED <<lookup, listening, leader, pid_file, cwd, shared, uid, gid, debug>>
          BY <2>2 DEF Fork1, Forks, forks, daemon, who
    <3>2. self = 1
          BY <2>2 DEF Fork1, IndInv, ProcessInv, ForkInv, Early, Alone
    <3>3. QED BY <3>1, <3>2 DEF ProcessParts
  <2>3. CASE Fork2
    <3>1. CASE Forks(3) /\ UNCHANGED <<lookup, listening, daemon, who>>
          BY <1>0, <3>1 DEF Forks, daemon, who, ProcessParts, Processes
    <3>2. QED BY <1>2, <2>3, <3>1 DEF Fork2
  <2>4. QED BY <1>4, <2>1, <2>2, <2>3
<1>5. CASE Setsid \/ Chdir \/ WritePidFile \/ InitIpc \/ ServerLoopReturns
  <2>1. CASE Setsid
        BY <1>0, <1>2, <2>1 DEF Setsid, forks, who, ProcessParts, Processes
  <2>2. CASE Chdir
        BY <1>2, <2>2 DEF Chdir, forks, who, ProcessParts
  <2>3. CASE WritePidFile
        BY <1>0, <2>3 DEF WritePidFile, forks, who, ProcessParts, Processes
  <2>4. CASE InitIpc
        BY <1>2, <2>4 DEF InitIpc, forks, who, ProcessParts
  <2>5. CASE ServerLoopReturns
    <3>1. /\ shared' = FALSE /\ pid_file' \in {0, pid_file}
          /\ UNCHANGED <<self, lookup, listening, leader, cwd, uid, gid, debug>>
          BY <2>5 DEF ServerLoopReturns, forks, who
    <3>2. pid_file' \in 0..self'
          BY <1>0, <3>1 DEF ProcessParts, Processes
    <3>3. QED BY <3>1, <3>2 DEF ProcessParts
  <2>6. QED BY <1>5, <2>1, <2>2, <2>3, <2>4, <2>5
<1>6. CASE SwitchUser
  <2>1. CASE /\ Switches /\ gid' = strings[Group] /\ uid' = strings[User]
             /\ UNCHANGED <<settingsVars, forks, lookup, listening, daemon, debug>>
        BY <1>0, <2>1, NamesTyped DEF forks, daemon, ProcessParts
  <2>2. QED BY <1>1, <1>2, <1>6, <2>1 DEF SwitchUser
<1>7. CASE \E p \in Processes : ParentExits(p)
      BY <1>7 DEF ParentExits, daemon, who, ProcessParts
<1>8. CASE Main /\ ~LookupConnect
      BY <1>1, <1>2, <1>8 DEF Main, Usage, Options, NoFile, Parse, Refused, DebugOption,
         CheckQueueDir, NoQueueDir,
         EngineLoad, OtherEngine, Returned, Failed, FreesAndEnds
<1>9. CASE Load \/ NoListen \/ Unresolved \/ ModuleCalls \/ SessionEnds
      BY <1>1, <1>2, <1>9 DEF Load, NoListen, Unresolved, ModuleCalls, SessionEnds
<1>10. QED BY <1>1, <1>3, <1>4, <1>5, <1>6, <1>7, <1>8, <1>9 DEF Next, Daemon, vars

LEMMA TypesInductive == Spec => []TypesInv
<1>1. Init => TypesInv
  <2> SUFFICES ASSUME Init PROVE TypesInv
      OBVIOUS
  <2>1. Functions
        BY DEF Init, SettingsInit, Functions
  <2>2. pc \in Places
        BY DEF Init, Places
  <2>3. ProcessParts
    <3>1. /\ lookup = FALSE /\ listening = FALSE /\ shared = FALSE /\ debug \in BOOLEAN
          /\ self = 1 /\ leader = 0 /\ pid_file = 0 /\ cwd = "caller"
          /\ uid \in {"root", "caller"} /\ gid = "caller"
          BY DEF Init
    <3>2. leader \in 0..self /\ pid_file \in 0..self
          BY <3>1
    <3>3. QED BY <3>1, <3>2 DEF ProcessParts
  <2>4. QED BY <2>1, <2>2, <2>3 DEF TypesInv
<1>2. IndInv /\ SettingsInv /\ TypesInv /\ [Next]_vars => TypesInv'
      BY FunctionsStep, PlacesStep, ProcessStep DEF TypesInv, IndInv
<1>3. QED BY <1>1, <1>2, Inductive, SettingsInductive, PTL DEF Spec

\* The types of the settings follow from what was asked for.
LEMMA SettingsTyped ==
  ASSUME SettingsTypes, SettingsInv, Functions
  PROVE  SettingsTypeOK
<1>1. /\ config \in Configs /\ line \in 1..Len(config) + 1 /\ line \in Nat \ {0}
      BY DEF SettingsTypes, SettingsInv, SectionInv
<1>2. strings \in [StringOptions -> Texts \cup Facilities \cup DefaultTexts \cup {NULL, Freed}]
  <2> DEFINE T == Texts \cup Facilities \cup DefaultTexts \cup {NULL, Freed}
  <2>1. ASSUME NEW o \in StringOptions PROVE strings[o] \in T
    <3>1. TextAsked(o) \in T
          BY AskedTyped, LateTyped
    <3>2. Late(o) \in T
          BY LateTyped, SettingsAssumption
    <3>3. strings[o] = TextAsked(o) \/ strings[o] = Freed \/ strings[o] = Late(o)
          BY DEF SettingsInv, RightInv, TextRight, TextRead, Dangles
    <3>4. QED BY <3>1, <3>2, <3>3
  <2> HIDE DEF T
  <2>2. strings \in [StringOptions -> T]
        BY <2>1 DEF Functions
  <2>3. QED BY <2>2 DEF T
<1>3. DOMAIN numbers = NumberOptions /\ \A o \in NumberOptions : numbers[o] \in Int
      BY DEF SettingsTypes
<1>4. numbers[Debug] \in {0, 1}
  <2>1. Debug \in NumberOptions /\ Debug \in Flags /\ NumberRight(Debug)
        BY Kinds DEF SettingsInv, RightInv, Debug, Flags, In
  <2>2. LatePort(Debug) = {0} /\ DefaultNumber(Debug) = 0
        BY DEF LatePort, DefaultNumber, DefaultNumbers, Debug
  <2>3. Accepted(Debug) # {} => NumberIn(Debug, config[Max(Accepted(Debug))].text) \in {0, 1}
    <3> SUFFICES ASSUME Accepted(Debug) # {}
                 PROVE  NumberIn(Debug, config[Max(Accepted(Debug))].text) \in {0, 1}
        OBVIOUS
    <3>1. Max(Accepted(Debug)) \in Given(Debug)
          BY <1>1, GivenBefore, LastBefore
    <3>2. config[Max(Accepted(Debug))].text \in Texts
          BY <1>1, <3>1, SaidTexts
    <3>3. QED BY <2>1, <3>2, SettingsAssumption DEF NumberIn
  <2>4. CallsOf(Debug) # {} => calls[Max(CallsOf(Debug))].value \in {0, 1}
    <3> SUFFICES ASSUME CallsOf(Debug) # {}
                 PROVE  calls[Max(CallsOf(Debug))].value \in {0, 1}
        OBVIOUS
    <3>1. PICK V : calls \in Seq(V)
          BY DEF SettingsTypes
    <3>2. Len(calls) \in Nat /\ DOMAIN calls = 1..Len(calls)
          BY <3>1
    <3>3. CallsOf(Debug) \in SUBSET (1..Len(calls))
          BY <3>2 DEF CallsOf
    <3>4. Max(CallsOf(Debug)) \in CallsOf(Debug)
          BY <3>2, <3>3, MaxGreatest
    <3>5. QED BY <3>4 DEF CallsOf, SettingsInv, CallsTyped
  <2>5. NumberAsked(Debug) \in {0, 1}
        BY <2>2, <2>3, <2>4 DEF NumberAsked
  <2>6. QED BY <2>1, <2>2, <2>5 DEF NumberRight
<1>5. codes \in [CodeKeys -> Texts \cup {NULL}]
  <2>1. ASSUME NEW k \in CodeKeys PROVE codes[k] \in Texts \cup {NULL}
        BY AskedTyped DEF SettingsInv, RightInv, CodeRight
  <2>2. QED BY <2>1 DEF Functions
<1>6. groups \in [GroupKeys -> Texts \cup {NULL}]
  <2>1. ASSUME NEW g \in GroupKeys PROVE groups[g] \in Texts \cup {NULL}
    <3>1. CASE SetFor(g) = {}
          BY <3>1 DEF SettingsInv, RightInv, GroupRight
    <3>2. CASE SetFor(g) # {}
      <4>1. Max(SetFor(g)) \in SetFor(g)
            BY <1>1, <3>2, GivenBefore, LastBefore
      <4>2. DOMAIN config = 1..Len(config) /\ Len(config) \in Nat
            BY <1>1, FilesAssumption
      <4>3. SetFor(g) \subseteq DOMAIN config
            BY <1>1, <4>2, GivenBefore
      <4>4. config[Max(SetFor(g))].kind = "value"
            BY <4>1 DEF SetFor
      <4>5. config[Max(SetFor(g))].text \in Texts
            BY <1>1, <4>1, <4>3, <4>4, FilesAssumption
      <4>6. QED BY <3>2, <4>5 DEF SettingsInv, RightInv, GroupRight
    <3>3. QED BY <3>1, <3>2
  <2>2. QED BY <2>1 DEF Functions
<1>7. DOMAIN lists = ListOptions
      BY DEF SettingsInv, DomainsInv
<1>8. QED BY <1>1, <1>2, <1>3, <1>4, <1>5, <1>6, <1>7 DEF SettingsTypeOK

\* All variables of Startup and of SmfSettings have their types.
THEOREM StartupTypesHold == Spec => []TypeOK
<1>1. IndInv /\ SettingsInv /\ TypesInv => TypeOK
  <2> SUFFICES ASSUME IndInv, SettingsInv, TypesInv PROVE TypeOK
      OBVIOUS
  <2>1. SettingsTypeOK
        BY SettingsTyped DEF IndInv, TypesInv
  <2>2. /\ self \in Processes /\ leaving \subseteq 1..self - 1
        /\ status \in [Processes -> {"none", "success", "failure"}]
        BY DEF IndInv, ProcessInv, ProcessTypes
  <2>3. ProcessParts /\ pc \in Places
        BY DEF TypesInv
  <2>4. /\ {lookup, listening, shared, debug} \subseteq BOOLEAN /\ {leader, pid_file} \subseteq 0..self
        /\ cwd \in {"caller", "spool"} /\ {uid, gid} \subseteq Texts \cup {"root", "caller"}
        BY <2>3 DEF ProcessParts
  <2>5. QED BY <2>1, <2>2, <2>3, <2>4 DEF TypeOK, Places
<1>2. QED BY <1>1, Inductive, SettingsInductive, TypesInductive, PTL
=============================================================================
