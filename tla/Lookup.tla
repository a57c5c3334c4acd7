------------------------------- MODULE Lookup -------------------------------
(***************************************************************************)
(* The lookups of smf_lookup_sql.c and smf_lookup_ldap.c, as the processes *)
(* of the daemon use them: the connection a query goes out on, what a      *)
(* process keeps after it, and which host of the list it belongs to.       *)
(*                                                                         *)
(* main.c connects before the daemon forks when lookups are persistent, so *)
(* children start with a copy of the parent's settings->lookup_connection: *)
(* a libzdb pool, or an LDAP handle.  A handle is the pool that has just   *)
(* one connection.  Both backends connect by the same algorithm: the host  *)
(* of choice first, then all hosts of the list in order.                   *)
(*                                                                         *)
(* Hosts are numbered as configured.  sqlite, ldap_uri and empty queries,  *)
(* which bypass hosts or connections, are left out.  So is libzdb's reaper *)
(* thread: threads do not survive fork(), and in the processes that have   *)
(* one it finds nothing to close (ReaperThreadIdle in LookupProofs).       *)
(***************************************************************************)
EXTENDS Integers, FiniteSets

CONSTANTS
  Root,         \* the parent process
  Children,     \* the processes it forks
  NHosts,       \* length of sql_host or ldap_host
  Conns,        \* bound: connections, told apart by the socket they use
  Initial,      \* connections libzdb opens when a pool starts, if it may have so many
  MaxTries,     \* tries to get a connection (30 in the source)
  ReapEvery,    \* tries between two runs of the reaper (5 in the source)
  Settings,     \* the configurations to consider
  MaxOutages,   \* bound: how often a host goes down
  MaxQueries    \* bound: queries of all children

\* max is sql_max_connections, or libzdb's own limit where that is 0.
SettingsType ==
  [backend : {"sql", "ldap"}, persistent : BOOLEAN, balance : BOOLEAN, max : Nat \ {0}]

ASSUME LookupAssumption ==
  /\ Root \notin Children /\ IsFiniteSet(Conns)
  /\ NHosts \in Nat \ {0} /\ 0 \notin Conns
  /\ Initial \in Nat \ {0}
  /\ MaxTries \in Nat /\ ReapEvery \in Nat \ {0} /\ ReapEvery < MaxTries
  /\ Settings \subseteq SettingsType
  /\ MaxOutages \in Nat /\ MaxQueries \in Nat

Procs == Children \cup {Root}
Hosts == 1..NHosts

Pcs == {"none", "boot", "serving", "idle", "connect", "failover", "get", "query", "aborted", "exited"}

\* settings->lookup_connection: NULL, or a pool with its idle and its active connections.
Null     == [open |-> FALSE, bound |-> FALSE, host |-> 0, idle |-> {}, active |-> {}]
PoolType == [open : BOOLEAN, bound : BOOLEAN, host : Hosts \cup {0},
             idle : SUBSET Conns, active : SUBSET Conns]

VARIABLES
  settings,  \* the configuration, read once
  up,        \* the hosts that can be reached
  server,    \* the host at the other end of a connection, 0 when there is none any more
  pc,        \* where each process is
  lookup,    \* each process's settings->lookup_connection
  elem,      \* next host of the failover loop (these three start anew with each call)
  tries,     \* i of smf_lookup_sql_get_connection
  cur,       \* its c, 0 for NULL
  tried,     \* history: hosts found unreachable by this connect
  lost,      \* history: connections of the pool whose query raised an exception
  blip,      \* history: was the host of the pool unreachable at some time of this query, or did
             \* another process close a connection of it
  outages,   \* what MaxOutages counts
  queries    \* what MaxQueries counts

env     == <<settings, up, outages>>
history == <<tried, lost, blip>>
locals  == <<elem, tries, cur>>
vars    == <<env, server, pc, lookup, locals, history, queries>>

Held(p)  == lookup[p].idle \cup lookup[p].active
Free     == Conns \ UNION {Held(p) \cup {cur[p]} : p \in Procs}

\* Sockets for n new connections; actions that need them wait for the bound Conns.
Enough(n) == \E S \in SUBSET Free : Cardinality(S) = n
Fresh(n)  == CHOOSE S \in SUBSET Free : Cardinality(S) = n

Lost(S)      == [c \in Conns |-> IF c \in S THEN 0 ELSE server[c]]
Opened(S, h) == [c \in Conns |-> IF c \in S THEN h ELSE server[c]]
Goto(p, l)   == pc' = [pc EXCEPT ![p] = l]
Set(p, l)    == lookup' = [lookup EXCEPT ![p] = l]

Init ==
  /\ settings \in Settings
  /\ up \in SUBSET Hosts
  /\ server = [c \in Conns |-> 0]
  /\ pc = [p \in Procs |-> IF p = Root THEN "boot" ELSE "none"]
  /\ lookup = [p \in Procs |-> Null]
  /\ elem = [p \in Procs |-> 1] /\ tries = [p \in Procs |-> 0] /\ cur = [p \in Procs |-> 0]
  /\ tried = [p \in Procs |-> {}] /\ lost = [p \in Procs |-> {}]
  /\ blip = [p \in Procs |-> FALSE]
  /\ outages = 0 /\ queries = 0

(***************************************************************************)
(* Connecting.                                                             *)
(***************************************************************************)

\* smf_lookup_sql_get_rand_host and smf_lookup_ldap_get_rand_host: the first element whose
\* number is not the random one.
RandHost(random) == IF random # 1 THEN 1 ELSE 2

FirstHosts == IF settings.balance THEN {RandHost(r) : r \in 0..(NHosts - 1)} ELSE {1}

\* Connections of a pool that has just been started: all it may have, if that is less than what
\* libzdb starts with.
MaxPool   == settings.max
StartSize == IF settings.backend = "ldap" THEN 1
             ELSE IF MaxPool < Initial THEN MaxPool ELSE Initial

\* Where a process goes on once it is connected, and when it cannot connect.
Connected(p) == IF p = Root THEN "serving" ELSE IF settings.backend = "sql" THEN "get" ELSE "query"
Failed(p)    == IF p = Root THEN "exited" ELSE "idle"

\* Host h answers: smf_lookup_sql_start_pool; smf_lookup_ldap_init_ld and a bind.
Succeed(p, h) ==
  /\ h \in up /\ Enough(StartSize)
  /\ LET S == Fresh(StartSize) IN
       /\ Set(p, [open |-> TRUE, bound |-> TRUE, host |-> h, idle |-> S, active |-> {}])
       /\ server' = [c \in Conns |-> IF c \in S THEN h ELSE Lost(Held(p))[c]]
  /\ Goto(p, Connected(p))
  /\ elem' = [elem EXCEPT ![p] = 1] /\ UNCHANGED <<tries, cur>>
  /\ tried' = [tried EXCEPT ![p] = {}] /\ lost' = [lost EXCEPT ![p] = {}]
  /\ blip' = [blip EXCEPT ![p] = FALSE]

\* Host h does not: a pool is freed again, an LDAP handle stays, without a bind.
Fail(p, h) ==
  /\ h \notin up
  /\ Set(p, IF settings.backend = "sql" THEN Null
            ELSE [open |-> TRUE, bound |-> FALSE, host |-> h, idle |-> {}, active |-> {}])
  /\ server' = Lost(Held(p))
  /\ tried' = [tried EXCEPT ![p] = @ \cup {h}]
  /\ lost' = [lost EXCEPT ![p] = {}]

Connect(p) ==
  /\ pc[p] = "connect"
  /\ \E h \in FirstHosts :
       \/ Succeed(p, h)
       \/ Fail(p, h) /\ Goto(p, "failover") /\ UNCHANGED <<locals, blip>>
  /\ UNCHANGED <<env, queries>>

\* Mutants: the loop takes the first host as tried, and goes past the end of the list.
CandidateAfterFirst(p) == IF elem[p] = 1 /\ NHosts > 1 THEN 2 ELSE elem[p]
PastLast(h)            == h > NHosts

Candidate(p) == elem[p]
Last(h)      == h = NHosts

Failover(p) ==
  /\ pc[p] = "failover"
  /\ LET h == Candidate(p) IN
       \/ Succeed(p, h)
       \/ /\ Fail(p, h) /\ Goto(p, IF Last(h) THEN Failed(p) ELSE "failover")
          /\ elem' = [elem EXCEPT ![p] = IF Last(h) THEN 1 ELSE h + 1]
          /\ UNCHANGED <<tries, cur, blip>>
  /\ UNCHANGED <<env, queries>>

(***************************************************************************)
(* smf_lookup_sql_get_connection.                                          *)
(***************************************************************************)

CanOpen(p) == Cardinality(Held(p)) < MaxPool /\ lookup[p].host \in up
Dead(p)    == {c \in lookup[p].idle : server[c] = 0}

\* Mutant: failing tries are not counted.
Uncounted(p) == tries[p]

Counted(p) == tries[p] + 1

\* ConnectionPool_reapConnections closes idle connections that do not answer, or that have not
\* been used for a while, one after the other, and stops when only the initial number is left.
Excess(p)   == Cardinality(lookup[p].idle) - StartSize
Reapable(p) == {R \in SUBSET lookup[p].idle :
                  /\ R = {} \/ Cardinality(R) <= Excess(p)
                  /\ Dead(p) \subseteq R \/ Cardinality(R) >= Excess(p)}

\* Mutant: the reaper never runs.
NeverReaped(p) == {{}}

\* It runs after every fifth try.
Reaped(p) == IF Counted(p) % ReapEvery = 0 THEN Reapable(p) ELSE {{}}

InQuery(p) == pc[p] \in {"connect", "failover", "get", "query"}

\* Process p closes connections.  Who shares one that was alive has lost it, too.
Closed(p, S) ==
  /\ server' = Lost(S)
  /\ blip' = [q \in Procs |->
                blip[q] \/ (q # p /\ InQuery(q) /\ \E c \in S \cap Held(q) : server[c] # 0)]

\* libzdb returns a connection that is idle, or a new one when it has none that lives and may
\* open one, and the ping succeeds.
GetLive(p) ==
  /\ \/ \E c \in lookup[p].idle :
          /\ server[c] # 0 /\ cur' = [cur EXCEPT ![p] = c]
          /\ Set(p, [lookup[p] EXCEPT !.idle = @ \ {c}, !.active = @ \cup {c}])
          /\ UNCHANGED server
     \/ /\ lookup[p].idle = Dead(p) /\ CanOpen(p) /\ Enough(1)
        /\ LET S == Fresh(1) IN
             /\ cur' = [cur EXCEPT ![p] = CHOOSE c \in S : TRUE]
             /\ Set(p, [lookup[p] EXCEPT !.active = @ \cup S])
             /\ server' = Opened(S, lookup[p].host)
  /\ Goto(p, "query") /\ tries' = [tries EXCEPT ![p] = 0] /\ UNCHANGED blip

\* Mutant: a connection that does not answer is not given back.
GetDeadKept(p) ==
  /\ \/ \E c \in Dead(p) :
          /\ cur' = [cur EXCEPT ![p] = c]
          /\ Set(p, [lookup[p] EXCEPT !.idle = @ \ {c}, !.active = @ \cup {c}])
     \/ lookup[p].idle = Dead(p) /\ ~CanOpen(p) /\ cur' = [cur EXCEPT ![p] = 0] /\ UNCHANGED lookup
  /\ tries' = [tries EXCEPT ![p] = Counted(p)]
  /\ UNCHANGED <<pc, server, blip>>

\* It returns one that does not live, for the ping to find out, which goes back to the pool; or
\* it finds none that lives and cannot open one.
GetDead(p) ==
  /\ \/ \E c \in Dead(p) : cur' = [cur EXCEPT ![p] = c]
     \/ lookup[p].idle = Dead(p) /\ ~CanOpen(p) /\ cur' = [cur EXCEPT ![p] = 0]
  /\ tries' = [tries EXCEPT ![p] = Counted(p)]
  /\ \E R \in Reaped(p) : Set(p, [lookup[p] EXCEPT !.idle = @ \ R]) /\ Closed(p, R)
  /\ UNCHANGED pc

\* The tries are used up.  NULL is an assertion failure; a connection that did not answer is used
\* all the same, with any outcome if the reaper has freed it.
GiveUp(p) ==
  /\ \/ cur[p] \notin lookup[p].idle /\ Goto(p, "aborted")
     \/ cur[p] # 0 /\ Goto(p, "query")
  /\ tries' = [tries EXCEPT ![p] = 0]
  /\ UNCHANGED <<lookup, server, cur, blip>>

Get(p) ==
  /\ pc[p] = "get"
  /\ IF tries[p] < MaxTries THEN GetLive(p) \/ GetDead(p) ELSE GiveUp(p)
  /\ UNCHANGED <<env, elem, tried, lost, queries>>

(***************************************************************************)
(* Queries.                                                                *)
(***************************************************************************)

\* smf_lookup_sql_query and smf_lookup_ldap_query, up to the connection.
Start(p) ==
  /\ pc[p] = "idle" /\ queries < MaxQueries
  /\ queries' = queries + 1
  /\ Goto(p, IF lookup[p].open THEN Connected(p) ELSE "connect")
  /\ tried' = [tried EXCEPT ![p] = {}]
  /\ blip' = [blip EXCEPT ![p] = lookup[p].open /\ lookup[p].host \notin up]
  /\ UNCHANGED <<env, server, lookup, locals, lost>>

\* smf_lookup_sql_disconnect and smf_lookup_ldap_disconnect.
Disconnect(p) == Set(p, Null) /\ server' = Lost(Held(p)) /\ lost' = [lost EXCEPT ![p] = {}]

\* Mutant: the connection is not given back.
NotReleased(p) == lookup[p]

\* smf_lookup_sql_con_close.
Released(p) == [lookup[p] EXCEPT !.idle = @ \cup {cur[p]}, !.active = @ \ {cur[p]}]

\* The rows are read and the connection goes back to the pool.
SqlRows(p) ==
  /\ pc[p] = "query" /\ settings.backend = "sql" /\ server[cur[p]] # 0
  /\ Goto(p, "idle")
  /\ IF settings.persistent THEN Set(p, Released(p)) /\ UNCHANGED <<server, lost>>
     ELSE Disconnect(p)
  /\ cur' = [cur EXCEPT ![p] = 0] /\ blip' = [blip EXCEPT ![p] = FALSE]
  /\ UNCHANGED <<env, elem, tries, tried, queries>>

\* An SQLException, for whatever reason: the connection is kept.
SqlException(p) ==
  /\ pc[p] = "query" /\ settings.backend = "sql"
  /\ Goto(p, "idle")
  /\ lost' = [lost EXCEPT ![p] = @ \cup ({cur[p]} \cap lookup[p].active)]
  /\ cur' = [cur EXCEPT ![p] = 0] /\ blip' = [blip EXCEPT ![p] = FALSE]
  /\ UNCHANGED <<env, server, lookup, elem, tries, tried, queries>>

\* Entries, none, or an error.
LdapSearch(p) ==
  /\ pc[p] = "query" /\ settings.backend = "ldap"
  /\ Goto(p, "idle")
  /\ IF settings.persistent THEN UNCHANGED <<lookup, server, lost>> ELSE Disconnect(p)
  /\ blip' = [blip EXCEPT ![p] = FALSE]
  /\ UNCHANGED <<env, locals, tried, queries>>

(***************************************************************************)
(* The processes, main.c and smf_server.c.                                 *)
(***************************************************************************)

\* Mutant: the parent connects in any case.
BootConnects ==
  /\ pc[Root] = "boot" /\ Goto(Root, "connect")
  /\ UNCHANGED <<env, server, lookup, locals, history, queries>>

Boot ==
  /\ pc[Root] = "boot"
  /\ Goto(Root, IF settings.persistent THEN "connect" ELSE "serving")
  /\ UNCHANGED <<env, server, lookup, locals, history, queries>>

Fork(p) ==
  /\ pc[Root] = "serving" /\ pc[p] = "none"
  /\ Goto(p, "idle") /\ Set(p, lookup[Root])
  /\ UNCHANGED <<env, server, locals, history, queries>>

\* A child ends, in a session or after it: its sockets are closed, and a connection is gone
\* when no other process has it open.
Exit(p) ==
  /\ pc[p] # "none"
  /\ Goto(p, "none") /\ Set(p, Null)
  /\ server' = Lost(Held(p) \ UNION {Held(q) : q \in Procs \ {p}})
  /\ elem' = [elem EXCEPT ![p] = 1] /\ tries' = [tries EXCEPT ![p] = 0] /\ cur' = [cur EXCEPT ![p] = 0]
  /\ tried' = [tried EXCEPT ![p] = {}] /\ lost' = [lost EXCEPT ![p] = {}]
  /\ blip' = [blip EXCEPT ![p] = FALSE]
  /\ UNCHANGED <<env, queries>>

\* The parent has waited for its children.
Shutdown ==
  /\ pc[Root] = "serving" /\ \A p \in Children : pc[p] = "none"
  /\ Goto(Root, "exited")
  /\ IF settings.persistent THEN Disconnect(Root) ELSE UNCHANGED <<lookup, server, lost>>
  /\ UNCHANGED <<env, locals, tried, blip, queries>>

HostDown(h) ==
  /\ h \in up /\ outages < MaxOutages
  /\ up' = up \ {h} /\ outages' = outages + 1
  /\ server' = [c \in Conns |-> IF server[c] = h THEN 0 ELSE server[c]]
  /\ blip' = [p \in Procs |-> blip[p] \/ (InQuery(p) /\ lookup[p].host = h)]
  /\ UNCHANGED <<settings, pc, lookup, locals, tried, lost, queries>>

HostUp(h) ==
  /\ h \notin up
  /\ up' = up \cup {h}
  /\ UNCHANGED <<settings, outages, server, pc, lookup, locals, history, queries>>

Step(p) == Connect(p) \/ Failover(p) \/ Get(p) \/ SqlRows(p) \/ SqlException(p) \/ LdapSearch(p)

Next ==
  \/ Boot \/ Shutdown
  \/ \E p \in Procs : Step(p)
  \/ \E p \in Children : Start(p) \/ Fork(p) \/ Exit(p)
  \/ \E h \in Hosts : HostDown(h) \/ HostUp(h)

Spec == Init /\ [][Next]_vars

\* Hosts answer or time out, and processes are scheduled; nothing is known of clients.
FairSpec == Spec /\ \A p \in Procs : WF_vars(Step(p))

(***************************************************************************)
(* Properties.                                                             *)
(***************************************************************************)

\* The types; no connection of a pool is both idle and active, so none is handed out twice
\* (smf_lookup_sql.c:249-273, 336).
TypeOK ==
  /\ settings \in SettingsType /\ up \subseteq Hosts
  /\ server \in [Conns -> Hosts \cup {0}]
  /\ pc \in [Procs -> Pcs] /\ lookup \in [Procs -> PoolType]
  /\ elem \in [Procs -> Hosts]
  /\ tries \in [Procs -> 0..MaxTries] /\ cur \in [Procs -> Conns \cup {0}]
  /\ tried \in [Procs -> SUBSET Hosts] /\ lost \in [Procs -> SUBSET Conns]
  /\ blip \in [Procs -> BOOLEAN]
  /\ outages \in 0..MaxOutages /\ queries \in 0..MaxQueries
  /\ \A p \in Procs : lookup[p].idle \cap lookup[p].active = {}

\* Without lookup_persistent no connection is known to two processes, in whatever order they
\* are forked, connect, fail and end (main.c:104, smf_lookup_sql.c:339).
PrivateConnections ==
  ~settings.persistent => \A p, q \in Procs : p # q => Held(p) \cap Held(q) = {}

\* Connections are missing from a pool only because their query is still running or has raised
\* an exception (smf_lookup_sql.c:308-313, 336).
PoolBooks ==
  settings.backend = "sql" =>
    \A p \in Procs :
      /\ lost[p] \subseteq lookup[p].active
      /\ lookup[p].active \ lost[p] \subseteq (IF pc[p] = "query" THEN {cur[p]} ELSE {})

\* A connect gives up only after it has found each host of the list unreachable, the one it
\* began with included (smf_lookup_sql.c:202-215, smf_lookup_ldap.c:131-149).
FailoverComplete ==
  [][\A p \in Procs :
       pc[p] \in {"connect", "failover"} /\ pc'[p] = Failed(p) => tried'[p] = Hosts]_vars

\* A query to the database goes out on a connection known to be dead only if its host was
\* unreachable at some time since the query began, if another process closed the connection, or
\* if the pool is down to the connections that the reaper leaves.  Only beyond those, with a
\* sql_max_connections of more than five, lost connections are replaced
\* (smf_lookup_sql.c:161-164, 256-260; smf_lookup.h:34 promises it of all).
SqlReconnects ==
  \A p \in Procs :
    (pc[p] = "query" /\ settings.backend = "sql" /\ server[cur[p]] = 0) =>
      blip[p] \/ Cardinality(lookup[p].idle) <= StartSize

\* The assertion for a connection (smf_lookup_sql.c:271) fails only if the database was
\* unreachable during the tries, if a connection was closed by another process, or if the pool is
\* full of connections that were lost to exceptions or that are dead and left by the reaper.
AbortExplained ==
  \A p \in Procs : pc[p] = "aborted" =>
    \/ blip[p]
    \/ /\ Cardinality(lost[p] \cup lookup[p].idle) = MaxPool
       /\ lookup[p].idle = Dead(p) /\ Cardinality(lookup[p].idle) <= StartSize

\* A query comes to an end, and the tries for a connection do (smf_lookup_sql.c:249).
QueriesEnd == \A p \in Procs : InQuery(p) ~> ~InQuery(p)
=============================================================================
