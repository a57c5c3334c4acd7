---------------------------- MODULE LookupProofs ----------------------------
(***************************************************************************)
(* Theorems about Lookup, for every set of children, every number of hosts *)
(* and all limits of pools, tries, outages and queries.                    *)
(***************************************************************************)
EXTENDS Lookup, FiniteSetTheorems, TLAPS

USE LookupAssumption

\* What a process knows of its pool: cur is NULL outside of a query, a connection in cur has
\* not been lost, and what is active is lost or in cur.
ProcInv(p) ==
  /\ pc[p] = "none" => lookup[p] = Null
  /\ pc[p] \notin {"get", "query", "aborted"} => cur[p] = 0
  /\ pc[p] = "get" \/ cur[p] # 0 => settings.backend = "sql"
  /\ pc[p] = "query" /\ settings.backend = "sql" => cur[p] # 0
  /\ lost[p] \subseteq lookup[p].active /\ cur[p] \notin lost[p]
  /\ lookup[p].active \ lost[p] \subseteq (IF pc[p] = "query" THEN {cur[p]} ELSE {})

\* The parent never queries, and connects only for the sake of its children.
RootInv ==
  /\ pc[Root] \in {"boot", "connect", "failover", "serving", "exited"}
  /\ lookup[Root].active = {}
  /\ ~settings.persistent => pc[Root] \notin {"connect", "failover"} /\ lookup[Root] = Null

\* The connections a process can reach: a connection in cur that the reaper has taken out of
\* the pool comes back to it when a query on it succeeds.
Known(p) == (Held(p) \cup {cur[p]}) \ {0}

PrivateInv ==
  ~settings.persistent => \A p, q \in Procs : p # q => Known(p) \cap Known(q) = {}

IndInv == TypeOK /\ RootInv /\ PrivateInv /\ \A p \in Procs : ProcInv(p)

(***************************************************************************)
(* The operators.                                                          *)
(***************************************************************************)

\* New connections are free ones, and as many as asked for.
LEMMA FreshFree ==
  ASSUME NEW n, Enough(n)
  PROVE  Fresh(n) \in SUBSET Free /\ Cardinality(Fresh(n)) = n
BY DEF Enough, Fresh

\* A single new connection is some free one.
LEMMA FreshOne ==
  ASSUME Enough(1)
  PROVE  (CHOOSE c \in Fresh(1) : TRUE) \in Fresh(1)
<1>1. Fresh(1) # {}
      BY FreshFree, FS_EmptySet
<1>2. QED BY <1>1

\* The first host is one of the list, also when it is chosen at random.
LEMMA FirstHostsType == FirstHosts \subseteq Hosts
BY DEF FirstHosts, RandHost, Hosts

\* The parent and its children are the processes.
LEMMA ProcsType == Root \in Procs /\ Children \subseteq Procs
BY DEF Procs

(***************************************************************************)
(* Types.                                                                  *)
(***************************************************************************)

\* Pools are made of connections.
LEMMA PoolParts ==
  ASSUME TypeOK, NEW p \in Procs
  PROVE  /\ lookup[p].idle \subseteq Conns /\ lookup[p].active \subseteq Conns
         /\ lookup[p].host \in Hosts \cup {0}
         /\ lookup[p].idle \cap lookup[p].active = {}
BY DEF TypeOK, PoolType

\* A pool with other connections.
Moved(P, I, A) == [P EXCEPT !.idle = I, !.active = A]

\* Moving connections between the two sets of a pool.
LEMMA PoolChange ==
  ASSUME NEW P \in PoolType, NEW I \in SUBSET Conns, NEW A \in SUBSET Conns
  PROVE  /\ Moved(P, I, A) \in PoolType
         /\ Moved(P, I, A).idle = I /\ Moved(P, I, A).active = A
         /\ Moved(P, I, A).open = P.open /\ Moved(P, I, A).host = P.host
BY DEF PoolType, Moved

\* What a pool holds is bounded by the configuration.
LEMMA Sizes ==
  ASSUME settings \in SettingsType
  PROVE  MaxPool \in Nat \ {0} /\ StartSize \in Nat \ {0} /\ StartSize <= MaxPool
BY DEF SettingsType, MaxPool, StartSize

\* The bounds stay as they are read.
LEMMA SameSizes ==
  ASSUME settings' = settings
  PROVE  MaxPool' = MaxPool /\ StartSize' = StartSize
BY DEF MaxPool, StartSize

\* A pool without some of its idle connections.
Less(p, R) == [lookup[p] EXCEPT !.idle = @ \ R]

\* A try that fails takes at most idle connections out of the pool.
LEMMA GetDeadEffect ==
  ASSUME TypeOK, NEW p \in Procs, GetDead(p)
  PROVE  \E R \in Reaped(p) :
           /\ R \subseteq lookup[p].idle
           /\ lookup' = [lookup EXCEPT ![p] = Less(p, R)]
           /\ Less(p, R) \in PoolType
           /\ Less(p, R).idle = lookup[p].idle \ R /\ Less(p, R).active = lookup[p].active
           /\ Less(p, R).open = lookup[p].open /\ Less(p, R).host = lookup[p].host
           /\ Closed(p, R)
<1>1. PICK R \in Reaped(p) : lookup' = [lookup EXCEPT ![p] = Less(p, R)] /\ Closed(p, R)
      BY DEF GetDead, Set, Less
<1>2. R \subseteq lookup[p].idle
      BY DEF Reaped, Reapable
<1>3. lookup[p] \in PoolType
      BY DEF TypeOK
<1>4. /\ Less(p, R) \in PoolType
      /\ Less(p, R).idle = lookup[p].idle \ R /\ Less(p, R).active = lookup[p].active
      /\ Less(p, R).open = lookup[p].open /\ Less(p, R).host = lookup[p].host
      BY <1>3 DEF Less, PoolType
<1>5. QED BY <1>1, <1>2, <1>4

\* Connecting to host h keeps the types, whether it succeeds or fails.
LEMMA ConnectType ==
  ASSUME TypeOK, NEW p \in Procs, NEW h \in Hosts,
         Succeed(p, h) \/ Fail(p, h),
         UNCHANGED <<env, queries>>
  PROVE  /\ server' \in [Conns -> Hosts \cup {0}]
         /\ lookup' \in [Procs -> PoolType]
         /\ tried' \in [Procs -> SUBSET Hosts] /\ lost' \in [Procs -> SUBSET Conns]
         /\ \A q \in Procs : lookup'[q].idle \cap lookup'[q].active = {}
<1> USE DEF TypeOK, Set
<1>1. CASE Succeed(p, h)
  <2>1. Fresh(StartSize) \subseteq Conns
        BY <1>1, FreshFree DEF Succeed, Free
  <2>2. [open |-> TRUE, bound |-> TRUE, host |-> h, idle |-> Fresh(StartSize), active |-> {}]
          \in PoolType
        BY <2>1 DEF PoolType
  <2>3. lookup' \in [Procs -> PoolType]
        BY <1>1, <2>2 DEF Succeed
  <2>4. server' \in [Conns -> Hosts \cup {0}]
        BY <1>1 DEF Succeed, Lost
  <2>5. \A q \in Procs : lookup'[q].idle \cap lookup'[q].active = {}
        BY <1>1 DEF Succeed
  <2>6. QED BY <1>1, <2>3, <2>4, <2>5 DEF Succeed
<1>2. CASE Fail(p, h)
  <2>1. lookup' \in [Procs -> PoolType]
        BY <1>2 DEF Fail, PoolType, Null
  <2>2. \A q \in Procs : lookup'[q].idle \cap lookup'[q].active = {}
        BY <1>2 DEF Fail, Null
  <2>3. QED BY <1>2, <2>1, <2>2 DEF Fail, Lost
<1>3. QED BY <1>1, <1>2

\* The steps of a connect keep the types.
LEMMA ConnectingType ==
  ASSUME TypeOK, NEW p \in Procs, Connect(p) \/ Failover(p)
  PROVE  TypeOK'
<1>1. PICK h \in Hosts :
        \/ Succeed(p, h)
        \/ /\ Fail(p, h) /\ \E l \in {"failover", Failed(p)} : Goto(p, l)
           /\ elem' \in [Procs -> Hosts] /\ UNCHANGED <<tries, cur, blip>>
  <2>1. CASE Connect(p)
        BY <2>1, FirstHostsType DEF Connect, locals, TypeOK
  <2>2. CASE Failover(p)
    <3>1. elem[p] \in Hosts /\ 1 \in Hosts
          BY DEF TypeOK, Hosts
    <3>2. elem[p] # NHosts => elem[p] + 1 \in Hosts
          BY <3>1 DEF Hosts
    <3>3. QED BY <2>2, <3>1, <3>2 DEF Failover, Candidate, Last, TypeOK
  <2>3. QED BY <2>1, <2>2
<1>2. UNCHANGED <<env, queries>>
      BY DEF Connect, Failover
<1>3. /\ server' \in [Conns -> Hosts \cup {0}]
      /\ lookup' \in [Procs -> PoolType]
      /\ tried' \in [Procs -> SUBSET Hosts] /\ lost' \in [Procs -> SUBSET Conns]
      /\ \A q \in Procs : lookup'[q].idle \cap lookup'[q].active = {}
      BY <1>1, <1>2, ConnectType
<1>4. /\ pc' \in [Procs -> Pcs] /\ elem' \in [Procs -> Hosts]
      /\ tries' \in [Procs -> 0..MaxTries] /\ cur' \in [Procs -> Conns \cup {0}]
      /\ blip' \in [Procs -> BOOLEAN]
  <2>1. CASE Succeed(p, h)
    <3>1. Connected(p) \in Pcs /\ 1 \in Hosts
          BY DEF Connected, Pcs, Hosts
    <3>2. QED BY <2>1, <3>1 DEF Succeed, Goto, TypeOK
  <2>2. CASE ~Succeed(p, h)
    <3>1. Failed(p) \in Pcs /\ "failover" \in Pcs
          BY DEF Failed, Pcs
    <3>2. QED BY <1>1, <2>2, <3>1 DEF Goto, TypeOK
  <2>3. QED BY <2>1, <2>2
<1>5. QED BY <1>2, <1>3, <1>4 DEF TypeOK, env

\* Looking for a connection in the pool keeps the types.
LEMMA GetType ==
  ASSUME TypeOK, NEW p \in Procs, Get(p)
  PROVE  TypeOK'
<1> USE PoolParts
<1>1. UNCHANGED <<env, elem, tried, lost, queries>> /\ pc[p] = "get"
      BY DEF Get
<1>2. CASE tries[p] < MaxTries /\ GetLive(p)
  <2>1. pc' \in [Procs -> Pcs] /\ tries' \in [Procs -> 0..MaxTries] /\ blip' = blip
    <3>1. "query" \in Pcs /\ 0 \in 0..MaxTries
          BY DEF Pcs
    <3>2. QED BY <1>2, <3>1 DEF GetLive, Goto, TypeOK
  <2>2. CASE \E c \in lookup[p].idle :
               /\ server[c] # 0 /\ cur' = [cur EXCEPT ![p] = c]
               /\ Set(p, [lookup[p] EXCEPT !.idle = @ \ {c}, !.active = @ \cup {c}])
               /\ UNCHANGED server
    <3>1. PICK c \in lookup[p].idle :
               /\ cur' = [cur EXCEPT ![p] = c]
               /\ Set(p, [lookup[p] EXCEPT !.idle = @ \ {c}, !.active = @ \cup {c}])
               /\ UNCHANGED server
          BY <2>2
    <3> DEFINE P == [lookup[p] EXCEPT !.idle = @ \ {c}, !.active = @ \cup {c}]
    <3>2. /\ P \in PoolType /\ c \in Conns
          /\ P.idle = lookup[p].idle \ {c} /\ P.active = lookup[p].active \cup {c}
      <4>1. /\ lookup[p] \in PoolType /\ c \in Conns
            /\ lookup[p].idle \ {c} \in SUBSET Conns /\ lookup[p].active \cup {c} \in SUBSET Conns
            BY DEF TypeOK
      <4>2. P = Moved(lookup[p], lookup[p].idle \ {c}, lookup[p].active \cup {c})
            BY DEF Moved
      <4>3. QED BY <4>1, <4>2, PoolChange
    <3>3. QED BY <1>1, <2>1, <3>1, <3>2 DEF TypeOK, Set, env
  <2>3. CASE Enough(1) /\ CanOpen(p)
             /\ cur' = [cur EXCEPT ![p] = CHOOSE c \in Fresh(1) : TRUE]
             /\ Set(p, [lookup[p] EXCEPT !.active = @ \cup Fresh(1)])
             /\ server' = Opened(Fresh(1), lookup[p].host)
    <3> DEFINE P == [lookup[p] EXCEPT !.active = @ \cup Fresh(1)]
    <3>1. Fresh(1) \subseteq Conns /\ (CHOOSE c \in Fresh(1) : TRUE) \in Conns
          BY <2>3, FreshFree, FreshOne DEF Free
    <3>2. P \in PoolType /\ P.idle \cap P.active = {}
      <4>1. Fresh(1) \cap lookup[p].idle = {}
            BY <2>3, FreshFree DEF Free, Held
      <4>2. P = Moved(lookup[p], lookup[p].idle, lookup[p].active \cup Fresh(1))
            BY DEF Moved, TypeOK, PoolType
      <4>3. QED BY <3>1, <4>1, <4>2, PoolChange DEF TypeOK
    <3>3. server' \in [Conns -> Hosts \cup {0}]
          BY <2>3 DEF Opened, TypeOK
    <3>4. QED BY <1>1, <2>1, <2>3, <3>1, <3>2, <3>3 DEF TypeOK, Set, env
  <2>4. QED BY <1>2, <2>2, <2>3 DEF GetLive
<1>3. CASE tries[p] < MaxTries /\ GetDead(p)
  <2>1. PICK R \in Reaped(p) :
          /\ lookup' = [lookup EXCEPT ![p] = Less(p, R)] /\ Less(p, R) \in PoolType
          /\ Less(p, R).idle \cap Less(p, R).active = {}
          /\ Closed(p, R)
        BY <1>3, GetDeadEffect
  <2>2. Counted(p) \in 0..MaxTries
        BY <1>3 DEF Counted, TypeOK
  <2>3. cur' \in [Procs -> Conns \cup {0}]
        BY <1>3 DEF GetDead, Dead, TypeOK
  <2>4. server' \in [Conns -> Hosts \cup {0}]
        BY <2>1 DEF Closed, Lost, TypeOK
  <2>5. blip' \in [Procs -> BOOLEAN]
        BY <2>1, ZenonT(60) DEF Closed, InQuery, TypeOK
  <2>6. QED BY <1>1, <1>3, <2>1, <2>2, <2>3, <2>4, <2>5 DEF GetDead, TypeOK, env
<1>4. CASE GiveUp(p)
      BY <1>1, <1>4 DEF GiveUp, Goto, Pcs, TypeOK, env
<1>5. QED BY <1>2, <1>3, <1>4 DEF Get

\* Closing a pool keeps the types.
LEMMA DisconnectType ==
  ASSUME TypeOK, NEW p \in Procs, Disconnect(p)
  PROVE  /\ server' \in [Conns -> Hosts \cup {0}] /\ lookup' \in [Procs -> PoolType]
         /\ lost' \in [Procs -> SUBSET Conns]
         /\ \A q \in Procs : lookup'[q].idle \cap lookup'[q].active = {}
<1>1. Null \in PoolType /\ Null.idle \cap Null.active = {}
      BY DEF Null, PoolType
<1>2. QED BY <1>1 DEF Disconnect, Set, Lost, TypeOK

\* The end of a query keeps the types, if a live connection in cur is one.
LEMMA QueryType ==
  ASSUME TypeOK, NEW p \in Procs, ProcInv(p),
         SqlRows(p) \/ SqlException(p) \/ LdapSearch(p)
  PROVE  TypeOK'
<1> USE PoolParts
<1>1. UNCHANGED <<env, elem, tries, tried, queries>>
      BY DEF SqlRows, SqlException, LdapSearch, locals
<1>2. /\ pc' \in [Procs -> Pcs] /\ cur' \in [Procs -> Conns \cup {0}]
      /\ blip' \in [Procs -> BOOLEAN]
  <2>1. "idle" \in Pcs
        BY DEF Pcs
  <2>2. QED BY <2>1, ZenonT(60) DEF SqlRows, SqlException, LdapSearch, Goto, TypeOK, locals
<1>3. /\ server' \in [Conns -> Hosts \cup {0}] /\ lookup' \in [Procs -> PoolType]
      /\ lost' \in [Procs -> SUBSET Conns]
      /\ \A q \in Procs : lookup'[q].idle \cap lookup'[q].active = {}
  <2>1. CASE Disconnect(p)
        BY <2>1, DisconnectType
  <2>2. CASE UNCHANGED <<lookup, server, lost>>
        BY <2>2 DEF TypeOK
  <2>3. CASE SqlException(p)
        BY <2>3 DEF SqlException, TypeOK
  <2>4. CASE SqlRows(p) /\ Set(p, Released(p)) /\ UNCHANGED <<server, lost>>
    <3>1. cur[p] \in Conns
          BY <2>4 DEF SqlRows, ProcInv, TypeOK
    <3>2. /\ lookup[p] \in PoolType
          /\ lookup[p].idle \cup {cur[p]} \in SUBSET Conns
          /\ lookup[p].active \ {cur[p]} \in SUBSET Conns
          BY <3>1 DEF TypeOK
    <3>3. Released(p) = Moved(lookup[p], lookup[p].idle \cup {cur[p]}, lookup[p].active \ {cur[p]})
          BY DEF Released, Moved
    <3>4. Released(p) \in PoolType /\ Released(p).idle \cap Released(p).active = {}
          BY <3>2, <3>3, PoolChange
    <3>5. QED BY <2>4, <3>4 DEF Set, TypeOK
  <2>5. QED BY <2>1, <2>2, <2>3, <2>4 DEF SqlRows, LdapSearch
<1>4. QED BY <1>1, <1>2, <1>3 DEF TypeOK, env

\* Every step of parent, children and hosts keeps the types.
LEMMA TypeStep ==
  ASSUME TypeOK, \A p \in Procs : ProcInv(p), [Next]_vars
  PROVE  TypeOK'
<1> USE ProcsType
<1>1. CASE Boot \/ Shutdown
  <2>1. pc' \in [Procs -> Pcs]
        BY <1>1 DEF Boot, Shutdown, Goto, Pcs, TypeOK
  <2>2. /\ server' \in [Conns -> Hosts \cup {0}] /\ lookup' \in [Procs -> PoolType]
        /\ lost' \in [Procs -> SUBSET Conns]
        /\ \A q \in Procs : lookup'[q].idle \cap lookup'[q].active = {}
    <3>1. CASE Disconnect(Root)
          BY <3>1, DisconnectType
    <3>2. CASE UNCHANGED <<lookup, server, lost>>
          BY <3>2 DEF TypeOK
    <3>3. QED BY <1>1, <3>1, <3>2 DEF Boot, Shutdown, history
  <2>3. UNCHANGED <<env, elem, tries, cur, tried, blip, queries>>
        BY <1>1 DEF Boot, Shutdown, locals, history
  <2>4. QED BY <2>1, <2>2, <2>3 DEF TypeOK, env
<1>2. ASSUME NEW p \in Procs, Step(p) PROVE TypeOK'
      BY <1>2, ConnectingType, GetType, QueryType DEF Step
<1>3. ASSUME NEW p \in Children, Start(p) PROVE TypeOK'
      BY <1>3 DEF Start, Goto, Connected, Pcs, TypeOK, env, locals
<1>4. ASSUME NEW p \in Children, Fork(p) PROVE TypeOK'
      BY <1>4 DEF Fork, Goto, Set, Pcs, TypeOK, env, locals, history
<1>5. ASSUME NEW p \in Children, Exit(p) PROVE TypeOK'
  <2>1. server' \in [Conns -> Hosts \cup {0}] /\ lookup' \in [Procs -> PoolType]
        BY <1>5 DEF Exit, Set, Lost, Null, PoolType, TypeOK
  <2>2. 1 \in Hosts /\ 0 \in 0..MaxTries /\ "none" \in Pcs
        BY DEF Hosts, Pcs
  <2>3. QED BY <1>5, <2>1, <2>2 DEF Exit, Goto, Set, Null, TypeOK, env
<1>6. ASSUME NEW h \in Hosts, HostDown(h) \/ HostUp(h) PROVE TypeOK'
  <2>1. CASE HostDown(h)
    <3>1. up' \subseteq Hosts /\ outages' \in 0..MaxOutages /\ blip' \in [Procs -> BOOLEAN]
          BY <2>1 DEF HostDown, InQuery, TypeOK
    <3>2. server' \in [Conns -> Hosts \cup {0}]
          BY <2>1 DEF HostDown, TypeOK
    <3>3. QED BY <2>1, <3>1, <3>2 DEF HostDown, TypeOK, locals
  <2>2. CASE HostUp(h)
        BY <2>2 DEF HostUp, TypeOK, locals, history
  <2>3. QED BY <1>6, <2>1, <2>2
<1>7. CASE UNCHANGED vars
      BY <1>7 DEF vars, env, locals, history, TypeOK
<1>8. QED BY <1>1, <1>2, <1>3, <1>4, <1>5, <1>6, <1>7 DEF Next

(***************************************************************************)
(* One process at a time.                                                  *)
(***************************************************************************)

\* What one process does, the parent included.
Own(p) ==
  \/ Step(p)
  \/ p \in Children /\ (Start(p) \/ Fork(p) \/ Exit(p))
  \/ p = Root /\ (Boot \/ Shutdown)

\* The others and the configuration stay as they are.
Others(p) ==
  /\ settings' = settings
  /\ \A q \in Procs \ {p} :
       /\ pc'[q] = pc[q] /\ lookup'[q] = lookup[q] /\ cur'[q] = cur[q] /\ lost'[q] = lost[q]
       /\ elem'[q] = elem[q] /\ tried'[q] = tried[q]

\* A process touches its own variables only.
LEMMA OwnOnly ==
  ASSUME TypeOK, NEW p \in Procs, Own(p)
  PROVE  Others(p)
<1> USE DEF Others, TypeOK, Goto, Set, env, locals, history
<1>1. CASE Connect(p) \/ Failover(p)
      BY <1>1 DEF Connect, Failover, Succeed, Fail
<1>2. CASE Get(p)
      BY <1>2 DEF Get, GetLive, GetDead, GiveUp
<1>3. CASE SqlRows(p) \/ SqlException(p) \/ LdapSearch(p)
      BY <1>3 DEF SqlRows, SqlException, LdapSearch, Disconnect
<1>4. CASE Start(p) \/ Fork(p) \/ Exit(p)
      BY <1>4 DEF Start, Fork, Exit
<1>5. CASE p = Root /\ (Boot \/ Shutdown)
      BY <1>5 DEF Boot, Shutdown, Disconnect
<1>6. QED BY <1>1, <1>2, <1>3, <1>4, <1>5 DEF Own, Step

\* A step is one process's own, one of the hosts, or none.
LEMMA NextCases ==
  ASSUME [Next]_vars
  PROVE  \/ \E p \in Procs : Own(p)
         \/ UNCHANGED <<settings, pc, lookup, cur, lost, elem, tried>>
<1>1. CASE Next
      BY <1>1, ProcsType DEF Next, Own, HostDown, HostUp, locals, history
<1>2. CASE UNCHANGED vars
      BY <1>2 DEF vars, env, locals, history
<1>3. QED BY <1>1, <1>2

\* A connect, whether it succeeds, fails or goes on, leaves a pool of new connections or none.
LEMMA ConnectEffect ==
  ASSUME TypeOK, NEW p \in Procs, Connect(p) \/ Failover(p)
  PROVE  /\ pc[p] \in {"connect", "failover"} /\ settings' = settings
         /\ pc'[p] \in {"failover", Failed(p), Connected(p)} /\ cur'[p] = cur[p]
         /\ lookup'[p].active = {} /\ lookup'[p].idle \subseteq Free /\ lost'[p] = {}
<1> USE DEF TypeOK, Goto, Set
<1>1. pc[p] \in {"connect", "failover"} /\ settings' = settings
      BY DEF Connect, Failover, env
<1>2. PICK h \in Hosts : \/ Succeed(p, h)
                         \/ Fail(p, h) /\ pc'[p] \in {"failover", Failed(p)} /\ cur' = cur
  <2>1. CASE Connect(p)
        BY <2>1, FirstHostsType DEF Connect, locals
  <2>2. CASE Failover(p)
        BY <2>2 DEF Failover, Candidate
  <2>3. QED BY <2>1, <2>2
<1>3. CASE Succeed(p, h)
  <2>1. Fresh(StartSize) \subseteq Free
        BY <1>3, FreshFree DEF Succeed
  <2>2. QED BY <1>1, <1>3, <2>1 DEF Succeed
<1>4. CASE Fail(p, h) /\ pc'[p] \in {"failover", Failed(p)} /\ cur' = cur
  <2>1. CASE settings.backend = "sql"
        BY <1>1, <1>4, <2>1 DEF Fail, Null
  <2>2. CASE settings.backend # "sql"
        BY <1>1, <1>4, <2>2 DEF Fail
  <2>3. QED BY <2>1, <2>2
<1>5. QED BY <1>2, <1>3, <1>4

\* A connection that answers was idle in the pool or is new.
LEMMA GetLiveEffect ==
  ASSUME TypeOK, NEW p \in Procs, GetLive(p)
  PROVE  \E c \in lookup[p].idle \cup Free :
           /\ cur'[p] = c
           /\ lookup'[p].idle = lookup[p].idle \ {c}
           /\ lookup'[p].active = lookup[p].active \cup {c}
           /\ lookup'[p].host = lookup[p].host /\ lookup'[p].open = lookup[p].open
           /\ \/ c \in lookup[p].idle /\ server[c] # 0 /\ server' = server
              \/ /\ c \in Free /\ CanOpen(p)
                 /\ server' = [d \in Conns |-> IF d = c THEN lookup[p].host ELSE server[d]]
<1> USE PoolParts DEF TypeOK, Set
<1>1. CASE \E c \in lookup[p].idle :
             /\ server[c] # 0 /\ cur' = [cur EXCEPT ![p] = c]
             /\ Set(p, [lookup[p] EXCEPT !.idle = @ \ {c}, !.active = @ \cup {c}])
             /\ UNCHANGED server
  <2>1. PICK c \in lookup[p].idle :
             /\ server[c] # 0 /\ cur' = [cur EXCEPT ![p] = c] /\ UNCHANGED server
             /\ Set(p, Moved(lookup[p], lookup[p].idle \ {c}, lookup[p].active \cup {c}))
        BY <1>1 DEF Moved
  <2>2. lookup[p] \in PoolType /\ c \in Conns
        OBVIOUS
  <2>3. QED BY <2>1, <2>2, PoolChange
<1>2. CASE /\ CanOpen(p) /\ Enough(1)
           /\ cur' = [cur EXCEPT ![p] = CHOOSE c \in Fresh(1) : TRUE]
           /\ Set(p, [lookup[p] EXCEPT !.active = @ \cup Fresh(1)])
           /\ server' = Opened(Fresh(1), lookup[p].host)
  <2> DEFINE c == CHOOSE d \in Fresh(1) : TRUE
  <2>1. c \in Fresh(1) /\ Fresh(1) \subseteq Free /\ Cardinality(Fresh(1)) = 1
        BY <1>2, FreshOne, FreshFree
  <2>2. Fresh(1) = {c}
    <3>1. IsFiniteSet(Fresh(1))
          BY <2>1, FS_Subset DEF Free
    <3>2. PICK d : Fresh(1) = {d}
          BY <2>1, <3>1, FS_Singleton
    <3>3. QED BY <2>1, <3>2
  <2>3. /\ cur'[p] = c /\ lookup'[p].active = lookup[p].active \cup {c}
        /\ lookup'[p].idle = lookup[p].idle
        /\ lookup'[p].host = lookup[p].host /\ lookup'[p].open = lookup[p].open
        BY <1>2, <2>2 DEF PoolType
  <2>4. server' = [d \in Conns |-> IF d = c THEN lookup[p].host ELSE server[d]]
        BY <1>2, <2>2 DEF Opened
  <2>5. c \in Free /\ c \notin lookup[p].idle
        BY <2>1 DEF Free, Held
  <2> HIDE DEF c
  <2>6. lookup'[p].idle = lookup[p].idle \ {c}
        BY <2>3, <2>5
  <2>7. CanOpen(p)
        BY <1>2
  <2>8. c \in lookup[p].idle \cup Free
        BY <2>5
  <2>9. QED BY <2>3, <2>4, <2>5, <2>6, <2>7, <2>8, ZenonT(60)
<1>3. QED BY <1>1, <1>2 DEF GetLive

\* The parent's own steps keep RootInv.
LEMMA RootStep ==
  ASSUME TypeOK, RootInv, [Next]_vars
  PROVE  RootInv'
<1> USE ProcsType DEF RootInv
<1>1. ASSUME NEW p \in Procs, Own(p), p # Root PROVE RootInv'
      BY <1>1, OwnOnly DEF Others
<1>2. CASE Own(Root)
  <2> USE DEF TypeOK, Goto, Set, env
  <2>1. pc[Root] \notin {"idle", "get", "query", "none"}
        OBVIOUS
  <2>2. CASE Connect(Root) \/ Failover(Root)
        BY <2>2, ConnectEffect DEF Connected, Failed
  <2>3. CASE Boot
        BY <2>3 DEF Boot
  <2>4. CASE Shutdown
    <3>1. settings' = settings /\ pc'[Root] = "exited"
          BY <2>4 DEF Shutdown
    <3>2. CASE Disconnect(Root)
          BY <3>1, <3>2 DEF Disconnect, Null
    <3>3. CASE ~settings.persistent /\ lookup' = lookup
          BY <3>1, <3>3
    <3>4. QED BY <2>4, <3>2, <3>3 DEF Shutdown
  <2>5. QED BY <1>2, <2>1, <2>2, <2>3, <2>4
            DEF Own, Step, Get, SqlRows, SqlException, LdapSearch, LookupAssumption
<1>3. CASE UNCHANGED <<settings, pc, lookup, cur, lost, elem, tried>>
      BY <1>3
<1>4. QED BY <1>1, <1>2, <1>3, NextCases

\* Every step keeps what each process knows of its pool.
LEMMA ProcStep ==
  ASSUME TypeOK, RootInv, \A p \in Procs : ProcInv(p), [Next]_vars
  PROVE  \A p \in Procs : ProcInv(p)'
<1> USE ProcsType DEF ProcInv
<1>1. ASSUME NEW p \in Procs, Own(p) PROVE ProcInv(p)'
  <2> USE DEF TypeOK, Goto, Set, env, locals, history
  <2>1. settings' = settings /\ ProcInv(p)
        BY <1>1, OwnOnly DEF Others
  <2>2. CASE Connect(p) \/ Failover(p)
        BY <2>1, <2>2, ConnectEffect DEF Connected, Failed
  <2>3. CASE Get(p) /\ tries[p] < MaxTries /\ GetLive(p)
    <3>1. /\ pc[p] = "get" /\ lost' = lost
          BY <2>3 DEF Get
    <3>2. pc'[p] = "query"
          BY <2>3, ZenonT(60) DEF GetLive
    <3>3. PICK c \in lookup[p].idle \cup Free :
            cur'[p] = c /\ lookup'[p].active = lookup[p].active \cup {c}
          BY <2>3, GetLiveEffect
    <3>4. c \notin lookup[p].active /\ c # 0
          BY PoolParts DEF Free, Held
    <3>5. QED BY <2>1, <3>1, <3>2, <3>3, <3>4
  <2>4. CASE Get(p) /\ tries[p] < MaxTries /\ GetDead(p)
    <3>1. /\ pc' = pc /\ lost' = lost /\ pc[p] = "get"
          /\ cur'[p] = 0 \/ cur'[p] \in lookup[p].idle
          BY <2>4 DEF Get, GetDead, Dead
    <3>2. lookup'[p].active = lookup[p].active
          BY <2>4, GetDeadEffect
    <3>3. QED BY <2>1, <3>1, <3>2
  <2>5. CASE Get(p) /\ GiveUp(p)
        BY <2>1, <2>5 DEF Get, GiveUp
  <2>6. CASE SqlRows(p)
    <3>1. CASE Disconnect(p)
          BY <2>1, <2>6, <3>1 DEF SqlRows, Disconnect, Null
    <3>2. CASE Set(p, Released(p)) /\ UNCHANGED <<server, lost>>
          BY <2>1, <2>6, <3>2 DEF SqlRows, Released, PoolType
    <3>3. QED BY <2>6, <3>1, <3>2 DEF SqlRows
  <2>7. CASE SqlException(p)
        BY <2>1, <2>7 DEF SqlException
  <2>8. CASE LdapSearch(p)
    <3>1. /\ settings.backend = "ldap" /\ cur[p] = 0 /\ cur' = cur /\ pc'[p] = "idle"
          BY <2>1, <2>8 DEF LdapSearch
    <3>2. CASE Disconnect(p)
      <4>1. lookup'[p] = Null /\ lost'[p] = {} /\ cur'[p] = 0
            BY <3>1, <3>2 DEF Disconnect
      <4>2. QED BY <3>1, <4>1 DEF Null
    <3>3. CASE UNCHANGED <<lookup, server, lost>>
      <4>1. lookup[p].active \ lost[p] = {}
            BY <2>1, <2>8, <3>1, PoolParts DEF LdapSearch
      <4>2. QED BY <2>1, <3>1, <3>3, <4>1
    <3>4. QED BY <2>8, <3>2, <3>3 DEF LdapSearch
  <2>9. CASE p \in Children /\ Start(p)
        BY <2>1, <2>9 DEF Start, Connected
  <2>10. CASE p \in Children /\ Fork(p)
        BY <2>1, <2>10 DEF Fork, RootInv, Null
  <2>11. CASE p \in Children /\ Exit(p)
        BY <2>1, <2>11 DEF Exit, Null
  <2>12. CASE p = Root /\ (Boot \/ Shutdown)
        BY <2>1, <2>12 DEF Boot, Shutdown, Disconnect, Null
  <2>13. QED BY <1>1, <2>2, <2>3, <2>4, <2>5, <2>6, <2>7, <2>8, <2>9, <2>10, <2>11, <2>12
             DEF Own, Step, Get
<1>2. ASSUME NEW p \in Procs, NEW q \in Procs, Own(q), q # p PROVE ProcInv(p)'
      BY <1>2, OwnOnly DEF Others
<1>3. CASE UNCHANGED <<settings, pc, lookup, cur, lost, elem, tried>>
      BY <1>3
<1>4. QED BY <1>1, <1>2, <1>3, NextCases

(***************************************************************************)
(* Private connections.                                                    *)
(***************************************************************************)

\* Without persistence a process comes to know only of connections that are new; a child
\* inherits none.
LEMMA KnownGrows ==
  ASSUME IndInv, NEW p \in Procs, Own(p), ~settings.persistent
  PROVE  Known(p)' \subseteq Known(p) \cup Free
<1> USE ProcsType, PoolParts DEF Known, Held, TypeOK, Goto, Set, locals, history
<1>1. TypeOK /\ RootInv /\ ProcInv(p)
      BY DEF IndInv
<1>2. CASE Connect(p) \/ Failover(p)
      BY <1>1, <1>2, ConnectEffect
<1>3. CASE GetLive(p)
      BY <1>1, <1>3, GetLiveEffect
<1>4. CASE GetDead(p)
  <2>1. lookup'[p].idle \subseteq lookup[p].idle /\ lookup'[p].active = lookup[p].active
        BY <1>1, <1>4, GetDeadEffect
  <2>2. cur'[p] = 0 \/ cur'[p] \in lookup[p].idle
        BY <1>1, <1>4 DEF GetDead, Dead
  <2>3. QED BY <2>1, <2>2
<1>5. CASE GiveUp(p)
      BY <1>1, <1>5 DEF GiveUp
<1>6. CASE SqlRows(p) \/ LdapSearch(p)
  <2>1. Disconnect(p) /\ cur'[p] \in {0, cur[p]}
        BY <1>1, <1>6 DEF SqlRows, LdapSearch
  <2>2. lookup'[p] = Null
        BY <1>1, <2>1 DEF Disconnect
  <2>3. QED BY <2>1, <2>2 DEF Null
<1>7. CASE SqlException(p)
      BY <1>1, <1>7 DEF SqlException
<1>8. CASE Start(p)
      BY <1>1, <1>8 DEF Start
<1>9. CASE Fork(p)
  <2>1. lookup'[p] = Null /\ cur' = cur
        BY <1>1, <1>9 DEF Fork, RootInv
  <2>2. QED BY <2>1 DEF Null
<1>10. CASE Exit(p)
  <2>1. lookup'[p] = Null /\ cur'[p] = 0
        BY <1>1, <1>10 DEF Exit
  <2>2. QED BY <2>1 DEF Null
<1>11. CASE p = Root /\ (Boot \/ Shutdown)
       BY <1>11 DEF Boot, Shutdown
<1>12. QED BY <1>2, <1>3, <1>4, <1>5, <1>6, <1>7, <1>8, <1>9, <1>10, <1>11
           DEF Own, Step, Get

\* Free connections are known to nobody.
LEMMA FreeUnknown ==
  ASSUME NEW q \in Procs
  PROVE  Free \cap Known(q) = {}
BY DEF Free, Known

\* Every step keeps the connections of two processes apart.
LEMMA PrivateStep ==
  ASSUME IndInv, [Next]_vars
  PROVE  PrivateInv'
<1>1. ASSUME NEW p \in Procs, Own(p) PROVE PrivateInv'
  <2>1. Others(p)
        BY <1>1, OwnOnly DEF IndInv
  <2>2. \A q \in Procs : q # p => Known(q)' = Known(q)
        BY <2>1 DEF Others, Known, Held
  <2>3. SUFFICES ASSUME ~settings.persistent PROVE PrivateInv'
        BY <2>1 DEF Others, PrivateInv
  <2>4. Known(p)' \subseteq Known(p) \cup Free
        BY <1>1, <2>3, KnownGrows
  <2>5. \A q \in Procs : q # p => Known(p)' \cap Known(q)' = {}
        BY <2>2, <2>3, <2>4, FreeUnknown DEF IndInv, PrivateInv
  <2>6. \A q, r \in Procs : q # r /\ q # p /\ r # p => Known(q)' \cap Known(r)' = {}
        BY <2>2, <2>3 DEF IndInv, PrivateInv
  <2>7. QED BY <2>5, <2>6 DEF PrivateInv
<1>2. CASE UNCHANGED <<settings, pc, lookup, cur, lost, elem, tried>>
      BY <1>2 DEF IndInv, PrivateInv, Known, Held
<1>3. QED BY <1>1, <1>2, NextCases

(***************************************************************************)
(* The theorems.                                                           *)
(***************************************************************************)

\* The parent has not connected to anything, and there are no children.
LEMMA InitInv == Init => IndInv
<1> SUFFICES ASSUME Init PROVE IndInv
    OBVIOUS
<1> USE ProcsType DEF Init
<1>1. TypeOK
  <2>1. 1 \in Hosts /\ "boot" \in Pcs /\ "none" \in Pcs
        BY DEF Hosts, Pcs
  <2>2. Null \in PoolType /\ Null.idle \cap Null.active = {}
        BY DEF Null, PoolType
  <2>3. settings \in SettingsType /\ 0 \in 0..MaxTries /\ 0 \in 0..MaxOutages
        /\ 0 \in 0..MaxQueries
        OBVIOUS
  <2>4. QED BY <2>1, <2>2, <2>3 DEF TypeOK
<1>2. RootInv
      BY DEF RootInv, Null
<1>3. PrivateInv
      BY DEF PrivateInv, Known, Held, Null
<1>4. \A p \in Procs : ProcInv(p)
      BY DEF ProcInv, Null
<1>5. QED BY <1>1, <1>2, <1>3, <1>4 DEF IndInv

\* Every step keeps the inductive invariant.
LEMMA InvStep == IndInv /\ [Next]_vars => IndInv'
BY TypeStep, RootStep, ProcStep, PrivateStep DEF IndInv

\* The inductive invariant holds in every state of every behaviour.
LEMMA AlwaysInd == Spec => []IndInv
BY InitInv, InvStep, PTL DEF Spec

\* The variables keep their types, and no connection of a pool is idle and handed out at the
\* same time: smf_lookup_sql_get_connection hands out what nobody else of the process has.
THEOREM TypesHold == Spec => []TypeOK
<1>1. IndInv => TypeOK
      BY DEF IndInv
<1>2. QED BY <1>1, AlwaysInd, PTL

\* Without lookup_persistent no connection is ever known to two processes: main connects
\* before the fork only when the setting is on, and a child opens and closes its own.
THEOREM ConnectionsPrivate == Spec => []PrivateConnections
<1>1. IndInv => PrivateConnections
  <2> SUFFICES ASSUME IndInv, ~settings.persistent, NEW p \in Procs, NEW q \in Procs, p # q
               PROVE  Held(p) \cap Held(q) = {}
      BY DEF PrivateConnections
  <2>1. Known(p) \cap Known(q) = {}
        BY DEF IndInv, PrivateInv
  <2>2. 0 \notin Held(p)
        BY PoolParts DEF IndInv, Held
  <2>3. QED BY <2>1, <2>2 DEF Known
<1>2. QED BY <1>1, AlwaysInd, PTL

\* A connection is missing from a pool only while its query runs or after the query raised an
\* exception, which is the one path of smf_lookup_sql_query that does not give it back.
THEOREM PoolBooksHold == Spec => []PoolBooks
<1>1. IndInv => PoolBooks
      BY DEF IndInv, ProcInv, PoolBooks
<1>2. QED BY <1>1, AlwaysInd, PTL

(***************************************************************************)
(* Failover.                                                               *)
(***************************************************************************)

\* The hosts before the next one of the list have been tried.
TriedInv(p) == IF pc[p] = "failover" THEN 1..(elem[p] - 1) \subseteq tried[p] ELSE elem[p] = 1

Tried == \A p \in Procs : TriedInv(p)

\* A connect that gives up has tried them all.
GivesUpLast(p) ==
  pc[p] \in {"connect", "failover"} /\ pc'[p] = Failed(p) => tried'[p] = Hosts

\* The first host, which may be any.
LEMMA ConnectTries ==
  ASSUME TypeOK, NEW p \in Procs, TriedInv(p), Connect(p)
  PROVE  TriedInv(p)' /\ GivesUpLast(p)
<1> USE DEF TypeOK, Goto, Set
<1>1. pc[p] = "connect" /\ elem[p] = 1
      BY DEF Connect, TriedInv
<1>2. PICK h \in Hosts : Succeed(p, h) \/ (Fail(p, h) /\ Goto(p, "failover") /\ UNCHANGED locals)
      BY FirstHostsType DEF Connect
<1>3. CASE Succeed(p, h)
  <2>1. pc'[p] = Connected(p) /\ elem'[p] = 1
        BY <1>3 DEF Succeed
  <2>2. QED BY <2>1 DEF Connected, Failed, TriedInv, GivesUpLast
<1>4. CASE Fail(p, h) /\ Goto(p, "failover") /\ UNCHANGED locals
  <2>1. pc'[p] = "failover" /\ elem'[p] = 1
        BY <1>1, <1>4 DEF locals
  <2>2. QED BY <2>1 DEF Failed, TriedInv, GivesUpLast
<1>5. QED BY <1>2, <1>3, <1>4

\* The loop over the list.
LEMMA FailoverTries ==
  ASSUME TypeOK, NEW p \in Procs, TriedInv(p), Failover(p)
  PROVE  TriedInv(p)' /\ GivesUpLast(p)
<1> DEFINE h == elem[p]
<1> USE DEF TypeOK, Goto, Set
<1>1. pc[p] = "failover" /\ 1..(h - 1) \subseteq tried[p] /\ h \in 1..NHosts
      BY DEF Failover, TriedInv, Hosts
<1>2. CASE Succeed(p, h)
  <2>1. pc'[p] = Connected(p) /\ elem'[p] = 1
        BY <1>2 DEF Succeed
  <2>2. QED BY <2>1 DEF Connected, Failed, TriedInv, GivesUpLast
<1>3. CASE Fail(p, h) /\ Goto(p, IF Last(h) THEN Failed(p) ELSE "failover")
           /\ elem' = [elem EXCEPT ![p] = IF Last(h) THEN 1 ELSE h + 1]
  <2>1. tried'[p] = tried[p] \cup {h} /\ tried[p] \subseteq Hosts
        BY <1>3 DEF Fail
  <2>2. 1..h \subseteq tried'[p]
        BY <1>1, <2>1
  <2>3. CASE h = NHosts
    <3>1. tried'[p] = Hosts
          BY <1>1, <2>1, <2>2, <2>3 DEF Hosts
    <3>2. pc'[p] # "failover" /\ elem'[p] = 1
          BY <1>3, <2>3 DEF Last, Failed
    <3>3. QED BY <3>1, <3>2 DEF TriedInv, GivesUpLast
  <2>4. CASE h # NHosts
    <3>1. pc'[p] = "failover" /\ elem'[p] = h + 1
          BY <1>3, <2>4 DEF Last
    <3>2. (h + 1) - 1 = h
          BY <1>1
    <3>3. QED BY <2>2, <3>1, <3>2 DEF Failed, TriedInv, GivesUpLast
  <2>5. QED BY <2>3, <2>4
<1>4. QED BY <1>2, <1>3 DEF Failover, Candidate

LEMMA TriedStep ==
  ASSUME TypeOK, Tried, [Next]_vars
  PROVE  Tried' /\ \A p \in Procs : GivesUpLast(p)
<1> USE ProcsType
<1>1. ASSUME NEW p \in Procs, Own(p) PROVE TriedInv(p)' /\ GivesUpLast(p)
  <2>1. TriedInv(p)
        BY DEF Tried
  <2>2. CASE Connect(p) \/ Failover(p)
        BY <2>1, <2>2, ConnectTries, FailoverTries
  <2>3. CASE Get(p) \/ SqlRows(p) \/ SqlException(p) \/ LdapSearch(p)
    <3>1. /\ pc[p] \in {"get", "query"} /\ pc'[p] \in {"get", "query", "aborted", "idle"}
          /\ elem' = elem
          BY <2>3 DEF Get, GetLive, GetDead, GiveUp, SqlRows, SqlException, LdapSearch, Goto,
             TypeOK,
                      locals
    <3>2. QED BY <2>1, <3>1 DEF TriedInv, GivesUpLast
  <2>4. CASE Start(p) \/ Fork(p) \/ Exit(p)
    <3>1. /\ pc'[p] \in {"none", "idle", "connect", "get", "query", "serving"}
          /\ elem'[p] = elem[p] \/ elem'[p] = 1
          /\ pc'[p] # "none" => pc[p] \in {"idle", "none"}
          /\ pc'[p] = "none" => elem'[p] = 1
          BY <2>4 DEF Start, Fork, Exit, Connected, Goto, TypeOK, locals
    <3>2. QED BY <2>1, <3>1 DEF TriedInv, GivesUpLast, Failed
  <2>5. CASE p = Root /\ (Boot \/ Shutdown)
    <3>1. pc[p] \in {"boot", "serving"} /\ pc'[p] \in {"connect", "serving", "exited"} /\ elem' = elem
          BY <2>5 DEF Boot, Shutdown, Goto, TypeOK, locals
    <3>2. QED BY <2>1, <3>1 DEF TriedInv, GivesUpLast
  <2>6. QED BY <1>1, <2>2, <2>3, <2>4, <2>5 DEF Own, Step
<1>2. ASSUME NEW p \in Procs, NEW q \in Procs, Own(q), q # p PROVE TriedInv(p)' /\ GivesUpLast(p)
      BY <1>2, OwnOnly DEF Others, Tried, TriedInv, GivesUpLast, Failed
<1>3. CASE UNCHANGED <<settings, pc, lookup, cur, lost, elem, tried>>
      BY <1>3 DEF Tried, TriedInv, GivesUpLast, Failed
<1>4. QED BY <1>1, <1>2, <1>3, NextCases DEF Tried

\* A connect gives up only after every host of the list was found unreachable, whichever host
\* came first: the loops of smf_lookup_sql_connect and smf_lookup_ldap_connect skip none.
THEOREM FailoverIsComplete == Spec => FailoverComplete
<1>1. Init => Tried
      BY DEF Init, Tried, TriedInv
<1>2. IndInv /\ Tried /\ [Next]_vars => Tried'
      BY TriedStep DEF IndInv
<1>3. IndInv /\ Tried /\ [Next]_vars =>
        [\A p \in Procs :
           pc[p] \in {"connect", "failover"} /\ pc'[p] = Failed(p) => tried'[p] = Hosts]_vars
      BY TriedStep DEF IndInv, GivesUpLast
<1>4. QED BY <1>1, <1>2, <1>3, AlwaysInd, PTL DEF Spec, FailoverComplete

(***************************************************************************)
(* Reconnecting.  The ping, the reaper and the limit of the pool together: *)
(* while its database is reachable and nobody closes its connections, a    *)
(* process queries on a dead connection, or fails to get one, only from a  *)
(* pool that is down to the connections the reaper leaves.                 *)
(***************************************************************************)

\* The tries are counted anew for each query, a connect starts from nothing, and a pool holds
\* no more connections than it may; only a persistent child's has more of them idle than in the
\* beginning.
SizeInv(p) ==
  /\ pc[p] # "get" => tries[p] = 0
  /\ pc[p] \in {"boot", "connect", "failover"} => Held(p) = {}
  /\ ~lookup[p].open => lookup[p] = Null
  /\ pc[p] = "get" => lookup[p].open
  /\ Cardinality(Held(p)) <= MaxPool
  /\ p = Root \/ ~settings.persistent => Cardinality(lookup[p].idle) <= StartSize

\* A connection leads to the host of its pool or nowhere; the one that a try leaves in cur is
\* dead, and a query on a live one is a query on one of the pool.
ServerInv(p) ==
  /\ \A c \in Known(p) : server[c] \in {0, lookup[p].host}
  /\ pc[p] = "get" /\ cur[p] # 0 => server[cur[p]] = 0
  /\ pc[p] = "query" /\ settings.backend = "sql" /\ server[cur[p]] # 0 => cur[p] \in lookup[p].active

\* As long as the host has been reachable and the connections were left alone: after the first
\* run of the reaper an idle connection is dead only in a pool that the reaper has left alone, and
\* one more try then meets a dead one or finds the pool full.
CalmInv(p) ==
  ~blip[p] =>
    /\ pc[p] \in {"get", "query"} => lookup[p].host \in up
    /\ pc[p] = "query" /\ settings.backend = "sql" =>
         server[cur[p]] # 0 \/ Cardinality(lookup[p].idle) <= StartSize
    /\ pc[p] = "get" /\ tries[p] >= ReapEvery =>
         (\A c \in lookup[p].idle : server[c] # 0) \/ Cardinality(lookup[p].idle) <= StartSize
    /\ pc[p] = "get" /\ tries[p] > ReapEvery =>
         /\ Cardinality(lookup[p].idle) <= StartSize
         /\ \/ cur[p] \in lookup[p].idle
            \/ cur[p] = 0 /\ lookup[p].idle = Dead(p) /\ Cardinality(Held(p)) >= MaxPool
    /\ pc[p] = "aborted" =>
         /\ Cardinality(lost[p] \cup lookup[p].idle) = MaxPool
         /\ lookup[p].idle = Dead(p) /\ Cardinality(lookup[p].idle) <= StartSize

DbInv(p) == SizeInv(p) /\ ServerInv(p) /\ CalmInv(p)

\* Connections that a process knows are at most lost, and during its query it is told of that.
Undisturbed(p) ==
  /\ \A c \in Known(p) : server'[c] \in {0, server[c]}
  /\ ~blip'[p] => /\ ~blip[p]
                  /\ InQuery(p) => \A c \in Held(p) : server'[c] = server[c]

\* The connections of a pool are among those its process can reach, and none is NULL.
LEMMA HeldKnown ==
  ASSUME TypeOK, NEW p \in Procs
  PROVE  /\ Held(p) \subseteq Known(p) /\ Known(p) \subseteq Conns
         /\ IsFiniteSet(Held(p)) /\ IsFiniteSet(lookup[p].idle)
         /\ Cardinality(lookup[p].idle) \in Nat /\ Cardinality(Held(p)) \in Nat
<1>1. Held(p) \subseteq Conns /\ lookup[p].idle \subseteq Held(p)
      BY PoolParts DEF Held
<1>2. Held(p) \subseteq Known(p) /\ Known(p) \subseteq Conns
      BY <1>1 DEF Known, TypeOK
<1>3. IsFiniteSet(Held(p)) /\ IsFiniteSet(lookup[p].idle)
      BY <1>1, FS_Subset
<1>4. QED BY <1>1, <1>2, <1>3, FS_CardinalityType

\* What a process knows does not change as long as its own variables do not, its connections
\* are left alone, and its host stays reachable.
LEMMA SameDb ==
  ASSUME TypeOK, NEW p \in Procs, ProcInv(p), DbInv(p), Undisturbed(p), settings' = settings,
         pc'[p] = pc[p], lookup'[p] = lookup[p], cur'[p] = cur[p], lost'[p] = lost[p],
         tries'[p] = tries[p],
         ~blip'[p] /\ pc[p] \in {"get", "query"} /\ lookup[p].host \in up => lookup[p].host \in up'
  PROVE  DbInv(p)'
<1>1. /\ Held(p)' = Held(p) /\ Known(p)' = Known(p) /\ Held(p) \subseteq Known(p)
      /\ lookup[p].idle \subseteq Known(p) /\ MaxPool' = MaxPool /\ StartSize' = StartSize
      BY SameSizes, HeldKnown DEF Held, Known
<1>2. SizeInv(p)'
      BY <1>1 DEF DbInv, SizeInv
<1>3. cur[p] # 0 => cur[p] \in Known(p)
      BY DEF Known
<1>4. pc[p] = "query" /\ settings.backend = "sql" => cur[p] # 0
      BY DEF ProcInv
<1>5. ServerInv(p)'
      BY <1>1, <1>3, <1>4 DEF DbInv, ServerInv, Undisturbed
<1>6. CalmInv(p)'
  <2> SUFFICES ASSUME ~blip'[p] PROVE CalmInv(p)'
      BY DEF CalmInv
  <2>1. ~blip[p] /\ (pc[p] \in {"get", "query"} => \A c \in Held(p) : server'[c] = server[c])
        BY DEF Undisturbed, InQuery
  <2>2. lookup[p].idle = Dead(p) => lookup'[p].idle = Dead(p)'
        BY <1>1 DEF Dead, Undisturbed
  <2>3. pc'[p] \in {"get", "query"} => lookup'[p].host \in up'
        BY <2>1 DEF DbInv, CalmInv
  <2>4. pc'[p] = "query" /\ settings'.backend = "sql" =>
          server'[cur'[p]] # 0 \/ Cardinality(lookup'[p].idle) <= StartSize'
    <3>1. pc[p] = "query" /\ settings.backend = "sql" /\ server[cur[p]] # 0 =>
            cur[p] \in Held(p)
          BY DEF DbInv, ServerInv, Held
    <3>2. QED BY <1>1, <2>1, <3>1 DEF DbInv, CalmInv
  <2>5. pc'[p] = "get" /\ tries'[p] >= ReapEvery =>
          \/ \A c \in lookup'[p].idle : server'[c] # 0
          \/ Cardinality(lookup'[p].idle) <= StartSize'
        BY <1>1, <2>1 DEF DbInv, CalmInv, Held
  <2>6. pc'[p] = "get" /\ tries'[p] > ReapEvery =>
          /\ Cardinality(lookup'[p].idle) <= StartSize'
          /\ \/ cur'[p] \in lookup'[p].idle
             \/ /\ cur'[p] = 0 /\ lookup'[p].idle = Dead(p)'
                /\ Cardinality(Held(p)') >= MaxPool'
        BY <1>1, <2>1, <2>2 DEF DbInv, CalmInv
  <2>7. pc'[p] = "aborted" =>
          /\ Cardinality(lost'[p] \cup lookup'[p].idle) = MaxPool'
          /\ lookup'[p].idle = Dead(p)' /\ Cardinality(lookup'[p].idle) <= StartSize'
        BY <1>1, <2>1, <2>2 DEF DbInv, CalmInv
  <2>8. QED BY <2>3, <2>4, <2>5, <2>6, <2>7 DEF CalmInv
<1>7. QED BY <1>2, <1>5, <1>6 DEF DbInv

\* What another process does leaves alone the connections of a pool, or is remembered: it
\* connects and opens on free sockets, closes what it does not share, exits from what it does, and
\* lets the reaper close what others may still use.
LEMMA OtherServer ==
  ASSUME IndInv, NEW p \in Procs, NEW q \in Procs, q # p, Own(q), DbInv(q)
  PROVE  Undisturbed(p)
<1> USE DEF Undisturbed
<1>1. TypeOK /\ Known(p) \subseteq Conns /\ Held(p) \subseteq Known(p) /\ Free \cap Known(p) = {}
      BY HeldKnown, FreeUnknown DEF IndInv
<1>2. \A S \in SUBSET Conns :
        server' = Lost(S) /\ S \cap Known(p) = {} /\ blip'[p] = blip[p] => Undisturbed(p)
      BY <1>1 DEF Lost
<1>3. server' = server /\ blip'[p] = blip[p] => Undisturbed(p)
      BY <1>1
<1>4. CASE Connect(q) \/ Failover(q)
  <2>1. PICK h \in Hosts : (Succeed(q, h) \/ Fail(q, h)) /\ blip'[p] = blip[p]
    <3>1. CASE Connect(q)
          BY <3>1, <1>1, FirstHostsType DEF Connect, Succeed, TypeOK
    <3>2. CASE Failover(q)
          BY <3>2, <1>1 DEF Failover, Candidate, Succeed, TypeOK
    <3>3. QED BY <1>4, <3>1, <3>2
  <2>2. Held(q) = {}
        BY <1>4 DEF DbInv, SizeInv, Connect, Failover
  <2>3. CASE Fail(q, h)
        BY <1>2, <2>1, <2>2, <2>3 DEF Fail
  <2>4. CASE Succeed(q, h)
    <3>1. Fresh(StartSize) \subseteq Free
          BY <2>4, FreshFree DEF Succeed
    <3>2. \A c \in Known(p) : server'[c] = server[c]
          BY <1>1, <2>2, <2>4, <3>1 DEF Succeed, Lost
    <3>3. QED BY <1>1, <2>1, <3>2
  <2>5. QED BY <2>1, <2>3, <2>4
<1>5. CASE Get(q)
  <2>1. CASE server' = server /\ blip' = blip
        BY <1>3, <2>1
  <2>2. CASE Enough(1) /\ server' = Opened(Fresh(1), lookup[q].host) /\ blip' = blip
    <3>1. Fresh(1) \subseteq Free
          BY <2>2, FreshFree
    <3>2. \A c \in Known(p) : server'[c] = server[c]
          BY <1>1, <2>2, <3>1 DEF Opened
    <3>3. QED BY <1>1, <2>2, <3>2
  <2>3. CASE GetDead(q)
    <3>1. PICK R : Closed(q, R)
          BY <2>3 DEF GetDead
    <3>2. \A c \in Known(p) : server'[c] = IF c \in R THEN 0 ELSE server[c]
          BY <1>1, <3>1 DEF Closed, Lost
    <3>3. blip'[p] = (blip[p] \/ (InQuery(p) /\ \E c \in R \cap Held(p) : server[c] # 0))
          BY <3>1 DEF Closed
    <3>4. ~blip'[p] /\ InQuery(p) => \A c \in Held(p) : server'[c] = server[c]
          BY <1>1, <3>2, <3>3
    <3>5. QED BY <3>2, <3>3, <3>4
  <2>4. QED BY <1>5, <2>1, <2>2, <2>3 DEF Get, GetLive, GiveUp
<1>6. CASE ~settings.persistent /\ Disconnect(q) /\ blip'[p] = blip[p]
  <2>1. Held(q) \cap Known(p) = {} /\ Held(q) \subseteq Conns
        BY <1>1, <1>6, HeldKnown DEF IndInv, PrivateInv
  <2>2. QED BY <1>2, <1>6, <2>1 DEF Disconnect
<1>7. CASE q \in Children /\ Exit(q)
  <2>1. server' = Lost(Held(q) \ UNION {Held(r) : r \in Procs \ {q}}) /\ blip'[p] = blip[p]
        BY <1>1, <1>7 DEF Exit, TypeOK
  <2>2. \A c \in Held(p) : c \notin Held(q) \ UNION {Held(r) : r \in Procs \ {q}}
        OBVIOUS
  <2>3. QED BY <1>1, <2>1, <2>2 DEF Lost
<1>8. CASE q = Root /\ Shutdown
  <2>1. pc[p] = "none" /\ blip' = blip
        BY <1>8 DEF Shutdown, Procs
  <2>2. Known(p) = {}
        BY <2>1 DEF IndInv, ProcInv, Known, Held, Null
  <2>3. QED BY <1>1, <2>1, <2>2
<1>9. CASE SqlRows(q) \/ SqlException(q) \/ LdapSearch(q)
  <2>1. blip'[p] = blip[p]
        BY <1>1, <1>9 DEF SqlRows, SqlException, LdapSearch, TypeOK
  <2>2. QED BY <1>3, <1>6, <1>9, <2>1 DEF SqlRows, SqlException, LdapSearch
<1>10. CASE q \in Children /\ (Start(q) \/ Fork(q))
       BY <1>1, <1>3, <1>10 DEF Start, Fork, TypeOK, history
<1>11. CASE q = Root /\ Boot
       BY <1>3, <1>11 DEF Boot, history
<1>12. QED BY <1>4, <1>5, <1>7, <1>8, <1>9, <1>10, <1>11 DEF Own, Step

\* A connect leaves an empty pool, or a new one of no more connections than allowed, on a host
\* that has just been reached.
LEMMA ConnectDb ==
  ASSUME IndInv, NEW p \in Procs, DbInv(p), Connect(p) \/ Failover(p)
  PROVE  DbInv(p)'
<1> USE DEF TypeOK, Set, Goto, env, locals
<1>1. /\ TypeOK /\ pc[p] \in {"connect", "failover"} /\ cur[p] = 0 /\ tries[p] = 0
      /\ up' = up /\ settings' = settings /\ settings \in SettingsType
      /\ MaxPool' = MaxPool /\ StartSize' = StartSize
      BY SameSizes DEF Connect, Failover, IndInv, ProcInv, DbInv, SizeInv
<1>2. PICK h \in Hosts :
        \/ Succeed(p, h)
        \/ Fail(p, h) /\ pc'[p] \in {"failover", Failed(p)} /\ UNCHANGED <<tries, cur, blip>>
      BY <1>1, FirstHostsType DEF Connect, Failover, Candidate
<1>3. CASE Succeed(p, h)
  <2> DEFINE S == Fresh(StartSize)
  <2>1. S \subseteq Conns /\ Cardinality(S) = StartSize
        BY <1>3, FreshFree DEF Succeed, Free
  <2>2. /\ lookup'[p] = [open |-> TRUE, bound |-> TRUE, host |-> h, idle |-> S, active |-> {}]
        /\ pc'[p] = Connected(p) /\ cur'[p] = 0 /\ tries'[p] = 0 /\ h \in up
        /\ \A c \in S : server'[c] = h
        BY <1>1, <1>3, <2>1 DEF Succeed
  <2>3. Held(p)' = S /\ Known(p)' \subseteq S
        BY <2>2 DEF Held, Known
  <2>4. SizeInv(p)'
    <3>1. StartSize <= MaxPool /\ StartSize \in Nat
          BY <1>1, Sizes
    <3>2. Cardinality(Held(p)') <= MaxPool' /\ Cardinality(lookup'[p].idle) <= StartSize'
          BY <1>1, <2>1, <2>2, <2>3, <3>1
    <3>3. QED BY <2>2, <3>2 DEF SizeInv, Connected
  <2>5. ServerInv(p)'
    <3>1. pc'[p] = "query" => settings.backend # "sql"
          BY <2>2 DEF Connected
    <3>2. QED BY <1>1, <2>2, <2>3, <3>1 DEF ServerInv
  <2>6. CalmInv(p)'
        BY <1>1, <2>2 DEF CalmInv, Connected
  <2>7. QED BY <2>4, <2>5, <2>6 DEF DbInv
<1>4. CASE Fail(p, h) /\ pc'[p] \in {"failover", Failed(p)} /\ UNCHANGED <<tries, cur, blip>>
  <2>1. lookup'[p].idle = {} /\ lookup'[p].active = {} /\ (~lookup'[p].open => lookup'[p] = Null)
        BY <1>1, <1>4 DEF Fail, Null
  <2>2. Held(p)' = {} /\ Known(p)' = {} /\ Cardinality({}) = 0
        BY <1>1, <1>4, <2>1, FS_EmptySet DEF Held, Known
  <2>3. pc'[p] \notin {"get", "query", "aborted"} /\ tries'[p] = 0
        BY <1>1, <1>4 DEF Failed
  <2>4. 0 <= MaxPool /\ 0 <= StartSize
        BY <1>1, Sizes
  <2>5. QED BY <1>1, <2>1, <2>2, <2>3, <2>4 DEF DbInv, SizeInv, ServerInv, CalmInv
<1>5. QED BY <1>2, <1>3, <1>4

\* A connection that answers is live, on the host of the pool, and now one of the pool in use.
LEMMA GetLiveDb ==
  ASSUME IndInv, NEW p \in Procs, DbInv(p), Get(p), GetLive(p)
  PROVE  DbInv(p)'
<1>1. TypeOK
      BY DEF IndInv
<1>2. /\ pc[p] = "get" /\ pc'[p] = "query" /\ tries'[p] = 0
      /\ up' = up /\ settings' = settings /\ blip' = blip
      /\ MaxPool' = MaxPool /\ StartSize' = StartSize
      BY <1>1, SameSizes DEF Get, GetLive, Goto, TypeOK, env
<1>3. PICK c \in lookup[p].idle \cup Free :
        /\ cur'[p] = c
        /\ lookup'[p].idle = lookup[p].idle \ {c} /\ lookup'[p].active = lookup[p].active \cup {c}
        /\ lookup'[p].host = lookup[p].host /\ lookup'[p].open = lookup[p].open
        /\ \/ c \in lookup[p].idle /\ server[c] # 0 /\ server' = server
           \/ /\ c \in Free /\ CanOpen(p)
              /\ server' = [d \in Conns |-> IF d = c THEN lookup[p].host ELSE server[d]]
      BY <1>1, GetLiveEffect
<1> DEFINE idle == lookup[p].idle
<1>4. lookup'[p].open
      BY <1>2, <1>3 DEF DbInv, SizeInv
<1>5. /\ Held(p) \subseteq Known(p) /\ Held(p) \subseteq Conns
      /\ IsFiniteSet(Held(p)) /\ Cardinality(Held(p)) \in Nat
      BY <1>1, HeldKnown
<1>6. c \in Conns /\ c # 0
      BY <1>3, <1>5 DEF Free, Held
<1>7. Held(p)' = Held(p) \cup {c}
      BY <1>3 DEF Held
<1>8. Known(p)' = Held(p) \cup {c}
      BY <1>3, <1>5, <1>6, <1>7 DEF Known
<1>9. c \in lookup'[p].active
      BY <1>3
<1>10. p = Root \/ ~settings.persistent => Cardinality(lookup'[p].idle) <= StartSize
  <2>1. IsFiniteSet(idle) /\ idle \ {c} \subseteq idle /\ StartSize \in Nat
        BY <1>1, HeldKnown, Sizes DEF TypeOK
  <2>2. Cardinality(idle \ {c}) <= Cardinality(idle) /\ Cardinality(idle \ {c}) \in Nat
        BY <2>1, FS_Subset, FS_CardinalityType
  <2>3. Cardinality(idle) \in Nat
        BY <2>1, FS_CardinalityType
  <2>4. QED BY <1>3, <2>1, <2>2, <2>3 DEF DbInv, SizeInv
<1>11. CASE c \in lookup[p].idle /\ server[c] # 0 /\ server' = server
  <2>1. Held(p)' = Held(p) /\ Known(p)' = Held(p)
        BY <1>7, <1>8, <1>11 DEF Held
  <2>2. SizeInv(p)'
        BY <1>2, <1>4, <1>10, <2>1 DEF DbInv, SizeInv
  <2>3. ServerInv(p)'
        BY <1>2, <1>3, <1>5, <1>9, <1>11, <2>1 DEF DbInv, ServerInv
  <2>4. CalmInv(p)'
        BY <1>2, <1>3, <1>11 DEF DbInv, CalmInv
  <2>5. QED BY <2>2, <2>3, <2>4 DEF DbInv
<1>12. CASE /\ c \in Free /\ CanOpen(p)
            /\ server' = [d \in Conns |-> IF d = c THEN lookup[p].host ELSE server[d]]
  <2>1. MaxPool \in Nat
        BY <1>1, Sizes DEF TypeOK
  <2>2. Cardinality(Held(p)) < MaxPool
        BY <1>12 DEF CanOpen
  <2>3. Cardinality(Held(p) \cup {c}) <= Cardinality(Held(p)) + 1
    <3> DEFINE n == Cardinality(Held(p))
    <3>1. Cardinality(Held(p) \cup {c}) = IF c \in Held(p) THEN n ELSE n + 1
          BY <1>5, FS_AddElement
    <3>2. n \in Nat
          BY <1>5
    <3>3. QED BY <3>1, <3>2
  <2>4. Cardinality(Held(p) \cup {c}) \in Nat
        BY <1>5, FS_AddElement, FS_CardinalityType
  <2>5. SizeInv(p)'
    <3>1. Cardinality(Held(p)') <= MaxPool'
          BY <1>2, <1>5, <1>7, <2>1, <2>2, <2>3, <2>4
    <3>2. QED BY <1>2, <1>4, <1>10, <3>1 DEF SizeInv
  <2>6. lookup[p].host \in Hosts /\ lookup[p].host \in up /\ server'[c] = lookup[p].host
        BY <1>1, <1>6, <1>12 DEF CanOpen, TypeOK
  <2>7. \A d \in Held(p) \cup {c} : server'[d] \in {0, lookup[p].host}
    <3>1. \A d \in Held(p) : server[d] \in {0, lookup[p].host}
          BY <1>5 DEF DbInv, ServerInv
    <3>2. \A d \in Held(p) : server'[d] \in {lookup[p].host, server[d]}
          BY <1>5, <1>12
    <3>3. QED BY <2>6, <3>1, <3>2
  <2>8. ServerInv(p)'
        BY <1>2, <1>3, <1>8, <1>9, <2>7 DEF ServerInv
  <2>9. CalmInv(p)'
        BY <1>2, <1>3, <2>6 DEF CalmInv, Hosts
  <2>10. QED BY <2>5, <2>8, <2>9 DEF DbInv
<1>13. QED BY <1>3, <1>11, <1>12

\* The try with number ReapEvery is one after which the reaper runs.
LEMMA FirstReap == ReapEvery % ReapEvery = 0
<1>1. \A n \in Nat \ {0} : n % n = 0
      OBVIOUS
<1>2. QED BY <1>1

\* A try that fails: the reaper runs when the tries are a multiple of ReapEvery, so from then on
\* a pool with more connections than it began with has only live ones, and a try that fails meets
\* one of the others or finds no room.
LEMMA GetDeadDb ==
  ASSUME IndInv, NEW p \in Procs, DbInv(p), Get(p), GetDead(p)
  PROVE  DbInv(p)'
<1> DEFINE idle == lookup[p].idle
<1>1. /\ TypeOK /\ tries[p] \in Nat /\ IsFiniteSet(idle) /\ Cardinality(idle) \in Nat
      /\ StartSize \in Nat /\ MaxPool \in Nat /\ idle \subseteq Conns
      BY HeldKnown, Sizes, PoolParts DEF IndInv, TypeOK
<1>2. PICK R \in Reaped(p) :
        /\ R \subseteq idle /\ lookup'[p] = Less(p, R)
        /\ lookup'[p].idle = idle \ R /\ lookup'[p].active = lookup[p].active
        /\ lookup'[p].open = lookup[p].open /\ lookup'[p].host = lookup[p].host
        /\ Closed(p, R)
      BY <1>1, GetDeadEffect DEF TypeOK
<1>3. /\ pc[p] = "get" /\ pc' = pc /\ tries'[p] = tries[p] + 1
      /\ up' = up /\ settings' = settings /\ lost' = lost
      /\ MaxPool' = MaxPool /\ StartSize' = StartSize
      BY <1>1, SameSizes DEF Get, GetDead, Counted, TypeOK, env
<1>4. /\ blip'[p] = blip[p]
      /\ server' = [c \in Conns |-> IF c \in R THEN 0 ELSE server[c]]
  <2>1. blip'[p] = (blip[p] \/ (p # p /\ InQuery(p) /\ \E c \in R \cap Held(p) : server[c] # 0))
        BY <1>2 DEF Closed
  <2>2. blip[p] \in BOOLEAN
        BY <1>1 DEF TypeOK
  <2>3. QED BY <1>2, <2>1, <2>2 DEF Closed, Lost
<1>5. \/ cur'[p] \in idle /\ server[cur'[p]] = 0
      \/ cur'[p] = 0 /\ idle = Dead(p) /\ ~CanOpen(p)
      BY <1>1 DEF GetDead, Dead, TypeOK
<1>6. /\ Held(p)' \subseteq Held(p) /\ Known(p)' \subseteq Held(p)
      /\ R = {} => Held(p)' = Held(p)
      BY <1>2, <1>5 DEF Held, Known
<1>7. Cardinality(idle \ R) \in Nat /\ Cardinality(idle \ R) = Cardinality(idle) - Cardinality(R)
      /\ Cardinality(R) \in Nat /\ (Cardinality(R) = 0 => R = {})
  <2>1. IsFiniteSet(R) /\ Cardinality(R) \in Nat /\ (Cardinality(R) = 0 => R = {})
        BY <1>1, <1>2, FS_Subset, FS_CardinalityType, FS_EmptySet
  <2>2. Cardinality(idle \ R) = Cardinality(idle) - Cardinality(idle \cap R)
        BY <1>1, FS_Difference
  <2>3. idle \cap R = R /\ IsFiniteSet(idle \ R)
        BY <1>1, <1>2, FS_Subset
  <2>4. QED BY <2>1, <2>2, <2>3, FS_CardinalityType
<1>8. SizeInv(p)'
  <2>1. Cardinality(Held(p)') \in Nat /\ Cardinality(Held(p)') <= Cardinality(Held(p))
        BY <1>1, <1>6, HeldKnown, FS_Subset, FS_CardinalityType
  <2>2. Cardinality(Held(p)') <= MaxPool'
        BY <1>1, <1>3, <2>1, HeldKnown DEF DbInv, SizeInv
  <2>3. Cardinality(idle \ R) <= Cardinality(idle)
        BY <1>1, <1>7
  <2>4. p = Root \/ ~settings.persistent => Cardinality(lookup'[p].idle) <= StartSize'
        BY <1>1, <1>2, <1>3, <1>7, <2>3 DEF DbInv, SizeInv
  <2>5. QED BY <1>2, <1>3, <2>2, <2>4 DEF DbInv, SizeInv, Less
<1>9. ServerInv(p)'
  <2>1. \A c \in Held(p) : c \in Conns /\ server[c] \in {0, lookup[p].host}
        BY <1>1, HeldKnown DEF DbInv, ServerInv
  <2>2. \A c \in Held(p) : server'[c] \in {0, lookup[p].host} /\ (server[c] = 0 => server'[c] = 0)
        BY <1>4, <2>1
  <2>3. QED BY <1>2, <1>3, <1>5, <1>6, <2>2 DEF ServerInv, Held
<1>10. CalmInv(p)'
  <2> SUFFICES ASSUME ~blip[p] PROVE CalmInv(p)'
      BY <1>4 DEF CalmInv
  <2>1. lookup[p].host \in up
        BY <1>3 DEF DbInv, CalmInv
  <2>2. R = {} \/ Cardinality(R) <= Cardinality(idle) - StartSize
        BY DEF Reaped, Reapable, Excess
  <2>3. CASE tries[p] >= ReapEvery
    <3>1. (\A c \in idle : server[c] # 0) \/ Cardinality(idle) <= StartSize
          BY <1>3, <2>3 DEF DbInv, CalmInv
    <3>2. cur'[p] = 0 /\ idle = Dead(p) => Cardinality(Held(p)) >= MaxPool
          BY <1>1, <1>5, <2>1, HeldKnown DEF CanOpen
    <3>3. Cardinality(idle) <= StartSize
      <4>1. CASE \A c \in idle : server[c] # 0
        <5>1. idle = {}
              BY <1>5, <4>1 DEF Dead
        <5>2. QED BY <1>1, <5>1, FS_EmptySet
      <4>2. QED BY <3>1, <4>1
    <3>4. R = {}
          BY <1>1, <1>7, <2>2, <3>3
    <3>5. lookup'[p].idle = idle /\ Held(p)' = Held(p)
          BY <1>2, <1>6, <3>4
    <3>6. idle = Dead(p) => lookup'[p].idle = Dead(p)'
          BY <1>1, <1>4, <3>5 DEF Dead
    <3>7. \/ cur'[p] \in lookup'[p].idle
          \/ /\ cur'[p] = 0 /\ lookup'[p].idle = Dead(p)'
             /\ Cardinality(Held(p)') >= MaxPool'
          BY <1>3, <1>5, <3>2, <3>5, <3>6
    <3>8. Cardinality(lookup'[p].idle) <= StartSize'
          BY <1>3, <3>3, <3>5
    <3>9. QED BY <1>2, <1>3, <2>1, <3>7, <3>8 DEF CalmInv
  <2>4. CASE tries[p] < ReapEvery
    <3>1. ~(tries'[p] > ReapEvery) /\ (tries'[p] >= ReapEvery => tries[p] + 1 = ReapEvery)
          BY <1>1, <1>3, <2>4
    <3>2. tries[p] + 1 = ReapEvery =>
            (\A c \in idle \ R : server'[c] # 0) \/ Cardinality(idle \ R) <= StartSize
      <4>1. ReapEvery % ReapEvery = 0
            BY FirstReap
      <4>2. tries[p] + 1 = ReapEvery =>
              Dead(p) \subseteq R \/ Cardinality(R) >= Cardinality(idle) - StartSize
            BY <4>1 DEF Reaped, Counted, Reapable, Excess
      <4>3. Dead(p) \subseteq R => \A c \in idle \ R : server'[c] # 0
            BY <1>1, <1>4 DEF Dead
      <4>4. Cardinality(R) >= Cardinality(idle) - StartSize => Cardinality(idle \ R) <= StartSize
            BY <1>1, <1>7
      <4>5. QED BY <4>2, <4>3, <4>4
    <3>3. QED BY <1>2, <1>3, <2>1, <3>1, <3>2 DEF CalmInv
  <2>5. QED BY <1>1, <2>3, <2>4
<1>11. QED BY <1>8, <1>9, <1>10 DEF DbInv

\* The tries are used up: if the host has been reachable, the reaper has left the pool alone; a
\* dead connection of it is in cur, or NULL is and the others were all lost to exceptions.
LEMMA GiveUpDb ==
  ASSUME IndInv, NEW p \in Procs, DbInv(p), Get(p), ~(tries[p] < MaxTries), GiveUp(p)
  PROVE  DbInv(p)'
<1>1. TypeOK /\ ProcInv(p) /\ tries[p] > ReapEvery /\ 0 \notin lookup[p].idle
      BY PoolParts DEF IndInv, TypeOK
<1>2. /\ pc[p] = "get" /\ tries'[p] = 0 /\ lookup' = lookup /\ cur' = cur /\ server' = server
      /\ up' = up /\ settings' = settings /\ blip' = blip /\ lost' = lost
      /\ (pc'[p] = "aborted" /\ cur[p] \notin lookup[p].idle) \/ (pc'[p] = "query" /\ cur[p] # 0)
      /\ MaxPool' = MaxPool /\ StartSize' = StartSize
      BY <1>1, SameSizes DEF Get, GiveUp, Goto, TypeOK, env
<1>3. Held(p)' = Held(p) /\ Known(p)' = Known(p) /\ Dead(p)' = Dead(p)
      BY <1>2 DEF Held, Known, Dead
<1>4. ~blip[p] =>
        /\ lookup[p].host \in up /\ Cardinality(lookup[p].idle) <= StartSize
        /\ \/ cur[p] \in lookup[p].idle
           \/ cur[p] = 0 /\ lookup[p].idle = Dead(p) /\ Cardinality(Held(p)) >= MaxPool
      BY <1>1, <1>2 DEF DbInv, CalmInv
<1>5. lost[p] \cup lookup[p].idle = Held(p)
      BY <1>1, <1>2 DEF ProcInv, Held
<1>6. Cardinality(Held(p)) >= MaxPool => Cardinality(Held(p)) = MaxPool
      BY <1>1, HeldKnown, Sizes DEF DbInv, SizeInv, TypeOK
<1>7. SizeInv(p)'
      BY <1>2, <1>3 DEF DbInv, SizeInv
<1>8. ServerInv(p)'
      BY <1>2, <1>3 DEF DbInv, ServerInv
<1>9. CalmInv(p)'
  <2> SUFFICES ASSUME ~blip[p] PROVE CalmInv(p)'
      BY <1>2 DEF CalmInv
  <2>1. pc'[p] = "aborted" =>
          /\ Cardinality(lost'[p] \cup lookup'[p].idle) = MaxPool'
          /\ lookup'[p].idle = Dead(p)'
        BY <1>2, <1>3, <1>4, <1>5, <1>6
  <2>2. QED BY <1>2, <1>4, <2>1 DEF CalmInv
<1>10. QED BY <1>7, <1>8, <1>9 DEF DbInv

\* A process that goes back to waiting keeps the pool, with the same connections, or none; only
\* a persistent child makes one of them idle.
LEMMA RestDb ==
  ASSUME TypeOK, NEW p \in Procs, DbInv(p),
         pc'[p] \in {"none", "idle", "serving", "exited"}, cur'[p] = 0, tries'[p] = 0,
         settings' = settings,
         \/ lookup'[p] = Null
         \/ /\ Held(p)' = Held(p) /\ \A c \in Held(p) : server'[c] = server[c]
            /\ lookup'[p].open = lookup[p].open /\ lookup'[p].host = lookup[p].host
            /\ lookup[p] = Null => lookup'[p] = Null
            /\ lookup'[p].idle = lookup[p].idle \/ (p # Root /\ settings.persistent)
  PROVE  DbInv(p)'
<1>1. ServerInv(p)'
  <2>1. CASE lookup'[p] = Null
        BY <2>1 DEF Null, ServerInv, Known, Held
  <2>2. CASE /\ Held(p)' = Held(p) /\ \A c \in Held(p) : server'[c] = server[c]
             /\ lookup'[p].host = lookup[p].host
    <3>1. Known(p)' \subseteq Held(p)
          BY <2>2 DEF Known
    <3>2. QED BY <2>2, <3>1, HeldKnown DEF DbInv, ServerInv
  <2>3. QED BY <2>1, <2>2
<1>2. CalmInv(p)'
      BY DEF CalmInv
<1>3. SizeInv(p)'
  <2>1. CASE lookup'[p] = Null
    <3>1. Held(p)' = {}
          BY <2>1 DEF Held, Null
    <3>2. Cardinality({}) <= MaxPool' /\ Cardinality({}) <= StartSize'
          BY FS_EmptySet, Sizes, SameSizes DEF TypeOK
    <3>3. lookup'[p].idle = {}
          BY <2>1 DEF Null
    <3>4. QED BY <2>1, <3>1, <3>2, <3>3 DEF SizeInv
  <2>2. QED BY <2>1, SameSizes DEF DbInv, SizeInv
<1>4. QED BY <1>1, <1>2, <1>3 DEF DbInv

\* The end of a query: a connection that answered goes back to the pool it came from.
LEMMA QueryDb ==
  ASSUME IndInv, NEW p \in Procs, DbInv(p), SqlRows(p) \/ SqlException(p) \/ LdapSearch(p)
  PROVE  DbInv(p)'
<1>1. TypeOK /\ ProcInv(p)
      BY DEF IndInv
<1>2. /\ pc[p] = "query" /\ pc'[p] = "idle" /\ cur'[p] = 0 /\ tries'[p] = 0
      /\ settings' = settings
      BY <1>1 DEF SqlRows, SqlException, LdapSearch, Goto, TypeOK, ProcInv, DbInv, SizeInv, locals,
                  env
<1>3. CASE Disconnect(p)
  <2>1. lookup'[p] = Null
        BY <1>1, <1>3 DEF Disconnect, Set, TypeOK
  <2>2. QED BY <1>1, <1>2, <2>1, RestDb
<1>4. CASE UNCHANGED <<lookup, server>>
  <2>1. Held(p)' = Held(p)
        BY <1>4 DEF Held
  <2>2. QED BY <1>1, <1>2, <1>4, <2>1, RestDb
<1>5. CASE SqlRows(p) /\ settings.persistent /\ Set(p, Released(p)) /\ UNCHANGED server
  <2> DEFINE I == lookup[p].idle \cup {cur[p]}
             A == lookup[p].active \ {cur[p]}
  <2>1. cur[p] \in lookup[p].active
        BY <1>2, <1>5 DEF SqlRows, DbInv, ServerInv
  <2>2. lookup[p] \in PoolType /\ I \in SUBSET Conns /\ A \in SUBSET Conns
        BY <1>1, <2>1, PoolParts DEF TypeOK
  <2>3. lookup'[p] = Moved(lookup[p], I, A)
        BY <1>1, <1>5 DEF Set, Released, Moved, TypeOK
  <2>4. /\ lookup'[p].idle = I /\ lookup'[p].active = A
        /\ lookup'[p].open = lookup[p].open /\ lookup'[p].host = lookup[p].host
        BY <2>2, <2>3, PoolChange
  <2>5. Held(p)' = Held(p)
        BY <2>1, <2>4 DEF Held
  <2>6. lookup[p] # Null
        BY <2>1 DEF Null
  <2>7. p # Root
        BY <1>2 DEF IndInv, RootInv
  <2>8. QED BY <1>1, <1>2, <1>5, <2>4, <2>5, <2>6, <2>7, RestDb
<1>6. QED BY <1>3, <1>4, <1>5 DEF SqlRows, SqlException, LdapSearch

\* A query begins with the pool that is there, or with a connect when there is none.
LEMMA StartDb ==
  ASSUME IndInv, NEW p \in Children, DbInv(p), Start(p)
  PROVE  DbInv(p)'
<1>1. TypeOK /\ p \in Procs /\ p # Root /\ ProcInv(p)
      BY ProcsType DEF IndInv
<1>2. /\ pc[p] = "idle" /\ cur'[p] = 0 /\ tries'[p] = 0 /\ lookup' = lookup /\ server' = server
      /\ settings' = settings /\ up' = up /\ MaxPool' = MaxPool /\ StartSize' = StartSize
      /\ blip'[p] = (lookup[p].open /\ lookup[p].host \notin up)
      /\ pc'[p] = IF ~lookup[p].open THEN "connect"
                  ELSE IF settings.backend = "sql" THEN "get" ELSE "query"
      BY <1>1, SameSizes DEF Start, Goto, Connected, ProcInv, DbInv, SizeInv, TypeOK, env, locals
<1>3. Held(p)' = Held(p) /\ Known(p)' \subseteq Held(p)
      BY <1>2 DEF Held, Known
<1>4. ~lookup[p].open => Held(p) = {}
      BY DEF DbInv, SizeInv, Null, Held
<1>5. SizeInv(p)'
      BY <1>2, <1>3, <1>4 DEF DbInv, SizeInv
<1>6. ServerInv(p)'
  <2>1. pc'[p] = "query" => settings'.backend # "sql"
        BY <1>2
  <2>2. \A c \in Held(p) : server'[c] \in {0, lookup'[p].host}
        BY <1>1, <1>2, HeldKnown DEF DbInv, ServerInv
  <2>3. QED BY <1>2, <1>3, <2>1, <2>2 DEF ServerInv
<1>7. CalmInv(p)'
  <2>1. pc'[p] \in {"get", "query"} /\ ~blip'[p] => lookup'[p].host \in up'
        BY <1>2
  <2>2. pc'[p] # "aborted" /\ ~(tries'[p] >= ReapEvery) /\ ~(tries'[p] > ReapEvery)
        BY <1>2
  <2>3. pc'[p] = "query" => settings'.backend # "sql"
        BY <1>2
  <2>4. QED BY <2>1, <2>2, <2>3 DEF CalmInv
<1>8. QED BY <1>5, <1>6, <1>7 DEF DbInv

\* A child starts with the parent's pool, and leaves nothing when it ends.
LEMMA ChildDb ==
  ASSUME IndInv, NEW p \in Children, DbInv(p), DbInv(Root), Fork(p) \/ Exit(p)
  PROVE  DbInv(p)'
<1>1. TypeOK /\ p \in Procs /\ Root \in Procs /\ ProcInv(p)
      BY ProcsType DEF IndInv
<1>2. CASE Exit(p)
  <2>1. pc'[p] = "none" /\ cur'[p] = 0 /\ tries'[p] = 0 /\ lookup'[p] = Null /\ settings' = settings
        BY <1>1, <1>2 DEF Exit, Goto, Set, TypeOK, env
  <2>2. QED BY <1>1, <2>1, RestDb
<1>3. CASE Fork(p)
  <2>1. /\ pc[p] = "none" /\ pc'[p] = "idle" /\ cur'[p] = 0 /\ tries'[p] = 0
        /\ lookup'[p] = lookup[Root] /\ server' = server
        /\ MaxPool' = MaxPool /\ StartSize' = StartSize
        BY <1>1, <1>3, SameSizes
           DEF Fork, Goto, Set, ProcInv, DbInv, SizeInv, TypeOK, locals, env
  <2>2. Held(p)' = Held(Root) /\ Known(p)' \subseteq Held(Root)
        BY <2>1 DEF Held, Known
  <2>3. SizeInv(p)'
        BY <2>1, <2>2 DEF DbInv, SizeInv
  <2>4. ServerInv(p)' /\ CalmInv(p)'
        BY <1>1, <2>1, <2>2, HeldKnown DEF DbInv, ServerInv, CalmInv
  <2>5. QED BY <2>3, <2>4 DEF DbInv
<1>4. QED BY <1>2, <1>3

\* The parent connects once, from nothing, and disconnects at its end.
LEMMA ParentDb ==
  ASSUME IndInv, DbInv(Root), Boot \/ Shutdown
  PROVE  DbInv(Root)'
<1>1. TypeOK /\ Root \in Procs /\ ProcInv(Root) /\ pc[Root] \in {"boot", "serving"}
      BY ProcsType DEF IndInv, Boot, Shutdown
<1>2. /\ cur'[Root] = 0 /\ tries'[Root] = 0 /\ pc'[Root] \in {"connect", "serving", "exited"}
      /\ pc'[Root] = "connect" => Boot
      /\ settings' = settings /\ MaxPool' = MaxPool /\ StartSize' = StartSize
      BY <1>1, SameSizes DEF Boot, Shutdown, Goto, TypeOK, ProcInv, DbInv, SizeInv, locals, env
<1>4. CASE UNCHANGED <<lookup, server>>
  <2>1. Held(Root)' = Held(Root) /\ Known(Root)' \subseteq Held(Root)
        BY <1>2, <1>4 DEF Held, Known
  <2>2. pc'[Root] = "connect" => Held(Root) = {}
        BY <1>2 DEF Boot, DbInv, SizeInv
  <2>3. SizeInv(Root)'
        BY <1>2, <1>4, <2>1, <2>2 DEF DbInv, SizeInv
  <2>4. ServerInv(Root)' /\ CalmInv(Root)'
        BY <1>1, <1>2, <1>4, <2>1, HeldKnown DEF DbInv, ServerInv, CalmInv
  <2>5. QED BY <2>3, <2>4 DEF DbInv
<1>5. CASE Disconnect(Root) /\ Shutdown
  <2>1. lookup'[Root] = Null /\ pc'[Root] = "exited"
        BY <1>1, <1>5 DEF Disconnect, Shutdown, Set, Goto, TypeOK
  <2>2. QED BY <1>1, <1>2, <2>1, RestDb
<1>6. QED BY <1>4, <1>5 DEF Boot, Shutdown

\* A host that goes down takes its connections along, and is remembered by the queries under way.
LEMMA HostDownDb ==
  ASSUME IndInv, NEW p \in Procs, DbInv(p), NEW h \in Hosts, HostDown(h)
  PROVE  DbInv(p)'
<1>1. TypeOK /\ ProcInv(p) /\ Held(p) \subseteq Known(p) /\ Known(p) \subseteq Conns
      BY HeldKnown DEF IndInv
<1>2. /\ UNCHANGED <<settings, pc, lookup, cur, tries, lost>> /\ up' = up \ {h}
      /\ server' = [c \in Conns |-> IF server[c] = h THEN 0 ELSE server[c]]
      /\ blip'[p] = (blip[p] \/ (InQuery(p) /\ lookup[p].host = h))
      BY <1>1 DEF HostDown, locals
<1>3. \A c \in Known(p) : server'[c] \in {0, server[c]}
      BY <1>1, <1>2
<1>4. ~blip'[p] => ~blip[p] /\ (InQuery(p) => lookup[p].host # h)
      BY <1>2
<1>5. lookup[p].host # h => \A c \in Held(p) : server'[c] = server[c]
  <2> SUFFICES ASSUME lookup[p].host # h, NEW c \in Held(p) PROVE server'[c] = server[c]
      OBVIOUS
  <2>1. server[c] \in {0, lookup[p].host} /\ h # 0
        BY <1>1 DEF DbInv, ServerInv, Hosts
  <2>2. QED BY <1>1, <1>2, <2>1
<1>6. Undisturbed(p)
      BY <1>3, <1>4, <1>5 DEF Undisturbed
<1>7. ~blip'[p] /\ pc[p] \in {"get", "query"} /\ lookup[p].host \in up => lookup[p].host \in up'
      BY <1>2, <1>4 DEF InQuery
<1>8. QED BY <1>1, <1>2, <1>6, <1>7, SameDb

\* A process touches its own tries only.
LEMMA OwnTries ==
  ASSUME TypeOK, NEW p \in Procs, NEW q \in Procs, q # p, Own(q)
  PROVE  tries'[p] = tries[p] /\ up' = up
<1> USE DEF TypeOK, env, locals, history
<1>1. CASE Connect(q) \/ Failover(q)
      BY <1>1 DEF Connect, Failover, Succeed, Fail
<1>2. CASE Get(q)
      BY <1>2 DEF Get, GetLive, GetDead, GiveUp
<1>3. CASE SqlRows(q) \/ SqlException(q) \/ LdapSearch(q)
      BY <1>3 DEF SqlRows, SqlException, LdapSearch
<1>4. CASE Start(q) \/ Fork(q) \/ Exit(q)
      BY <1>4 DEF Start, Fork, Exit
<1>5. CASE Boot \/ Shutdown
      BY <1>5 DEF Boot, Shutdown
<1>6. QED BY <1>1, <1>2, <1>3, <1>4, <1>5 DEF Own, Step

\* Every step keeps what is known of the connections of each process.
LEMMA DbStep ==
  ASSUME IndInv, \A p \in Procs : DbInv(p), [Next]_vars, NEW p \in Procs
  PROVE  DbInv(p)'
<1> USE ProcsType
<1>1. TypeOK /\ ProcInv(p) /\ DbInv(p) /\ DbInv(Root)
      BY DEF IndInv
<1>2. CASE Own(p)
  <2>1. CASE Connect(p) \/ Failover(p)
        BY <1>1, <2>1, ConnectDb
  <2>2. CASE Get(p)
        BY <1>1, <2>2, GetLiveDb, GetDeadDb, GiveUpDb DEF Get
  <2>3. CASE SqlRows(p) \/ SqlException(p) \/ LdapSearch(p)
        BY <1>1, <2>3, QueryDb
  <2>4. CASE p \in Children /\ (Start(p) \/ Fork(p) \/ Exit(p))
        BY <1>1, <2>4, StartDb, ChildDb
  <2>5. CASE p = Root /\ (Boot \/ Shutdown)
        BY <1>1, <2>5, ParentDb
  <2>6. QED BY <1>2, <2>1, <2>2, <2>3, <2>4, <2>5 DEF Own, Step
<1>3. ASSUME NEW q \in Procs, q # p, Own(q) PROVE DbInv(p)'
  <2>1. Undisturbed(p)
        BY <1>3, OtherServer
  <2>2. /\ settings' = settings /\ pc'[p] = pc[p] /\ lookup'[p] = lookup[p] /\ cur'[p] = cur[p]
        /\ lost'[p] = lost[p]
        BY <1>1, <1>3, OwnOnly DEF Others
  <2>3. tries'[p] = tries[p] /\ up' = up
        BY <1>1, <1>3, OwnTries
  <2>4. QED BY <1>1, <2>1, <2>2, <2>3, SameDb
<1>4. ASSUME NEW h \in Hosts, HostDown(h) PROVE DbInv(p)'
      BY <1>1, <1>4, HostDownDb
<1>5. ASSUME NEW h \in Hosts, HostUp(h) PROVE DbInv(p)'
  <2>1. UNCHANGED <<settings, server, pc, lookup, cur, lost, tries, blip>> /\ up \subseteq up'
        BY <1>5 DEF HostUp, locals, history
  <2>2. Undisturbed(p)
        BY <2>1 DEF Undisturbed
  <2>3. QED BY <1>1, <2>1, <2>2, SameDb
<1>6. CASE UNCHANGED vars
  <2>1. UNCHANGED <<settings, up, server, pc, lookup, cur, lost, tries, blip>>
        BY <1>6 DEF vars, env, locals, history
  <2>2. Undisturbed(p)
        BY <2>1 DEF Undisturbed
  <2>3. QED BY <1>1, <2>1, <2>2, SameDb
<1>7. QED BY <1>2, <1>3, <1>4, <1>5, <1>6 DEF Next, Own

\* No process has a connection at the beginning.
LEMMA InitDb == Init => \A p \in Procs : DbInv(p)
<1> SUFFICES ASSUME Init, NEW p \in Procs PROVE DbInv(p)
    OBVIOUS
<1>1. Held(p) = {} /\ Known(p) = {} /\ Cardinality({}) = 0
      BY FS_EmptySet DEF Init, Held, Known, Null
<1>2. MaxPool \in Nat \ {0} /\ StartSize \in Nat \ {0}
      BY Sizes DEF Init
<1>3. lookup[p] = Null /\ Null.idle = {} /\ pc[p] \in {"boot", "none"} /\ tries[p] = 0 /\ cur[p] = 0
      BY DEF Init, Null
<1>4. QED BY <1>1, <1>2, <1>3 DEF DbInv, SizeInv, ServerInv, CalmInv

\* What is known of connections holds in every state of every behaviour.
LEMMA AlwaysDb == Spec => []\A p \in Procs : DbInv(p)
<1>1. IndInv /\ (\A p \in Procs : DbInv(p)) /\ [Next]_vars => (\A p \in Procs : DbInv(p))'
      BY DbStep
<1>2. QED BY <1>1, InitDb, AlwaysInd, PTL DEF Spec

\* smf_lookup_sql_query works on a live connection unless the database was unreachable since the
\* query began, another process closed the connection, or the pool has no more idle connections
\* than it began with: beyond those, the ping, the reaper after every fifth try and the 30 tries
\* replace what is dead.
THEOREM SqlReconnectsHold == Spec => []SqlReconnects
<1>1. (\A p \in Procs : DbInv(p)) => SqlReconnects
      BY DEF DbInv, CalmInv, SqlReconnects
<1>2. QED BY <1>1, AlwaysDb, PTL

\* The assertion for a connection in smf_lookup_sql_get_connection fails only for want of a
\* database, after another process closed the connection, or on a pool that is full: of
\* connections taken by exceptions for good, and of dead ones that are its first and so out of the
\* reaper's reach.
THEOREM AbortsExplained == Spec => []AbortExplained
<1>1. (\A p \in Procs : DbInv(p)) => AbortExplained
      BY DEF DbInv, CalmInv, AbortExplained
<1>2. QED BY <1>1, AlwaysDb, PTL

(***************************************************************************)
(* The reaper thread of a pool.                                            *)
(***************************************************************************)

\* A persistent child has the pool of its parent until it ends.
OpenInv(p) ==
  settings.persistent =>
    /\ pc[p] \in {"serving", "idle", "get", "query", "aborted"} => lookup[p].open
    /\ p # Root => pc[p] \notin {"boot", "connect", "failover"}

\* Only the parent connects, before it serves.
LEMMA OpenStep ==
  ASSUME TypeOK, RootInv, \A p \in Procs : ProcInv(p), \A p \in Procs : OpenInv(p), [Next]_vars
  PROVE  \A p \in Procs : OpenInv(p)'
<1> USE ProcsType
<1>1. ASSUME NEW p \in Procs, Own(p) PROVE OpenInv(p)'
  <2> USE DEF TypeOK, Goto, Set
  <2>1. settings' = settings /\ OpenInv(p) /\ OpenInv(Root)
        BY <1>1, OwnOnly DEF Others
  <2> SUFFICES ASSUME settings.persistent PROVE OpenInv(p)'
      BY <2>1 DEF OpenInv
  <2>2. CASE Connect(p) \/ Failover(p)
    <3>1. p = Root
          BY <2>1, <2>2 DEF OpenInv, Connect, Failover
    <3>2. PICK h \in Hosts : Succeed(p, h) \/ pc'[p] \in {"failover", "exited"}
          BY <2>2, <3>1, FirstHostsType DEF Connect, Failover, Candidate, Failed
    <3>3. QED BY <2>1, <3>1, <3>2 DEF OpenInv, Succeed
  <2>3. CASE Get(p)
    <3>1. lookup'[p].open = lookup[p].open
      <4>1. CASE GetLive(p)
            BY <4>1, GetLiveEffect
      <4>2. CASE GetDead(p)
            BY <4>2, GetDeadEffect
      <4>3. QED BY <2>3, <4>1, <4>2 DEF Get, GiveUp
    <3>2. pc[p] = "get" /\ pc'[p] \in {"get", "query", "aborted"}
          BY <2>3 DEF Get, GetLive, GetDead, GiveUp
    <3>3. QED BY <2>1, <3>1, <3>2 DEF OpenInv
  <2>4. CASE SqlRows(p) \/ SqlException(p) \/ LdapSearch(p)
    <3>1. pc[p] = "query" /\ pc'[p] = "idle"
          BY <2>4 DEF SqlRows, SqlException, LdapSearch
    <3>2. lookup'[p].open = lookup[p].open
      <4>1. CASE lookup' = lookup
            BY <4>1
      <4>2. CASE Set(p, Released(p))
            BY <4>2 DEF Released, PoolType
      <4>3. QED BY <2>4, <4>1, <4>2 DEF SqlRows, SqlException, LdapSearch
    <3>3. QED BY <2>1, <3>1, <3>2 DEF OpenInv
  <2>5. CASE p \in Children /\ Start(p)
        BY <2>1, <2>5 DEF OpenInv, Start, Connected
  <2>6. CASE p \in Children /\ Fork(p)
        BY <2>1, <2>6 DEF OpenInv, Fork
  <2>7. CASE p \in Children /\ Exit(p)
        BY <2>1, <2>7 DEF OpenInv, Exit
  <2>8. CASE p = Root /\ (Boot \/ Shutdown)
        BY <2>1, <2>8 DEF OpenInv, Boot, Shutdown
  <2>9. QED BY <1>1, <2>2, <2>3, <2>4, <2>5, <2>6, <2>7, <2>8 DEF Own, Step
<1>2. ASSUME NEW p \in Procs, NEW q \in Procs, Own(q), q # p PROVE OpenInv(p)'
      BY <1>2, OwnOnly DEF Others, OpenInv
<1>3. CASE UNCHANGED <<settings, pc, lookup, cur, lost, elem, tried>>
      BY <1>3 DEF OpenInv
<1>4. QED BY <1>1, <1>2, <1>3, NextCases

\* Who connects has no more idle connections than it began with.
ReaperThreadIdle ==
  \A p \in Procs :
    \/ Cardinality(lookup[p].idle) <= StartSize
    \/ p # Root /\ settings.persistent /\ pc[p] \notin {"connect", "failover"}

\* The reaper thread that ConnectionPool_start starts (smf_lookup_sql.c:168) runs only in the
\* process that called it, for threads do not survive fork().  Only a child with the pool of its
\* parent, which never connects, has more idle connections than it began with: the thread never
\* finds one that it may close.
THEOREM ReaperThreadHolds == Spec => []ReaperThreadIdle
<1>1. Init => \A p \in Procs : OpenInv(p)
      BY ProcsType DEF Init, OpenInv
<1>2. IndInv /\ (\A p \in Procs : OpenInv(p)) /\ [Next]_vars => (\A p \in Procs : OpenInv(p))'
      BY OpenStep DEF IndInv
<1>3. (\A p \in Procs : OpenInv(p)) /\ (\A p \in Procs : DbInv(p)) => ReaperThreadIdle
      BY DEF OpenInv, DbInv, SizeInv, ReaperThreadIdle
<1>4. QED BY <1>1, <1>2, <1>3, AlwaysInd, AlwaysDb, PTL DEF Spec
=============================================================================
