------------------------------ MODULE SpmServer ------------------------------
(***************************************************************************)
(* The preforking daemon of spmfilter: smf_server.c, with the part of      *)
(* smf_smtpd_handle_client that keeps the books of the process pool.       *)
(*                                                                         *)
(* One parent forks children that block in accept(); a child that gets a   *)
(* client tells the parent with SIGUSR1, moves itself from the spare to    *)
(* the active children in shared memory under a SysV semaphore, serves one *)
(* client and exits.  The parent sleeps in waitpid(), which returns when a *)
(* child died or a signal arrived, keeps the books of the dead and forks   *)
(* until enough spare children exist.  SIGTERM makes it kill the children  *)
(* that the table knows, wait for them and remove semaphore and memory.    *)
(*                                                                         *)
(* The tables childs[] and childs_active[] are the sets of the pids they   *)
(* hold: the code only searches them, so the slot of an entry tells        *)
(* nothing.  A pid may be used again once its process was reaped.          *)
(***************************************************************************)
EXTENDS Integers, FiniteSets

CONSTANTS
  Pids,             \* the process ids that fork() may return
  Parent,           \* the daemon's own process
  MaxChilds,        \* max_childs of the configuration
  SpareChilds,      \* spare_childs of the configuration
  MaxForkFailures,  \* bound: how often fork() may fail
  MaxKills          \* bound: how many children die of SIGKILL or a crash

Failed == -1        \* what fork() and waitpid() return on an error

ASSUME PidsAssumption ==
  IsFiniteSet(Pids) /\ Parent \notin Pids /\ Failed \notin Pids
ASSUME LimitsAssumption == MaxChilds \in Nat /\ SpareChilds \in Nat
ASSUME BoundsAssumption == MaxForkFailures \in Nat /\ MaxKills \in Nat

VARIABLES
  ppc,            \* where the parent is
  pid,            \* what its last fork() or waitpid() returned, until it is used
  preforked,      \* i of the prefork loop
  child,          \* where each child is, "none" for no such process
  daemon_exit,    \* the flag the signal handler sets, one copy per process
  sem,            \* value of the semaphore
  ipc,            \* do semaphore and shared memory exist
  num_procs, num_spare, childs, childs_active,   \* the shared counters
  dead_slots,     \* slots of childs[] that hold the -1 of a failed fork()
  forkFailures, kills                            \* what the bounds count

books     == <<num_procs, num_spare, childs, childs_active, dead_slots>>
budget    == <<forkFailures, kills>>
parentVars == <<ppc, pid, preforked>>
vars == <<parentVars, child, daemon_exit, sem, ipc, books, budget>>

ShutdownPcs == {"kill", "waitAll", "cleanup", "done"}
ParentPcs == {"prefork", "addLock", "addCS", "wait", "woken", "rmLock", "rmCS",
              "lostLock", "lostCS", "replenish", "toWait"} \cup ShutdownPcs
IdlePcs  == {"loop", "accept"}
TakenPcs == {"signal", "decLock", "decCS"}      \* has a client, still counted as spare
ActivatingPcs == {"actLock", "actCS"}           \* no longer spare, not yet active
ActivePcs == {"install", "serve"}
LivePcs  == IdlePcs \cup TakenPcs \cup ActivatingPcs \cup ActivePcs
ChildPcs == LivePcs \cup {"none", "zombie"}

PreforkCount == IF SpareChilds = 0 THEN 1 ELSE SpareChilds

(***************************************************************************)
(* _smf_server_init_ipc has run: counters zero, tables empty, semaphore 1. *)
(***************************************************************************)
Init ==
  /\ ppc = "prefork" /\ pid = Failed /\ preforked = 0
  /\ child = [p \in Pids |-> "none"]
  /\ daemon_exit = [p \in Pids \cup {Parent} |-> FALSE]
  /\ sem = 1 /\ ipc = TRUE
  /\ num_procs = 0 /\ num_spare = 0
  /\ childs = {} /\ childs_active = {} /\ dead_slots = 0
  /\ forkFailures = 0 /\ kills = 0

(***************************************************************************)
(* Semaphore, tables, and how a process ends.                              *)
(***************************************************************************)

\* semop(-1) of the parent; an EINTR is retried, so a signal changes nothing.
ParentLock(from, to) ==
  /\ ppc = from /\ sem = 1
  /\ sem' = 0 /\ ppc' = to
  /\ UNCHANGED <<pid, preforked, child, daemon_exit, ipc, books, budget>>

\* The process is gone; its flag with it.
Exit(p) ==
  /\ child' = [child EXCEPT ![p] = "zombie"]
  /\ daemon_exit' = [daemon_exit EXCEPT ![p] = FALSE]

Goto(p, to) == child' = [child EXCEPT ![p] = to] /\ UNCHANGED daemon_exit

\* semop(-1) of a child; once the parent removed the semaphore it fails and the child exits.
ChildLock(p, from, to) ==
  /\ child[p] = from
  /\ \/ ipc /\ sem = 1 /\ sem' = 0 /\ Goto(p, to)
     \/ ~ipc /\ Exit(p) /\ UNCHANGED sem
  /\ UNCHANGED <<parentVars, ipc, books, budget>>

\* semop(+1) at the end of a child's critical section.
ChildUnlock(p, to) ==
  IF ipc THEN sem' = 1 /\ Goto(p, to) ELSE Exit(p) /\ UNCHANGED sem

\* Mutants of the two definitions below: the last slot is never used.
ChildsFullEarly == Cardinality(childs) + dead_slots >= MaxChilds - 1

\* The first slot that is 0 takes the pid; a full table is left as it is.
ChildsFull == Cardinality(childs) + dead_slots >= MaxChilds
Store(table, p, full) == IF full THEN table ELSE table \cup {p}

(***************************************************************************)
(* The parent.                                                             *)
(***************************************************************************)

\* Mutants: <= for <, and a test that misses the last spare child.
NeedsForkAtLimit ==
  \/ ppc = "prefork" /\ preforked < PreforkCount
  \/ /\ ppc = "replenish"
     /\ num_procs <= MaxChilds
     /\ num_spare < SpareChilds \/ num_procs < num_spare
NeedsForkLate ==
  \/ ppc = "prefork" /\ preforked < PreforkCount
  \/ /\ ppc = "replenish"
     /\ num_procs < MaxChilds
     /\ num_spare < SpareChilds - 1 \/ num_procs < num_spare

\* The tests under which the parent calls smf_server_fork: the prefork loop, and the
\* while loop after waitpid, which reads the counters without the semaphore.
NeedsFork ==
  \/ ppc = "prefork" /\ preforked < PreforkCount
  \/ /\ ppc = "replenish"
     /\ num_procs < MaxChilds
     /\ num_spare < SpareChilds \/ num_procs < num_spare

\* fork() succeeds: the child runs at once, with a copy of daemon_exit.
Fork(p) ==
  /\ NeedsFork /\ child[p] = "none"
  /\ child' = [child EXCEPT ![p] = "loop"]
  /\ daemon_exit' = [daemon_exit EXCEPT ![p] = daemon_exit[Parent]]
  /\ pid' = p /\ ppc' = "addLock"
  /\ UNCHANGED <<preforked, sem, ipc, books, budget>>

\* fork() fails: the switch breaks and _smf_server_add_child is called with -1.
ForkFails ==
  /\ NeedsFork /\ forkFailures < MaxForkFailures
  /\ forkFailures' = forkFailures + 1
  /\ pid' = Failed /\ ppc' = "addLock"
  /\ UNCHANGED <<preforked, child, daemon_exit, sem, ipc, books, kills>>

\* Mutant: the prefork loop counts one too far.
AddChildPastPrefork ==
  /\ ppc = "addCS"
  /\ num_procs' = num_procs + 1 /\ num_spare' = num_spare + 1
  /\ IF pid = Failed
       THEN /\ dead_slots' = IF ChildsFull THEN dead_slots ELSE dead_slots + 1
            /\ UNCHANGED childs
       ELSE childs' = Store(childs, pid, ChildsFull) /\ UNCHANGED dead_slots
  /\ sem' = 1 /\ pid' = Failed
  /\ IF preforked <= PreforkCount
       THEN preforked' = preforked + 1 /\ ppc' = "prefork"
       ELSE ppc' = "replenish" /\ UNCHANGED preforked
  /\ UNCHANGED <<child, daemon_exit, ipc, childs_active, budget>>

\* _smf_server_add_child between lock and unlock, and the return to the calling loop.
AddChild ==
  /\ ppc = "addCS"
  /\ num_procs' = num_procs + 1 /\ num_spare' = num_spare + 1
  /\ IF pid = Failed
       THEN /\ dead_slots' = IF ChildsFull THEN dead_slots ELSE dead_slots + 1
            /\ UNCHANGED childs
       ELSE childs' = Store(childs, pid, ChildsFull) /\ UNCHANGED dead_slots
  /\ sem' = 1 /\ pid' = Failed
  /\ IF preforked < PreforkCount
       THEN preforked' = preforked + 1 /\ ppc' = "prefork"
       ELSE ppc' = "replenish" /\ UNCHANGED preforked
  /\ UNCHANGED <<child, daemon_exit, ipc, childs_active, budget>>

\* Both fork loops end and waitpid() is called; a signal in between wakes nobody.
LeaveForkLoop ==
  /\ ppc \in {"prefork", "replenish"} /\ ~NeedsFork
  /\ ppc' = "toWait"
  /\ UNCHANGED <<pid, preforked, child, daemon_exit, sem, ipc, books, budget>>

Sleep ==
  /\ ppc = "toWait"
  /\ ppc' = "wait"
  /\ UNCHANGED <<pid, preforked, child, daemon_exit, sem, ipc, books, budget>>

\* waitpid() or wait() returns a dead child, which frees its pid.
Reap(p) ==
  /\ child[p] = "zombie"
  /\ child' = [child EXCEPT ![p] = "none"]
  /\ \/ ppc = "wait" /\ ppc' = "woken" /\ pid' = p
     \/ ppc = "waitAll" /\ UNCHANGED <<ppc, pid>>
  /\ UNCHANGED <<preforked, daemon_exit, sem, ipc, books, budget>>

\* Without any child waitpid() and wait() fail with ECHILD.
NoChild ==
  /\ \A p \in Pids : child[p] = "none"
  /\ \/ ppc = "wait" /\ ppc' = "woken"
     \/ ppc = "waitAll" /\ ppc' = "cleanup"
  /\ UNCHANGED <<pid, preforked, child, daemon_exit, sem, ipc, books, budget>>

\* After waitpid(): leave the loop, keep the books of a dead child, or just look again.
Woken ==
  /\ ppc = "woken"
  /\ ppc' = IF daemon_exit[Parent] THEN "kill"
            ELSE IF pid # Failed THEN "rmLock" ELSE "replenish"
  /\ UNCHANGED <<pid, preforked, child, daemon_exit, sem, ipc, books, budget>>

\* Mutants: the pid stays in childs[], and a lost spare child is not subtracted.
RemoveActiveKeepsChild ==
  /\ ppc = "rmCS"
  /\ num_procs' = num_procs - 1
  /\ childs_active' = childs_active \ {pid}
  /\ sem' = 1
  /\ IF pid \in childs_active
       THEN ppc' = "replenish" /\ pid' = Failed
       ELSE ppc' = "lostLock" /\ UNCHANGED pid
  /\ UNCHANGED <<preforked, child, daemon_exit, ipc, num_spare, childs, dead_slots, budget>>
RemoveActiveNotLost ==
  /\ ppc = "rmCS"
  /\ num_procs' = num_procs - 1
  /\ childs_active' = childs_active \ {pid}
  /\ childs' = childs \ {pid}
  /\ sem' = 1
  /\ ppc' = "replenish" /\ pid' = Failed
  /\ UNCHANGED <<preforked, child, daemon_exit, ipc, num_spare, dead_slots, budget>>

\* _smf_server_remove_active between lock and unlock; a pid that was not among the active
\* children is taken for a lost spare child.
RemoveActive ==
  /\ ppc = "rmCS"
  /\ num_procs' = num_procs - 1
  /\ childs_active' = childs_active \ {pid}
  /\ childs' = childs \ {pid}
  /\ sem' = 1
  /\ IF pid \in childs_active
       THEN ppc' = "replenish" /\ pid' = Failed
       ELSE ppc' = "lostLock" /\ UNCHANGED pid
  /\ UNCHANGED <<preforked, child, daemon_exit, ipc, num_spare, dead_slots, budget>>

\* Mutant: an early return that leaves the semaphore taken.
DecrementLostNoUnlock ==
  /\ ppc = "lostCS"
  /\ num_spare' = num_spare - 1
  /\ ppc' = "replenish" /\ pid' = Failed
  /\ UNCHANGED <<preforked, child, daemon_exit, sem, ipc,
                 num_procs, childs, childs_active, dead_slots, budget>>

\* smf_server_decrement_spare, called by the parent for a lost spare child.
DecrementLost ==
  /\ ppc = "lostCS"
  /\ num_spare' = num_spare - 1
  /\ sem' = 1 /\ ppc' = "replenish" /\ pid' = Failed
  /\ UNCHANGED <<preforked, child, daemon_exit, ipc,
                 num_procs, childs, childs_active, dead_slots, budget>>

\* Mutant: the handler that exits is installed before the child is among the active ones.
DiesEarly(p) == child[p] \in {"accept", "actLock", "actCS", "install", "serve"}

\* What SIGTERM does to a child: accept() fails with EINTR and the loop ends, the handler of
\* smf_smtpd_handle_client exits, and anywhere else only the flag is set.
Dies(p) == child[p] \in {"accept", "serve"}

\* Mutant: the loop runs over childs_active[].
KillActive ==
  /\ ppc = "kill"
  /\ child' = [p \in Pids |-> IF p \in childs_active /\ Dies(p) THEN "zombie" ELSE child[p]]
  /\ daemon_exit' = [p \in Pids \cup {Parent} |->
       IF p \in childs_active /\ child[p] \in LivePcs THEN ~Dies(p) ELSE daemon_exit[p]]
  /\ ppc' = "waitAll"
  /\ UNCHANGED <<pid, preforked, sem, ipc, books, budget>>

\* kill(SIGTERM) for every pid in childs[], read without the semaphore.
KillChilds ==
  /\ ppc = "kill"
  /\ child' = [p \in Pids |-> IF p \in childs /\ Dies(p) THEN "zombie" ELSE child[p]]
  /\ daemon_exit' = [p \in Pids \cup {Parent} |->
       IF p \in childs /\ child[p] \in LivePcs THEN ~Dies(p) ELSE daemon_exit[p]]
  /\ ppc' = "waitAll"
  /\ UNCHANGED <<pid, preforked, sem, ipc, books, budget>>

\* IPC_RMID of semaphore and memory, and the end of the daemon.
Cleanup ==
  /\ ppc = "cleanup"
  /\ ipc' = FALSE /\ ppc' = "done"
  /\ UNCHANGED <<pid, preforked, child, daemon_exit, sem, books, budget>>

ParentStep ==
  \/ \E p \in Pids : Fork(p) \/ Reap(p)
  \/ ForkFails \/ ParentLock("addLock", "addCS") \/ AddChild
  \/ LeaveForkLoop \/ Sleep \/ NoChild \/ Woken
  \/ ParentLock("rmLock", "rmCS") \/ RemoveActive
  \/ ParentLock("lostLock", "lostCS") \/ DecrementLost
  \/ KillChilds \/ Cleanup

(***************************************************************************)
(* A child.                                                                *)
(***************************************************************************)

\* A signal to the parent whose handler only returns (no SA_RESTART): a blocked waitpid() or
\* wait() ends with EINTR; a parent between two wait() calls, or anywhere else, does not notice.
Blocked == ppc \in {"wait", "waitAll"} /\ \A p \in Pids : child[p] # "zombie"
InterruptParent ==
  \/ Blocked /\ ppc' = IF ppc = "wait" THEN "woken" ELSE "cleanup"
  \/ ~(Blocked /\ ppc = "wait") /\ UNCHANGED ppc

\* The child blocks in accept(); daemon_exit is only looked at when accept() fails.
Accept(p) ==
  /\ child[p] = "loop" /\ Goto(p, "accept")
  /\ UNCHANGED <<parentVars, sem, ipc, books, budget>>

\* accept() returns a connection and smf_smtpd_handle_client starts.
GetClient(p) ==
  /\ child[p] = "accept" /\ Goto(p, "signal")
  /\ UNCHANGED <<parentVars, sem, ipc, books, budget>>

\* accept() fails for another reason than SIGTERM.
AcceptFails(p) ==
  /\ child[p] = "accept"
  /\ IF daemon_exit[p] THEN Exit(p) ELSE Goto(p, "loop")
  /\ UNCHANGED <<parentVars, sem, ipc, books, budget>>

\* kill(getppid(), SIGUSR1), before the counters are touched.
SignalParent(p) ==
  /\ child[p] = "signal" /\ Goto(p, "decLock")
  /\ InterruptParent
  /\ UNCHANGED <<pid, preforked, sem, ipc, books, budget>>

\* smf_server_decrement_spare between lock and unlock.
DecrementSpare(p) ==
  /\ child[p] = "decCS"
  /\ num_spare' = num_spare - 1
  /\ ChildUnlock(p, "actLock")
  /\ UNCHANGED <<parentVars, ipc, num_procs, childs, childs_active, dead_slots, budget>>

\* smf_server_add_active between lock and unlock.
AddActive(p) ==
  /\ child[p] = "actCS"
  /\ childs_active' = Store(childs_active, p, Cardinality(childs_active) >= MaxChilds)
  /\ ChildUnlock(p, "install")
  /\ UNCHANGED <<parentVars, ipc, num_procs, num_spare, childs, dead_slots, budget>>

\* Greeting, then sigaction(SIGALRM) and sigaction(SIGTERM).
InstallHandlers(p) ==
  /\ child[p] = "install" /\ Goto(p, "serve")
  /\ UNCHANGED <<parentVars, sem, ipc, books, budget>>

\* QUIT, end of input or the SIGALRM timeout: the child exits after its one client.
FinishSession(p) ==
  /\ child[p] = "serve" /\ Exit(p)
  /\ UNCHANGED <<parentVars, sem, ipc, books, budget>>

\* The steps a child takes on its own, once it has what it waits for.
ChildStep(p) ==
  \/ Accept(p) \/ SignalParent(p)
  \/ ChildLock(p, "decLock", "decCS") \/ DecrementSpare(p)
  \/ ChildLock(p, "actLock", "actCS") \/ AddActive(p)
  \/ InstallHandlers(p)

(***************************************************************************)
(* The outside: SIGTERM from an operator, and children that die.           *)
(***************************************************************************)

\* smf_server_sig_handler in the parent: the flag is set, a wait is interrupted.
TermParent ==
  /\ ppc # "done"
  /\ daemon_exit' = [daemon_exit EXCEPT ![Parent] = TRUE]
  /\ InterruptParent
  /\ UNCHANGED <<pid, preforked, child, sem, ipc, books, budget>>

\* SIGTERM from somebody else than the parent.
TermChild(p) ==
  /\ child[p] \in LivePcs
  /\ IF Dies(p) THEN Exit(p)
     ELSE daemon_exit' = [daemon_exit EXCEPT ![p] = TRUE] /\ UNCHANGED child
  /\ UNCHANGED <<parentVars, sem, ipc, books, budget>>

\* SIGKILL or a crash: no SEM_UNDO, so a held semaphore stays taken.
Killed(p) ==
  /\ child[p] \in LivePcs /\ kills < MaxKills
  /\ kills' = kills + 1
  /\ Exit(p)
  /\ UNCHANGED <<parentVars, sem, ipc, books, forkFailures>>

Environment(p) ==
  GetClient(p) \/ AcceptFails(p) \/ FinishSession(p) \/ TermChild(p) \/ Killed(p)

Next ==
  \/ ParentStep
  \/ TermParent
  \/ \E p \in Pids : ChildStep(p) \/ Environment(p)

Spec == Init /\ [][Next]_vars

\* Processes run, and waitpid() finds each dead child (it walks the list of children from the
\* oldest).  Nothing is assumed of clients, of sessions that end, or of signals.
Fairness ==
  /\ WF_vars(ParentStep)
  /\ \A p \in Pids : WF_vars(ChildStep(p)) /\ SF_vars(Reap(p))

FairSpec == Spec /\ Fairness

(***************************************************************************)
(* What the books should say.                                              *)
(***************************************************************************)

Running == ppc \notin ShutdownPcs
Live    == {p \in Pids : child[p] \in LivePcs}
Exists  == {p \in Pids : child[p] # "none"}

\* The processes the parent has added to its books and not yet taken off again.
Registered ==
  (Exists \ (IF ppc \in {"addLock", "addCS"} THEN {pid} ELSE {}))
    \cup (IF ppc \in {"woken", "rmLock", "rmCS"} THEN {pid} \cap Pids ELSE {})

\* The dead spare child that is off the books but still in num_spare.
LostSpare == IF ppc \in {"lostLock", "lostCS"} THEN {pid} ELSE {}

Activating == {p \in Pids : child[p] \in ActivatingPcs}

TypeOK ==
  /\ ppc \in ParentPcs /\ pid \in Pids \cup {Failed} /\ preforked \in 0..PreforkCount
  /\ child \in [Pids -> ChildPcs]
  /\ daemon_exit \in [Pids \cup {Parent} -> BOOLEAN]
  /\ sem \in {0, 1} /\ ipc \in BOOLEAN
  /\ num_procs \in Int /\ num_spare \in Int
  /\ childs \subseteq Pids /\ childs_active \subseteq Pids /\ dead_slots \in Nat
  /\ forkFailures \in 0..MaxForkFailures /\ kills \in 0..MaxKills
(***************************************************************************)
(* Properties.                                                             *)
(***************************************************************************)

Critical == {p \in Pids : child[p] \in {"decCS", "actCS"}}
              \cup (IF ppc \in {"addCS", "rmCS", "lostCS"} THEN {Parent} ELSE {})

\* One process at a time is between lock and unlock (_smf_server_sem_operation), and unless a
\* child was killed the semaphore is never left taken: no SIGTERM ends a child that holds it.
SemaphoreSound ==
  /\ sem + Cardinality(Critical) <= 1
  /\ ipc /\ kills = 0 => sem + Cardinality(Critical) = 1

\* childs[] holds exactly the processes the parent has registered and not yet buried, although
\* children run, are served and die before their pid is stored; num_procs is its size, each
\* failed fork() included.
BooksMatch ==
  Running /\ PreforkCount <= MaxChilds =>
    childs = Registered /\ num_procs = Cardinality(childs) + dead_slots

\* num_spare counts the registered children less those that announced a client, in every
\* interleaving of _smf_server_add_child, smf_server_decrement_spare, smf_server_add_active
\* and _smf_server_remove_active (a child may be active or dead before it is registered).
SpareCount ==
  Running /\ kills = 0 /\ PreforkCount <= MaxChilds =>
    num_spare = Cardinality(Registered \cup LostSpare) + dead_slots
                  - Cardinality(Activating \cup childs_active)

\* "Maximum number of child processes allowed" (spmfilter.conf.5, max_childs): no more
\* processes exist than that, those not yet reaped included.
ChildLimit == Cardinality(Exists) <= MaxChilds

\* "Unused children to always have available" (spmfilter.conf.5, spare_childs): smf_server_loop
\* leaves its fork loop only if so many children are unused (or have just died or accepted and
\* not told so yet), or the limit is reached: the counters it reads never overstate the pool,
\* unless fork() failed or a child was killed.
PoolAtSleep ==
  [][ppc = "replenish" /\ ppc' = "toWait" /\ dead_slots = 0 /\ kills = 0 =>
       \/ Cardinality({p \in Pids : child[p] \in IdlePcs \cup TakenPcs \cup {"zombie"}})
            >= SpareChilds
       \/ Cardinality(Exists) >= MaxChilds]_vars

\* The SIGTERM loop of smf_server_loop reaches every child that is alive: afterwards each has
\* exited or knows that it has to.
ShutdownReachesAll ==
  ~Running /\ ppc # "kill" /\ PreforkCount <= MaxChilds =>
    \A p \in Live : daemon_exit[p]

\* A child that got its SIGTERM where nothing acts on it: before accept() blocks, or between
\* accept() and sigaction() of its own handler.
Deaf == \E p \in Live : daemon_exit[p]

\* A child was killed inside its critical section, where nobody gives the semaphore back.
LeftTaken == kills > 0 /\ sem = 0

\* Once smf_server_loop stops, the daemon ends, unless a child stays deaf to its SIGTERM, or
\* waits for a semaphore that a killed child has taken.
StopsUnlessDeaf == ppc = "kill" ~> (ppc = "done" \/ []Deaf \/ []LeftTaken)

\* Every dead child is reaped while the daemon runs: neither the semaphore nor the fork loop
\* ever keeps the parent from coming back to waitpid(), unless a child was killed while it held
\* the semaphore.
ZombiesReaped ==
  \A p \in Pids : child[p] = "zombie" ~> (child[p] # "zombie" \/ daemon_exit[Parent] \/ []LeftTaken)

\* "Unused children to always have available": a shortage of unused children is made up for,
\* unless the limit is reached or the daemon is told to stop.
SparesRestored ==
  LET idle == Cardinality({p \in Pids : child[p] \in IdlePcs}) IN
  idle < SpareChilds
    ~> (idle >= SpareChilds \/ Cardinality(Exists) >= MaxChilds \/ daemon_exit[Parent])
=============================================================================
