--------------------------- MODULE SpmServerProofs ---------------------------
(***************************************************************************)
(* Theorems about SpmServer, for every set of pids and all limits.         *)
(***************************************************************************)
EXTENDS SpmServer, FiniteSetTheorems, TLAPS

USE PidsAssumption, LimitsAssumption, BoundsAssumption

\* The prefork loop runs at least once.
LEMMA PreforkCountType == PreforkCount \in Nat /\ PreforkCount >= 1
BY DEF PreforkCount

(***************************************************************************)
(* Types.                                                                  *)
(***************************************************************************)

\* Every step of parent, child and outside keeps the types.
LEMMA TypeStep == TypeOK /\ [Next]_vars => TypeOK'
<1> SUFFICES ASSUME TypeOK, [Next]_vars PROVE TypeOK'
    OBVIOUS
<1> USE PreforkCountType DEF TypeOK, ParentPcs, ShutdownPcs, ChildPcs, LivePcs, IdlePcs,
        TakenPcs, ActivatingPcs, ActivePcs, books, budget, parentVars
<1>1. ASSUME NEW p \in Pids, Fork(p) PROVE TypeOK'
      BY <1>1 DEF Fork
<1>2. ASSUME NEW p \in Pids, Reap(p) PROVE TypeOK'
      BY <1>2 DEF Reap
<1>3. CASE ForkFails
      BY <1>3 DEF ForkFails
<1>4. ASSUME NEW from, NEW to \in ParentPcs, ParentLock(from, to) PROVE TypeOK'
      BY <1>4 DEF ParentLock
<1>5. CASE AddChild
      BY <1>5 DEF AddChild, Store
<1>6. CASE LeaveForkLoop \/ Sleep \/ NoChild \/ Woken
      BY <1>6 DEF LeaveForkLoop, Sleep, NoChild, Woken
<1>7. CASE RemoveActive
      BY <1>7 DEF RemoveActive
<1>8. CASE DecrementLost
      BY <1>8 DEF DecrementLost
<1>9. CASE KillChilds
      BY <1>9 DEF KillChilds, Dies
<1>10. CASE Cleanup
      BY <1>10 DEF Cleanup
<1>11. CASE TermParent
      BY <1>11 DEF TermParent, InterruptParent
<1>12. ASSUME NEW p \in Pids, ChildStep(p) PROVE TypeOK'
  <2> USE DEF Exit, Goto
  <2>1. CASE Accept(p) \/ InstallHandlers(p)
        BY <2>1 DEF Accept, InstallHandlers
  <2>2. CASE SignalParent(p)
        BY <2>2 DEF SignalParent, InterruptParent
  <2>3. CASE ChildLock(p, "decLock", "decCS") \/ ChildLock(p, "actLock", "actCS")
        BY <2>3 DEF ChildLock
  <2>4. CASE DecrementSpare(p)
    <3>1. num_spare' \in Int
          BY <2>4 DEF DecrementSpare
    <3>2. sem' \in {0, 1} /\ child' \in [Pids -> ChildPcs]
            /\ daemon_exit' \in [Pids \cup {Parent} -> BOOLEAN]
          BY <2>4 DEF DecrementSpare, ChildUnlock
    <3>3. QED BY <3>1, <3>2, <2>4 DEF DecrementSpare
  <2>5. CASE AddActive(p)
        BY <2>5 DEF AddActive, ChildUnlock, Store
  <2>6. QED BY <1>12, <2>1, <2>2, <2>3, <2>4, <2>5 DEF ChildStep
<1>13. ASSUME NEW p \in Pids, Environment(p) PROVE TypeOK'
  <2> USE DEF Exit, Goto
  <2>1. CASE GetClient(p) \/ AcceptFails(p) \/ FinishSession(p)
        BY <2>1 DEF GetClient, AcceptFails, FinishSession
  <2>2. CASE TermChild(p)
        BY <2>2 DEF TermChild
  <2>3. CASE Killed(p)
        BY <2>3 DEF Killed
  <2>4. QED BY <1>13, <2>1, <2>2, <2>3 DEF Environment
<1>14. CASE UNCHANGED vars
      BY <1>14 DEF vars
<1>15. QED
      BY <1>1, <1>2, <1>3, <1>4, <1>5, <1>6, <1>7, <1>8, <1>9, <1>10, <1>11, <1>12, <1>13,
         <1>14 DEF Next, ParentStep

\* The variables of the daemon keep their types, whatever processes and signals do.
THEOREM TypeCorrect == Spec => []TypeOK
<1>1. Init => TypeOK
      BY PreforkCountType
      DEF Init, TypeOK, ParentPcs, ShutdownPcs, ChildPcs
<1>2. QED BY <1>1, TypeStep, PTL DEF Spec

(***************************************************************************)
(* The semaphore.                                                          *)
(***************************************************************************)

\* SemaphoreSound in terms a step can preserve: who is between lock and unlock is alone there,
\* holds the semaphore, and only a killed child leaves it taken.
MutexInv ==
  /\ \A p, q \in Critical : p = q
  /\ Critical # {} => sem = 0
  /\ ipc /\ kills = 0 /\ sem = 0 => Critical # {}

\* Every step keeps the critical sections exclusive.
LEMMA MutexStep == TypeOK /\ MutexInv /\ [Next]_vars => MutexInv'
<1> SUFFICES ASSUME TypeOK, MutexInv, [Next]_vars PROVE MutexInv'
    OBVIOUS
<1> USE DEF MutexInv, Critical, TypeOK
<1>1. ASSUME NEW p \in Pids, Fork(p) PROVE MutexInv'
      BY <1>1 DEF Fork, NeedsFork, budget
<1>2. ASSUME NEW p \in Pids, Reap(p) PROVE MutexInv'
      BY <1>2 DEF Reap, budget
<1>3. CASE ForkFails
      BY <1>3 DEF ForkFails, NeedsFork
<1>4. CASE ParentLock("addLock", "addCS") \/ ParentLock("rmLock", "rmCS")
             \/ ParentLock("lostLock", "lostCS")
      BY <1>4 DEF ParentLock, budget
<1>5. CASE AddChild \/ RemoveActive \/ DecrementLost
  <2>1. Critical = {Parent} /\ Critical' = {} /\ sem' = 1
    <3>1. \A p \in Pids : child[p] \notin {"decCS", "actCS"}
          BY <1>5 DEF AddChild, RemoveActive, DecrementLost
    <3>2. QED BY <3>1, <1>5 DEF AddChild, RemoveActive, DecrementLost
  <2>2. QED BY <2>1
<1>6. CASE LeaveForkLoop \/ Sleep \/ NoChild \/ Woken \/ Cleanup
      BY <1>6 DEF LeaveForkLoop, Sleep, NoChild, Woken, Cleanup, budget
<1>7. CASE KillChilds
      BY <1>7 DEF KillChilds, Dies, budget
<1>8. CASE TermParent
      BY <1>8 DEF TermParent, InterruptParent, Blocked, budget
<1>9. ASSUME NEW p \in Pids, ChildStep(p) PROVE MutexInv'
  <2> USE DEF Exit, Goto, budget, parentVars
  <2>1. CASE Accept(p) \/ InstallHandlers(p)
        BY <2>1 DEF Accept, InstallHandlers
  <2>2. CASE SignalParent(p)
        BY <2>2 DEF SignalParent, InterruptParent, Blocked
  <2>3. CASE ChildLock(p, "decLock", "decCS") \/ ChildLock(p, "actLock", "actCS")
        BY <2>3 DEF ChildLock
  <2>4. CASE DecrementSpare(p) \/ AddActive(p)
    <3>1. Critical = {p}
          BY <2>4 DEF DecrementSpare, AddActive
    <3>2. Critical' = {}
          BY <2>4, <3>1 DEF DecrementSpare, AddActive, ChildUnlock
    <3>3. ipc' => sem' = 1
          BY <2>4 DEF DecrementSpare, AddActive, ChildUnlock
    <3>4. QED BY <3>2, <3>3
  <2>5. QED BY <1>9, <2>1, <2>2, <2>3, <2>4 DEF ChildStep
<1>10. ASSUME NEW p \in Pids, Environment(p) PROVE MutexInv'
  <2> USE DEF Exit, Goto, budget, parentVars
  <2>1. CASE GetClient(p) \/ AcceptFails(p) \/ FinishSession(p)
        BY <2>1 DEF GetClient, AcceptFails, FinishSession
  <2>2. CASE TermChild(p)
        BY <2>2 DEF TermChild, Dies
  <2>3. CASE Killed(p)
    <3>1. kills' # 0
          BY <2>3, BoundsAssumption DEF Killed
    <3>2. Critical' \subseteq Critical /\ sem' = sem
          BY <2>3 DEF Killed
    <3>3. QED BY <3>1, <3>2
  <2>4. QED BY <1>10, <2>1, <2>2, <2>3 DEF Environment
<1>11. CASE UNCHANGED vars
      BY <1>11 DEF vars, parentVars, budget
<1>12. QED
      BY <1>1, <1>2, <1>3, <1>4, <1>5, <1>6, <1>7, <1>8, <1>9, <1>10, <1>11
      DEF Next, ParentStep

\* The invariant says what SemaphoreSound counts.
LEMMA MutexCounts == TypeOK /\ MutexInv => SemaphoreSound
<1> SUFFICES ASSUME TypeOK, MutexInv PROVE SemaphoreSound
    OBVIOUS
<1>1. CASE Critical = {}
      BY <1>1, FS_EmptySet DEF SemaphoreSound, MutexInv, TypeOK
<1>2. CASE Critical # {}
  <2>1. PICK p \in Critical : Critical = {p}
        BY <1>2 DEF MutexInv
  <2>2. Cardinality(Critical) = 1
        BY <2>1, FS_Singleton
  <2>3. QED BY <1>2, <2>2 DEF SemaphoreSound, MutexInv
<1>3. QED BY <1>1, <1>2

\* _smf_server_sem_operation excludes: at most one process is between lock and unlock, and
\* without a killed child the semaphore is taken exactly while one is.
THEOREM SemaphoreCorrect == Spec => []SemaphoreSound
<1>1. Init => MutexInv
      BY DEF Init, MutexInv, Critical
<1>2. QED BY <1>1, MutexStep, MutexCounts, TypeCorrect, PTL DEF Spec

(***************************************************************************)
(* The books of the parent.                                                *)
(***************************************************************************)

\* What pid and preforked mean at each place of the parent.
ControlInv ==
  /\ ppc \in {"prefork", "toWait", "wait", "replenish"} => pid = Failed
  /\ ppc \in {"rmLock", "rmCS", "lostLock", "lostCS"} => pid # Failed
  /\ ppc \in {"addLock", "addCS"} /\ pid # Failed => child[pid] # "none"
  /\ ppc \in {"woken", "rmLock", "rmCS", "lostLock", "lostCS"} /\ pid # Failed
       => child[pid] = "none"
  /\ ppc \notin {"prefork", "addLock", "addCS"} => preforked = PreforkCount

\* Steps of children and signals: no process comes or goes, the parent's books stay, and it
\* moves at most out of waitpid() or wait().
Aside ==
  /\ \A p \in Pids : (child[p] = "none") <=> (child'[p] = "none")
  /\ UNCHANGED <<pid, preforked, num_procs, childs, dead_slots>>
  /\ \/ ppc' = ppc
     \/ ppc = "wait" /\ ppc' = "woken"
     \/ ppc = "waitAll" /\ ppc' = "cleanup"
     \/ ppc = "kill" /\ ppc' = "waitAll"

\* Children, signals and KillChilds are such steps.
LEMMA AsideSteps ==
  ASSUME TypeOK,
         KillChilds \/ TermParent \/ (\E p \in Pids : ChildStep(p) \/ Environment(p))
           \/ UNCHANGED vars
  PROVE  Aside
<1> USE DEF TypeOK, Aside, parentVars, books, Exit, Goto
<1>1. CASE KillChilds
      BY <1>1 DEF KillChilds, Dies
<1>2. CASE TermParent
      BY <1>2 DEF TermParent, InterruptParent, Blocked
<1>3. ASSUME NEW p \in Pids, ChildStep(p) PROVE Aside
  <2>1. CASE Accept(p) \/ InstallHandlers(p)
        BY <2>1 DEF Accept, InstallHandlers
  <2>2. CASE SignalParent(p)
        BY <2>2 DEF SignalParent, InterruptParent, Blocked
  <2>3. CASE ChildLock(p, "decLock", "decCS") \/ ChildLock(p, "actLock", "actCS")
        BY <2>3 DEF ChildLock
  <2>4. CASE DecrementSpare(p) \/ AddActive(p)
        BY <2>4 DEF DecrementSpare, AddActive, ChildUnlock
  <2>5. QED BY <1>3, <2>1, <2>2, <2>3, <2>4 DEF ChildStep
<1>4. ASSUME NEW p \in Pids, Environment(p) PROVE Aside
  <2>1. CASE GetClient(p) \/ AcceptFails(p) \/ FinishSession(p)
        BY <2>1 DEF GetClient, AcceptFails, FinishSession
  <2>2. CASE TermChild(p) \/ Killed(p)
        BY <2>2 DEF TermChild, Killed, LivePcs, IdlePcs, TakenPcs, ActivatingPcs, ActivePcs
  <2>3. QED BY <1>4, <2>1, <2>2 DEF Environment
<1>5. CASE UNCHANGED vars
      BY <1>5 DEF vars
<1>6. QED BY <1>1, <1>2, <1>3, <1>4, <1>5

\* Every step keeps what the parent's locals mean.
LEMMA ControlStep == TypeOK /\ ControlInv /\ [Next]_vars => ControlInv'
<1> SUFFICES ASSUME TypeOK, ControlInv, [Next]_vars PROVE ControlInv'
    OBVIOUS
<1> USE PreforkCountType DEF TypeOK, ControlInv
<1>1. CASE KillChilds \/ TermParent \/ (\E p \in Pids : ChildStep(p) \/ Environment(p))
             \/ UNCHANGED vars
      BY <1>1, AsideSteps DEF Aside
<1>2. ASSUME NEW p \in Pids, Fork(p) PROVE ControlInv'
      BY <1>2 DEF Fork, NeedsFork
<1>3. ASSUME NEW p \in Pids, Reap(p) PROVE ControlInv'
      BY <1>3 DEF Reap
<1>4. CASE ForkFails
      BY <1>4 DEF ForkFails, NeedsFork
<1>5. CASE ParentLock("addLock", "addCS") \/ ParentLock("rmLock", "rmCS")
             \/ ParentLock("lostLock", "lostCS")
      BY <1>5 DEF ParentLock
<1>6. CASE AddChild
      BY <1>6 DEF AddChild
<1>7. CASE LeaveForkLoop
      BY <1>7 DEF LeaveForkLoop, NeedsFork
<1>8. CASE Sleep \/ NoChild \/ Woken \/ Cleanup
      BY <1>8 DEF Sleep, NoChild, Woken, Cleanup
<1>9. CASE RemoveActive \/ DecrementLost
      BY <1>9 DEF RemoveActive, DecrementLost
<1>10. QED BY <1>1, <1>2, <1>3, <1>4, <1>5, <1>6, <1>7, <1>8, <1>9 DEF Next, ParentStep

\* The books while the parent runs: BooksMatch, and why childs[] has a slot for each child.
BooksInv ==
  Running /\ PreforkCount <= MaxChilds =>
    /\ childs = Registered
    /\ num_procs = Cardinality(childs) + dead_slots
    /\ num_procs <= MaxChilds
    /\ ppc \in {"addLock", "addCS"} => num_procs < MaxChilds
    /\ preforked < PreforkCount => num_procs = preforked

\* Every step keeps the books.
LEMMA BooksStep ==
  TypeOK /\ ControlInv /\ BooksInv /\ [Next]_vars => BooksInv'
<1> SUFFICES ASSUME TypeOK, ControlInv, BooksInv, [Next]_vars,
                    PreforkCount <= MaxChilds, Running'
             PROVE  /\ childs' = Registered'
                    /\ num_procs' = Cardinality(childs') + dead_slots'
                    /\ num_procs' <= MaxChilds
                    /\ ppc' \in {"addLock", "addCS"} => num_procs' < MaxChilds
                    /\ preforked' < PreforkCount => num_procs' = preforked'
    BY DEF BooksInv, PreforkCount
<1> DEFINE Goal == /\ childs' = Registered'
                   /\ num_procs' = Cardinality(childs') + dead_slots'
                   /\ num_procs' <= MaxChilds
                   /\ ppc' \in {"addLock", "addCS"} => num_procs' < MaxChilds
                   /\ preforked' < PreforkCount => num_procs' = preforked'
<1> USE PreforkCountType DEF TypeOK, ControlInv, BooksInv, Running, ShutdownPcs
<1>0. IsFiniteSet(childs) /\ Cardinality(childs) \in Nat
      BY FS_Subset, FS_CardinalityType
<1>1. CASE KillChilds \/ TermParent \/ (\E p \in Pids : ChildStep(p) \/ Environment(p))
             \/ UNCHANGED vars
  <2>1. Aside
        BY <1>1, AsideSteps
  <2>2. Running
        BY <2>1 DEF Aside
  <2>3. Registered' = Registered
        BY <2>1, <2>2 DEF Aside, Registered, Exists
  <2>4. QED BY <2>1, <2>2, <2>3 DEF Aside
<1>2. ASSUME NEW p \in Pids, Fork(p) PROVE Goal
  <2>1. Registered' = Registered
        BY <1>2 DEF Fork, NeedsFork, Registered, Exists
  <2>2. num_procs < MaxChilds
        BY <1>2 DEF Fork, NeedsFork
  <2>3. QED BY <1>2, <2>1, <2>2 DEF Fork, NeedsFork, books
<1>3. ASSUME NEW p \in Pids, Reap(p) PROVE Goal
  <2>1. Registered' = Registered
        BY <1>3 DEF Reap, Registered, Exists
  <2>2. QED BY <1>3, <2>1 DEF Reap, books
<1>4. CASE ForkFails
  <2>1. Registered' = Registered
        BY <1>4 DEF ForkFails, NeedsFork, Registered, Exists
  <2>2. num_procs < MaxChilds
        BY <1>4 DEF ForkFails, NeedsFork
  <2>3. QED BY <1>4, <2>1, <2>2 DEF ForkFails, NeedsFork, books
<1>5. CASE ParentLock("addLock", "addCS") \/ ParentLock("rmLock", "rmCS")
             \/ ParentLock("lostLock", "lostCS")
  <2>1. Registered' = Registered
        BY <1>5 DEF ParentLock, Registered, Exists
  <2>2. QED BY <1>5, <2>1 DEF ParentLock, books
<1>6. CASE AddChild
  <2>1. ~ChildsFull
        BY <1>0, <1>6 DEF AddChild, ChildsFull
  <2>2. pid \notin childs
        BY <1>6 DEF AddChild, Registered, Exists
  <2>3. childs' = Registered'
        BY <1>6, <2>1 DEF AddChild, Store, Registered, Exists
  <2>4. Cardinality(childs') + dead_slots' = Cardinality(childs) + dead_slots + 1
    <3>1. CASE pid = Failed
          BY <1>0, <1>6, <2>1, <3>1 DEF AddChild
    <3>2. CASE pid # Failed
      <4>1. childs' = childs \cup {pid} /\ dead_slots' = dead_slots
            BY <1>6, <2>1, <3>2 DEF AddChild, Store
      <4>2. Cardinality(childs \cup {pid}) = Cardinality(childs) + 1
            BY <1>0, <2>2, FS_AddElement
      <4>3. QED BY <1>0, <4>1, <4>2
    <3>3. QED BY <3>1, <3>2
  <2>5. num_procs' = num_procs + 1 /\ ppc' \in {"prefork", "replenish"}
          /\ (preforked < PreforkCount => preforked' = preforked + 1)
          /\ (preforked' < PreforkCount => preforked < PreforkCount)
        BY <1>6 DEF AddChild
  <2>6. num_procs < MaxChilds /\ num_procs = Cardinality(childs) + dead_slots
        BY <1>6 DEF AddChild
  <2>7. QED BY <1>0, <1>6, <2>3, <2>4, <2>5, <2>6 DEF AddChild
<1>7. CASE LeaveForkLoop \/ Sleep \/ NoChild \/ Woken \/ Cleanup
  <2>1. Registered' = Registered
        BY <1>7 DEF LeaveForkLoop, Sleep, NoChild, Woken, Cleanup, Registered, Exists
  <2>2. QED BY <1>7, <2>1 DEF LeaveForkLoop, Sleep, NoChild, Woken, Cleanup, books
<1>8. CASE RemoveActive
  <2>1. pid \in childs
        BY <1>8 DEF RemoveActive, Registered
  <2>2. childs' = Registered'
        BY <1>8 DEF RemoveActive, Registered, Exists
  <2>3. Cardinality(childs') = Cardinality(childs) - 1
        BY <1>0, <1>8, <2>1, FS_RemoveElement DEF RemoveActive
  <2>4. ppc' \in {"replenish", "lostLock"} /\ num_procs' = num_procs - 1
          /\ preforked' = PreforkCount /\ dead_slots' = dead_slots
        BY <1>8 DEF RemoveActive
  <2>5. QED BY <1>0, <1>8, <2>2, <2>3, <2>4 DEF RemoveActive
<1>9. CASE DecrementLost
  <2>1. Registered' = Registered
        BY <1>9 DEF DecrementLost, Registered, Exists
  <2>2. QED BY <1>9, <2>1 DEF DecrementLost
<1>10. QED BY <1>1, <1>2, <1>3, <1>4, <1>5, <1>6, <1>7, <1>8, <1>9 DEF Next, ParentStep

\* The initial state has no process and empty books.
LEMMA BooksInit == Init => ControlInv /\ BooksInv
BY PreforkCountType, FS_EmptySet
DEF Init, ControlInv, BooksInv, Running, Registered, Exists, ShutdownPcs

\* In smf_server_loop childs[] and num_procs always agree with the processes that exist, for
\* every interleaving with children that run, serve and die before they are registered.
THEOREM BooksCorrect == Spec => []BooksMatch
<1>1. BooksInv => BooksMatch
      BY DEF BooksInv, BooksMatch
<1>2. QED BY <1>1, BooksInit, BooksStep, ControlStep, TypeCorrect, PTL DEF Spec

\* ChildLimit for limits the prefork loop respects.
LimitInv == PreforkCount <= MaxChilds => ChildLimit

\* Only fork() adds a process, and then the books are below the limit.
LEMMA LimitStep ==
  TypeOK /\ ControlInv /\ BooksInv /\ LimitInv /\ [Next]_vars => LimitInv'
<1> SUFFICES ASSUME TypeOK, ControlInv, BooksInv, LimitInv, [Next]_vars,
                    PreforkCount <= MaxChilds
             PROVE  Cardinality(Exists') <= MaxChilds
    BY DEF LimitInv, ChildLimit, PreforkCount
<1> USE PreforkCountType DEF TypeOK
<1>1. IsFiniteSet(Exists) /\ Cardinality(Exists) \in Nat /\ Cardinality(Exists) <= MaxChilds
      BY FS_Subset, FS_CardinalityType DEF Exists, LimitInv, ChildLimit
<1>2. ASSUME Exists' \subseteq Exists PROVE Cardinality(Exists') <= MaxChilds
  <2>1. Cardinality(Exists') <= Cardinality(Exists) /\ Cardinality(Exists') \in Nat
        BY <1>1, <1>2, FS_Subset, FS_CardinalityType
  <2>2. QED BY <1>1, <2>1
<1>3. CASE \E p \in Pids : Fork(p)
  <2>1. PICK p \in Pids : Fork(p)
        BY <1>3
  <2>2. Exists' = Exists \cup {p} /\ p \notin Exists
        BY <2>1 DEF Fork, Exists
  <2>3. childs = Exists /\ num_procs = Cardinality(childs) + dead_slots
          /\ num_procs < MaxChilds
        BY <2>1 DEF Fork, NeedsFork, BooksInv, Running, ShutdownPcs, Registered, ControlInv,
                    Exists
  <2>4. Cardinality(Exists \cup {p}) = Cardinality(Exists) + 1
        BY <1>1, <2>2, FS_AddElement
  <2>5. QED BY <1>1, <2>2, <2>3, <2>4
<1>4. CASE ~(\E p \in Pids : Fork(p))
  <2>1. CASE KillChilds \/ TermParent \/ (\E p \in Pids : ChildStep(p) \/ Environment(p))
               \/ UNCHANGED vars
        BY <1>2, <2>1, AsideSteps DEF Aside, Exists
  <2>2. CASE \E p \in Pids : Reap(p)
        BY <1>2, <2>2 DEF Reap, Exists
  <2>3. CASE ForkFails \/ AddChild \/ ParentLock("addLock", "addCS")
               \/ ParentLock("rmLock", "rmCS") \/ ParentLock("lostLock", "lostCS")
        BY <1>2, <2>3 DEF ForkFails, AddChild, ParentLock, Exists
  <2>4. CASE LeaveForkLoop \/ Sleep \/ NoChild \/ Woken \/ RemoveActive \/ DecrementLost
               \/ Cleanup
        BY <1>2, <2>4 DEF LeaveForkLoop, Sleep, NoChild, Woken, RemoveActive, DecrementLost,
                          Cleanup, Exists
  <2>5. QED BY <1>4, <2>1, <2>2, <2>3, <2>4 DEF Next, ParentStep
<1>5. QED BY <1>3, <1>4

\* "Maximum number of child processes allowed" holds of max_childs whenever the prefork loop
\* alone does not break it, that is for spare_childs <= max_childs (and max_childs not 0).
THEOREM ChildLimitHolds == Spec => [](PreforkCount <= MaxChilds => ChildLimit)
<1>1. Init => LimitInv
  <2>1. Init => Exists = {}
        BY DEF Init, Exists
  <2>2. QED BY <2>1, FS_EmptySet DEF LimitInv, ChildLimit
<1>2. QED BY <1>1, LimitStep, BooksInit, BooksStep, ControlStep, TypeCorrect, PTL
         DEF Spec, LimitInv

(***************************************************************************)
(* The spare children.                                                     *)
(***************************************************************************)

\* Who is in childs_active[]: a child that is past smf_server_add_active, dead or alive, or the
\* dead one that the parent is about to take off.
ActiveInv ==
  Running =>
    /\ ipc
    /\ \A p \in childs_active :
         \/ child[p] \in ActivePcs \cup {"zombie"}
         \/ child[p] = "none" /\ p = pid /\ ppc \in {"woken", "rmLock", "rmCS"}

\* What a child or the outside does to the counters while smf_server_loop runs.
ActiveUnchanged ==
  /\ UNCHANGED <<num_spare, childs_active>>
  /\ kills' = 0 => Activating' = Activating

\* Children and signals leave the spare and the active children alone, except in the two
\* critical sections.
LEMMA ChildrenSteps ==
  ASSUME TypeOK, ActiveInv, Running, Running', NEW p \in Pids,
         ChildStep(p) \/ Environment(p)
  PROVE  \/ ActiveUnchanged
         \/ DecrementSpare(p)
         \/ AddActive(p)
<1> USE DEF TypeOK, ActiveUnchanged, Activating, books, budget, parentVars, Exit, Goto,
            ActivatingPcs, ActiveInv
<1>1. CASE Accept(p) \/ InstallHandlers(p) \/ SignalParent(p)
      BY <1>1 DEF Accept, InstallHandlers, SignalParent
<1>2. CASE ChildLock(p, "decLock", "decCS") \/ ChildLock(p, "actLock", "actCS")
      BY <1>2 DEF ChildLock
<1>3. CASE GetClient(p) \/ AcceptFails(p) \/ FinishSession(p)
      BY <1>3 DEF GetClient, AcceptFails, FinishSession
<1>4. CASE TermChild(p)
      BY <1>4 DEF TermChild, Dies
<1>5. CASE Killed(p)
      BY <1>5 DEF Killed
<1>6. QED BY <1>1, <1>2, <1>3, <1>4, <1>5 DEF ChildStep, Environment

\* Every step keeps childs_active[] to those children.
LEMMA ActiveStep == TypeOK /\ ControlInv /\ ActiveInv /\ [Next]_vars => ActiveInv'
<1> SUFFICES ASSUME TypeOK, ControlInv, ActiveInv, [Next]_vars, Running'
             PROVE  /\ ipc'
                    /\ \A p \in childs_active' :
                         \/ child'[p] \in ActivePcs \cup {"zombie"}
                         \/ child'[p] = "none" /\ p = pid' /\ ppc' \in {"woken", "rmLock", "rmCS"}
    BY DEF ActiveInv
<1> DEFINE Goal == /\ ipc'
                   /\ \A p \in childs_active' :
                        \/ child'[p] \in ActivePcs \cup {"zombie"}
                        \/ child'[p] = "none" /\ p = pid' /\ ppc' \in {"woken", "rmLock", "rmCS"}
<1> USE DEF TypeOK, ControlInv, ActiveInv, Running, ShutdownPcs, ActivePcs, books, budget,
            parentVars, Exit, Goto
<1>1. ASSUME NEW p \in Pids, Fork(p) PROVE Goal
      BY <1>1 DEF Fork, NeedsFork
<1>2. ASSUME NEW p \in Pids, Reap(p) PROVE Goal
      BY <1>2 DEF Reap
<1>3. CASE ForkFails
      BY <1>3 DEF ForkFails, NeedsFork
<1>4. CASE ParentLock("addLock", "addCS") \/ ParentLock("rmLock", "rmCS")
             \/ ParentLock("lostLock", "lostCS")
      BY <1>4 DEF ParentLock
<1>5. CASE AddChild \/ RemoveActive \/ DecrementLost
      BY <1>5 DEF AddChild, RemoveActive, DecrementLost
<1>6. CASE LeaveForkLoop \/ Sleep \/ NoChild \/ Woken \/ Cleanup
      BY <1>6 DEF LeaveForkLoop, Sleep, NoChild, Woken, Cleanup
<1>7. CASE KillChilds
      BY <1>7 DEF KillChilds
<1>8. CASE TermParent
      BY <1>8 DEF TermParent, InterruptParent, Blocked
<1>9. ASSUME NEW p \in Pids, ChildStep(p) PROVE Goal
  <2>1. CASE Accept(p) \/ InstallHandlers(p)
        BY <2>1 DEF Accept, InstallHandlers
  <2>2. CASE SignalParent(p)
        BY <2>2 DEF SignalParent, InterruptParent, Blocked
  <2>3. CASE ChildLock(p, "decLock", "decCS") \/ ChildLock(p, "actLock", "actCS")
        BY <2>3 DEF ChildLock
  <2>4. CASE DecrementSpare(p)
        BY <2>4 DEF DecrementSpare, ChildUnlock
  <2>5. CASE AddActive(p)
        BY <2>5 DEF AddActive, ChildUnlock, Store
  <2>6. QED BY <1>9, <2>1, <2>2, <2>3, <2>4, <2>5 DEF ChildStep
<1>10. ASSUME NEW p \in Pids, Environment(p) PROVE Goal
  <2>1. CASE GetClient(p) \/ AcceptFails(p) \/ FinishSession(p)
        BY <2>1 DEF GetClient, AcceptFails, FinishSession
  <2>2. CASE TermChild(p)
        BY <2>2 DEF TermChild, Dies
  <2>3. CASE Killed(p)
        BY <2>3 DEF Killed, LivePcs, IdlePcs, TakenPcs, ActivatingPcs
  <2>4. QED BY <1>10, <2>1, <2>2, <2>3 DEF Environment
<1>11. CASE UNCHANGED vars
      BY <1>11 DEF vars
<1>12. QED
      BY <1>1, <1>2, <1>3, <1>4, <1>5, <1>6, <1>7, <1>8, <1>9, <1>10, <1>11
      DEF Next, ParentStep

\* The two sets whose sizes SpareCount compares.
OnBooks == Registered \cup LostSpare
Counted == Activating \cup childs_active

\* Sets of processes are finite.
LEMMA SpareSetsFinite ==
  ASSUME TypeOK
  PROVE  /\ OnBooks \subseteq Pids \cup {pid} /\ IsFiniteSet(OnBooks) /\ Cardinality(OnBooks) \in Nat
         /\ Counted \subseteq Pids /\ IsFiniteSet(Counted) /\ Cardinality(Counted) \in Nat
<1>1. OnBooks \subseteq Pids \cup {pid} /\ Counted \subseteq Pids
      BY DEF TypeOK, OnBooks, Counted, Registered, LostSpare, Exists, Activating
<1>2. IsFiniteSet(Pids \cup {pid})
      BY FS_AddElement
<1>3. QED BY <1>1, <1>2, FS_Subset, FS_CardinalityType

\* A child that adds itself to childs_active[] finds a free slot: those in it are on the books.
LEMMA ActiveSlot ==
  ASSUME TypeOK, ControlInv, ActiveInv, BooksInv, Running, PreforkCount <= MaxChilds,
         NEW p \in Pids, child[p] = "actCS"
  PROVE  Cardinality(childs_active) < MaxChilds
<1> DEFINE Known == childs \cup (IF ppc \in {"addLock", "addCS"} THEN {pid} ELSE {})
<1> USE PreforkCountType DEF TypeOK, Running, BooksInv
<1>1. childs_active \cup {p} \subseteq Known /\ p \notin childs_active
      BY DEF ActiveInv, ActivePcs, Registered, Exists
<1> HIDE DEF Known
<1>2. IsFiniteSet(childs) /\ Cardinality(childs) \in Nat
      BY FS_Subset, FS_CardinalityType
<1>3. IsFiniteSet(Known) /\ Cardinality(Known) <= MaxChilds /\ Cardinality(Known) \in Nat
  <2>1. CASE ppc \in {"addLock", "addCS"}
    <3>1. Known = childs \cup {pid}
          BY <2>1 DEF Known
    <3>2. /\ IsFiniteSet(childs \cup {pid})
          /\ Cardinality(childs \cup {pid})
               = IF pid \in childs THEN Cardinality(childs) ELSE Cardinality(childs) + 1
          BY <1>2, FS_AddElement
    <3>3. Cardinality(childs) + 1 <= MaxChilds
          BY <1>2, <2>1
    <3>4. QED BY <1>2, <3>1, <3>2, <3>3
  <2>2. CASE ppc \notin {"addLock", "addCS"}
    <3>1. Known = childs
          BY <2>2 DEF Known
    <3>2. QED BY <1>2, <3>1
  <2>3. QED BY <2>1, <2>2
<1>4. Cardinality(childs_active \cup {p}) <= MaxChilds
  <2>1. Cardinality(childs_active \cup {p}) <= Cardinality(Known)
        BY <1>1, <1>3, FS_Subset
  <2>2. IsFiniteSet(childs_active \cup {p}) /\ Cardinality(childs_active \cup {p}) \in Nat
        BY <1>1, <1>3, FS_Subset, FS_CardinalityType
  <2>3. QED BY <1>3, <2>1, <2>2
<1>5. Cardinality(childs_active \cup {p}) = Cardinality(childs_active) + 1
          /\ Cardinality(childs_active) \in Nat
      BY <1>1, FS_AddElement, FS_Subset, FS_CardinalityType
<1>6. QED BY <1>4, <1>5

\* SpareCount, step by step.
LEMMA SpareStep ==
  TypeOK /\ ControlInv /\ ActiveInv /\ BooksInv /\ SpareCount /\ [Next]_vars => SpareCount'
<1> SUFFICES ASSUME TypeOK, ControlInv, ActiveInv, BooksInv, SpareCount, [Next]_vars,
                    Running', kills' = 0, PreforkCount <= MaxChilds
             PROVE  num_spare' = Cardinality(OnBooks') + dead_slots' - Cardinality(Counted')
    BY DEF SpareCount, OnBooks, Counted, PreforkCount
<1> DEFINE Goal == num_spare' = Cardinality(OnBooks') + dead_slots' - Cardinality(Counted')
<1> DEFINE Before == num_spare = Cardinality(OnBooks) + dead_slots - Cardinality(Counted)
<1>0. /\ IsFiniteSet(OnBooks) /\ Cardinality(OnBooks) \in Nat
      /\ IsFiniteSet(Counted) /\ Cardinality(Counted) \in Nat
      BY SpareSetsFinite
<1>a. ASSUME Running, kills = 0 PROVE Before
      BY <1>a DEF SpareCount, OnBooks, Counted
<1> USE PreforkCountType DEF TypeOK, ControlInv, Running, ShutdownPcs
<1>1. CASE KillChilds \/ TermParent \/ (\E p \in Pids : ChildStep(p) \/ Environment(p))
             \/ UNCHANGED vars
  <2>1. Aside
        BY <1>1, AsideSteps
  <2>2. Running /\ dead_slots' = dead_slots
        BY <2>1 DEF Aside
  <2>3. OnBooks' = OnBooks
        BY <2>1, <2>2 DEF Aside, OnBooks, Registered, LostSpare, Exists
  <2>4. CASE ActiveUnchanged /\ kills = 0
        BY <2>2, <2>3, <2>4, <1>a DEF ActiveUnchanged, Counted
  <2>5. CASE KillChilds \/ TermParent \/ UNCHANGED vars
        BY <2>4, <2>5 DEF KillChilds, TermParent, vars, books, budget, ActiveUnchanged, Activating
  <2>6. ASSUME NEW p \in Pids, ChildStep(p) \/ Environment(p) PROVE Goal
    <3>1. kills = 0
          BY <2>6
          DEF ChildStep, Environment, Accept, InstallHandlers, SignalParent, ChildLock,
              DecrementSpare, AddActive, GetClient, AcceptFails, FinishSession, TermChild,
              Killed, budget
    <3>2. CASE DecrementSpare(p)
      <4>1. Counted' = Counted \cup {p} /\ p \notin Counted
            BY <2>2, <3>2 DEF DecrementSpare, ChildUnlock, Goto, Counted, Activating,
                              ActivatingPcs, ActiveInv, ActivePcs
      <4>2. Cardinality(Counted') = Cardinality(Counted) + 1
            BY <1>0, <4>1, FS_AddElement
      <4>3. QED BY <1>0, <1>a, <2>2, <2>3, <3>1, <3>2, <4>2 DEF DecrementSpare
    <3>3. CASE AddActive(p)
      <4>1. childs_active' = childs_active \cup {p}
        <5>1. Cardinality(childs_active) < MaxChilds /\ Cardinality(childs_active) \in Nat
              BY <2>2, <3>3, ActiveSlot, FS_Subset, FS_CardinalityType
              DEF AddActive
        <5>2. QED BY <3>3, <5>1 DEF AddActive, Store
      <4>2. Counted' = Counted
            BY <2>2, <3>3, <4>1 DEF AddActive, ChildUnlock, Goto, Counted, Activating,
                              ActivatingPcs, ActiveInv
      <4>3. QED BY <1>a, <2>2, <2>3, <3>1, <3>3, <4>2 DEF AddActive
    <3>4. QED BY <2>2, <2>4, <2>6, <3>1, <3>2, <3>3, ChildrenSteps
  <2>7. QED BY <1>1, <2>5, <2>6
<1>2. ASSUME NEW p \in Pids, Fork(p) PROVE Goal
  <2>1. OnBooks' = OnBooks /\ Counted' = Counted
        BY <1>2 DEF Fork, NeedsFork, OnBooks, Registered, LostSpare, Exists, Counted,
                    Activating, ActivatingPcs, books
  <2>2. QED BY <1>2, <1>a, <2>1 DEF Fork, NeedsFork, books, budget
<1>3. ASSUME NEW p \in Pids, Reap(p) PROVE Goal
  <2>1. OnBooks' = OnBooks /\ Counted' = Counted
        BY <1>3 DEF Reap, OnBooks, Registered, LostSpare, Exists, Counted,
                    Activating, ActivatingPcs, books
  <2>2. QED BY <1>3, <1>a, <2>1 DEF Reap, books, budget
<1>4. CASE ForkFails
  <2>1. OnBooks' = OnBooks /\ Counted' = Counted
        BY <1>4 DEF ForkFails, NeedsFork, OnBooks, Registered, LostSpare, Exists, Counted,
                    Activating, books
  <2>2. QED BY <1>4, <1>a, <2>1 DEF ForkFails, NeedsFork, books
<1>5. CASE ParentLock("addLock", "addCS") \/ ParentLock("rmLock", "rmCS")
             \/ ParentLock("lostLock", "lostCS")
  <2>1. OnBooks' = OnBooks /\ Counted' = Counted
        BY <1>5 DEF ParentLock, OnBooks, Registered, LostSpare, Exists, Counted, Activating, books
  <2>2. QED BY <1>5, <1>a, <2>1 DEF ParentLock, books, budget
<1>6. CASE LeaveForkLoop \/ Sleep \/ NoChild \/ Woken \/ Cleanup
  <2>1. OnBooks' = OnBooks /\ Counted' = Counted
        BY <1>6
        DEF LeaveForkLoop, Sleep, NoChild, Woken, Cleanup, OnBooks, Registered,
                    LostSpare, Exists, Counted, Activating, books
  <2>2. QED BY <1>6, <1>a, <2>1 DEF LeaveForkLoop, Sleep, NoChild, Woken, Cleanup, books, budget
<1>7. CASE AddChild
  <2>0. Running /\ kills = 0 /\ num_spare' = num_spare + 1 /\ Counted' = Counted
        BY <1>7 DEF AddChild, budget, Counted, Activating
  <2>1. ~ChildsFull
    <3>1. IsFiniteSet(childs) /\ Cardinality(childs) \in Nat
          BY FS_Subset, FS_CardinalityType
    <3>2. QED BY <1>7, <3>1 DEF AddChild, ChildsFull, BooksInv
  <2>2. CASE pid = Failed
    <3>1. OnBooks' = OnBooks
          BY <1>7, <2>2 DEF AddChild, OnBooks, Registered, LostSpare, Exists
    <3>2. dead_slots' = dead_slots + 1
          BY <1>7, <2>1, <2>2 DEF AddChild
    <3>3. QED BY <1>0, <1>a, <2>0, <3>1, <3>2
  <2>3. CASE pid # Failed
    <3>1. OnBooks' = OnBooks \cup {pid} /\ pid \notin OnBooks
          BY <1>7, <2>3 DEF AddChild, OnBooks, Registered, LostSpare, Exists
    <3>2. Cardinality(OnBooks') = Cardinality(OnBooks) + 1
          BY <1>0, <3>1, FS_AddElement
    <3>3. dead_slots' = dead_slots
          BY <1>7, <2>3 DEF AddChild
    <3>4. QED BY <1>0, <1>a, <2>0, <3>2, <3>3
  <2>4. QED BY <2>2, <2>3
<1>8. CASE RemoveActive
  <2>0. Running /\ kills = 0 /\ num_spare' = num_spare /\ dead_slots' = dead_slots
        BY <1>8 DEF RemoveActive, budget
  <2>1. pid \in Pids /\ child[pid] = "none"
        BY <1>8 DEF RemoveActive
  <2>2. CASE pid \in childs_active
    <3>1. OnBooks' = OnBooks \ {pid} /\ pid \in OnBooks
          BY <1>8, <2>1, <2>2 DEF RemoveActive, OnBooks, Registered, LostSpare, Exists
    <3>2. Counted' = Counted \ {pid} /\ pid \in Counted
          BY <1>8, <2>1, <2>2 DEF RemoveActive, Counted, Activating, ActivatingPcs
    <3>3. Cardinality(OnBooks') = Cardinality(OnBooks) - 1
          BY <1>0, <3>1, FS_RemoveElement
    <3>4. Cardinality(Counted') = Cardinality(Counted) - 1
          BY <1>0, <3>2, FS_RemoveElement
    <3>5. QED BY <1>0, <1>a, <2>0, <3>3, <3>4
  <2>3. CASE pid \notin childs_active
    <3>1. OnBooks' = OnBooks
          BY <1>8, <2>1, <2>3 DEF RemoveActive, OnBooks, Registered, LostSpare, Exists
    <3>2. Counted' = Counted
          BY <1>8, <2>3 DEF RemoveActive, Counted, Activating
    <3>3. QED BY <1>a, <2>0, <3>1, <3>2
  <2>4. QED BY <2>2, <2>3
<1>9. CASE DecrementLost
  <2>1. pid \in Pids /\ child[pid] = "none"
        BY <1>9 DEF DecrementLost
  <2>2. OnBooks' = OnBooks \ {pid} /\ pid \in OnBooks
        BY <1>9, <2>1 DEF DecrementLost, OnBooks, Registered, LostSpare, Exists
  <2>3. Cardinality(OnBooks') = Cardinality(OnBooks) - 1
        BY <1>0, <2>2, FS_RemoveElement
  <2>4. Running /\ kills = 0 /\ num_spare' = num_spare - 1 /\ dead_slots' = dead_slots
          /\ Counted' = Counted
        BY <1>9 DEF DecrementLost, budget, Counted, Activating
  <2>5. QED BY <1>0, <1>a, <2>3, <2>4
<1>10. QED BY <1>1, <1>2, <1>3, <1>4, <1>5, <1>6, <1>7, <1>8, <1>9 DEF Next, ParentStep

\* num_spare is what _smf_server_add_child, smf_server_decrement_spare and
\* _smf_server_remove_active should make of it, although child and parent call them in any order.
THEOREM SparesCounted == Spec => []SpareCount
<1>1. Init => ActiveInv /\ SpareCount
  <2>1. Init => ActiveInv
        BY DEF Init, ActiveInv
  <2>2. ASSUME Init PROVE SpareCount
    <3>1. Registered \cup LostSpare = {} /\ Activating \cup childs_active = {}
          BY <2>2 DEF Init, Registered, LostSpare, Exists, Activating, ActivatingPcs
    <3>2. QED BY <2>2, <3>1, FS_EmptySet DEF Init, SpareCount
  <2>3. QED BY <2>1, <2>2
<1>2. QED BY <1>1, SpareStep, ActiveStep, BooksInit, BooksStep, ControlStep, TypeCorrect, PTL
         DEF Spec

\* A child that has a client and has said so is in childs_active[]: no pid is lost to a full table.
StoredInv ==
  Running /\ PreforkCount <= MaxChilds =>
    \A p \in Pids : child[p] \in ActivePcs => p \in childs_active

\* Every step keeps such children in the table.
LEMMA StoredStep ==
  TypeOK /\ ControlInv /\ ActiveInv /\ BooksInv /\ StoredInv /\ [Next]_vars => StoredInv'
<1> SUFFICES ASSUME TypeOK, ControlInv, ActiveInv, BooksInv, StoredInv, [Next]_vars,
                    Running', PreforkCount <= MaxChilds
             PROVE  \A p \in Pids : child'[p] \in ActivePcs => p \in childs_active'
    BY DEF StoredInv, PreforkCount
<1> DEFINE Goal == \A p \in Pids : child'[p] \in ActivePcs => p \in childs_active'
<1> USE DEF TypeOK, ControlInv, StoredInv, Running, ShutdownPcs, ActivePcs, books, budget,
            parentVars, Exit, Goto
<1>1. CASE KillChilds \/ Cleanup
      BY <1>1 DEF KillChilds, Cleanup
<1>2. CASE TermParent
      BY <1>2 DEF TermParent, InterruptParent, Blocked
<1>3. CASE UNCHANGED vars
      BY <1>3 DEF vars
<1>4. ASSUME NEW p \in Pids, ChildStep(p) PROVE Goal
  <2>1. CASE Accept(p)
        BY <2>1 DEF Accept
  <2>2. CASE InstallHandlers(p)
        BY <2>2 DEF InstallHandlers
  <2>3. CASE SignalParent(p)
        BY <2>3 DEF SignalParent, InterruptParent, Blocked
  <2>4. CASE ChildLock(p, "decLock", "decCS") \/ ChildLock(p, "actLock", "actCS")
        BY <2>4 DEF ChildLock
  <2>5. CASE DecrementSpare(p)
        BY <2>5 DEF DecrementSpare, ChildUnlock
  <2>6. CASE AddActive(p)
    <3>1. Cardinality(childs_active) < MaxChilds /\ Cardinality(childs_active) \in Nat
          BY <2>6, ActiveSlot, FS_Subset, FS_CardinalityType DEF AddActive
    <3>2. childs_active' = childs_active \cup {p}
          BY <2>6, <3>1 DEF AddActive, Store
    <3>3. QED BY <2>6, <3>2 DEF AddActive, ChildUnlock
  <2>7. QED BY <1>4, <2>1, <2>2, <2>3, <2>4, <2>5, <2>6 DEF ChildStep
<1>5. ASSUME NEW p \in Pids, Environment(p) PROVE Goal
      BY <1>5 DEF Environment, GetClient, AcceptFails, FinishSession, TermChild, Killed
<1>6. ASSUME NEW p \in Pids, Fork(p) \/ Reap(p) PROVE Goal
      BY <1>6 DEF Fork, NeedsFork, Reap
<1>7. CASE ForkFails \/ LeaveForkLoop \/ Sleep \/ NoChild \/ Woken
             \/ ParentLock("addLock", "addCS") \/ ParentLock("rmLock", "rmCS")
             \/ ParentLock("lostLock", "lostCS")
      BY <1>7 DEF ForkFails, NeedsFork, LeaveForkLoop, Sleep, NoChild, Woken, ParentLock
<1>8. CASE AddChild \/ DecrementLost
      BY <1>8 DEF AddChild, DecrementLost
<1>9. CASE RemoveActive
      BY <1>9 DEF RemoveActive
<1>10. QED BY <1>1, <1>2, <1>3, <1>4, <1>5, <1>6, <1>7, <1>8, <1>9 DEF Next, ParentStep

\* Where the parent looks at num_spare, it does not exceed the children that are unused, have
\* just taken a client or have just died.
LEMMA SparesUnused ==
  ASSUME TypeOK, ControlInv, ActiveInv, BooksInv, SpareCount, StoredInv,
         PreforkCount <= MaxChilds, ppc = "replenish", dead_slots = 0, kills = 0
  PROVE  /\ num_procs = Cardinality(Exists)
         /\ num_spare <= Cardinality({p \in Pids : child[p] \in IdlePcs \cup TakenPcs \cup {"zombie"}})
         /\ Cardinality({p \in Pids : child[p] \in IdlePcs \cup TakenPcs \cup {"zombie"}}) \in Nat
<1> DEFINE Unused == {p \in Pids : child[p] \in IdlePcs \cup TakenPcs \cup {"zombie"}}
<1>1. Running /\ Registered = Exists /\ LostSpare = {}
      BY DEF Running, ShutdownPcs, Registered, LostSpare
<1>2. num_procs = Cardinality(Exists) /\ num_spare = Cardinality(Exists) - Cardinality(Counted)
  <2>1. OnBooks = Exists
        BY <1>1 DEF OnBooks
  <2>2. IsFiniteSet(Exists) /\ Cardinality(Exists) \in Nat /\ Cardinality(Counted) \in Nat
        BY <2>1, SpareSetsFinite
  <2>3. QED BY <1>1, <2>1, <2>2 DEF BooksInv, SpareCount, OnBooks, Counted, TypeOK
<1>3. Counted \subseteq Exists
      BY <1>1 DEF ActiveInv, Counted, Activating, ActivatingPcs, ActivePcs, Exists, TypeOK
<1>4. Exists \ Counted \subseteq Unused
      BY <1>1 DEF StoredInv, Counted, Activating, Exists, TypeOK, ChildPcs, LivePcs
<1>5. IsFiniteSet(Exists) /\ IsFiniteSet(Unused)
        /\ Cardinality(Exists) \in Nat /\ Cardinality(Unused) \in Nat
      BY FS_Subset, FS_CardinalityType DEF Exists
<1>6. Cardinality(Exists \ Counted) = Cardinality(Exists) - Cardinality(Counted)
  <2>1. Exists \cap Counted = Counted
        BY <1>3
  <2>2. QED BY <1>5, <2>1, FS_Difference
<1>7. Cardinality(Exists \ Counted) <= Cardinality(Unused)
      BY <1>4, <1>5, FS_Subset
<1>8. QED BY <1>2, <1>5, <1>6, <1>7

\* "Unused children to always have available" as far as the counters go: smf_server_loop never
\* goes to sleep on numbers that overstate the pool.
THEOREM PoolReplenished == Spec => (PreforkCount <= MaxChilds => PoolAtSleep)
<1> DEFINE Unused == {p \in Pids : child[p] \in IdlePcs \cup TakenPcs \cup {"zombie"}}
<1> DEFINE Slept == ppc = "replenish" /\ ppc' = "toWait" /\ dead_slots = 0 /\ kills = 0 =>
                      \/ Cardinality(Unused) >= SpareChilds
                      \/ Cardinality(Exists) >= MaxChilds
<1> SUFFICES ASSUME PreforkCount <= MaxChilds PROVE Spec => PoolAtSleep
    OBVIOUS
<1>1. Init => ActiveInv /\ StoredInv
      BY DEF Init, ActiveInv, StoredInv, ActivePcs
<1>2. TypeOK /\ ControlInv /\ ActiveInv /\ BooksInv /\ SpareCount /\ StoredInv /\ [Next]_vars
        => Slept
  <2> SUFFICES ASSUME TypeOK, ControlInv, ActiveInv, BooksInv, SpareCount, StoredInv, [Next]_vars,
                      ppc = "replenish", ppc' = "toWait",
                      dead_slots = 0, kills = 0
               PROVE  Cardinality(Unused) >= SpareChilds \/ Cardinality(Exists) >= MaxChilds
      OBVIOUS
  <2>1. ~NeedsFork
    <3>1. CASE LeaveForkLoop
          BY <3>1 DEF LeaveForkLoop
    <3>2. CASE ~LeaveForkLoop
      <4>1. ASSUME NEW p \in Pids, ChildStep(p) \/ Environment(p) PROVE FALSE
            BY <4>1, AsideSteps DEF Aside
      <4>2. ~(KillChilds \/ TermParent \/ UNCHANGED vars)
            BY AsideSteps DEF Aside
      <4>3. QED BY <3>2, <4>1, <4>2
                DEF Next, ParentStep, Fork, Reap, ForkFails, ParentLock, AddChild, Sleep, NoChild,
                    Woken, RemoveActive, DecrementLost, Cleanup
    <3>3. QED BY <3>1, <3>2
  <2>2. /\ num_procs = Cardinality(Exists) /\ num_spare <= Cardinality(Unused)
        /\ Cardinality(Unused) \in Nat
        BY SparesUnused
  <2>3. QED BY <2>1, <2>2 DEF NeedsFork, TypeOK
<1>3. QED
      BY <1>1, <1>2, SparesCounted, StoredStep, ActiveStep, BooksInit, BooksStep, ControlStep,
         TypeCorrect, PTL DEF Spec, PoolAtSleep

(***************************************************************************)
(* Shutdown.                                                               *)
(***************************************************************************)

\* When the SIGTERM loop starts every living child is in the table it runs over; afterwards
\* every one that still lives has the flag.
ShutdownInv ==
  PreforkCount <= MaxChilds =>
    /\ ppc = "kill" => \A p \in Live : p \in childs
    /\ ppc \in {"waitAll", "cleanup", "done"} => \A p \in Live : daemon_exit[p]

\* No step takes the flag from a child that goes on living, and none is born.
LEMMA ShutdownStep ==
  TypeOK /\ ControlInv /\ BooksInv /\ ShutdownInv /\ [Next]_vars => ShutdownInv'
<1> SUFFICES ASSUME TypeOK, ControlInv, BooksInv, ShutdownInv, [Next]_vars,
                    PreforkCount <= MaxChilds
             PROVE  /\ ppc' = "kill" => \A p \in Live' : p \in childs'
                    /\ ppc' \in {"waitAll", "cleanup", "done"} => \A p \in Live' : daemon_exit'[p]
    BY DEF ShutdownInv, PreforkCount
<1> DEFINE Goal == /\ ppc' = "kill" => \A p \in Live' : p \in childs'
                   /\ ppc' \in {"waitAll", "cleanup", "done"}
                        => \A p \in Live' : daemon_exit'[p]
<1> USE DEF TypeOK, ShutdownInv, Live, books, budget, parentVars, Exit, Goto
<1>1. CASE KillChilds
  <2>1. ASSUME NEW p \in Live' PROVE daemon_exit'[p]
    <3>1. p \in Pids /\ child'[p] \in LivePcs /\ "zombie" \notin LivePcs
          BY <2>1 DEF LivePcs, IdlePcs, TakenPcs, ActivatingPcs, ActivePcs
    <3>2. child'[p] = child[p] /\ ~(p \in childs /\ Dies(p))
          BY <1>1, <3>1 DEF KillChilds
    <3>3. p \in childs /\ ~Dies(p)
          BY <1>1, <3>1, <3>2 DEF KillChilds
    <3>4. daemon_exit'[p] = ~Dies(p)
          BY <1>1, <3>1, <3>2, <3>3 DEF KillChilds
    <3>5. QED BY <3>3, <3>4
  <2>2. QED BY <1>1, <2>1 DEF KillChilds
<1>2. CASE Woken
  <2>1. CASE ppc' = "kill"
    <3>1. Live' \subseteq Exists
          BY <1>2 DEF Woken, Exists, LivePcs, IdlePcs, TakenPcs, ActivatingPcs, ActivePcs
    <3>2. Exists \subseteq childs
          BY <1>2 DEF Woken, BooksInv, Running, ShutdownPcs, Registered
    <3>3. QED BY <1>2, <2>1, <3>1, <3>2 DEF Woken
  <2>2. QED BY <1>2, <2>1 DEF Woken
<1>3. CASE TermParent
      BY <1>3 DEF TermParent, InterruptParent, Blocked
<1>4. ASSUME NEW p \in Pids, Reap(p) PROVE Goal
  <2>1. p \notin Live'
        BY <1>4 DEF Reap, LivePcs, IdlePcs, TakenPcs, ActivatingPcs, ActivePcs
  <2>2. QED BY <1>4, <2>1 DEF Reap
<1>5. CASE NoChild \/ Cleanup \/ Sleep \/ LeaveForkLoop
      BY <1>5 DEF NoChild, Cleanup, Sleep, LeaveForkLoop
<1>6. CASE ForkFails \/ AddChild \/ RemoveActive \/ DecrementLost \/ (\E p \in Pids : Fork(p))
             \/ ParentLock("addLock", "addCS") \/ ParentLock("rmLock", "rmCS")
             \/ ParentLock("lostLock", "lostCS")
      BY <1>6 DEF ForkFails, AddChild, RemoveActive, DecrementLost, Fork, ParentLock
<1>7. ASSUME NEW p \in Pids, ChildStep(p) \/ Environment(p) PROVE Goal
  <2>1. childs' = childs /\ \A q \in Live' : q \in Live /\ (daemon_exit[q] => daemon_exit'[q])
    <3>1. CASE Accept(p) \/ InstallHandlers(p) \/ SignalParent(p) \/ GetClient(p)
                 \/ AcceptFails(p) \/ FinishSession(p)
          BY <3>1 DEF Accept, InstallHandlers, SignalParent, GetClient, AcceptFails,
                      FinishSession, LivePcs, IdlePcs, TakenPcs, ActivatingPcs, ActivePcs
    <3>2. CASE ChildLock(p, "decLock", "decCS") \/ ChildLock(p, "actLock", "actCS")
          BY <3>2 DEF ChildLock, LivePcs, IdlePcs, TakenPcs, ActivatingPcs, ActivePcs
    <3>3. CASE DecrementSpare(p) \/ AddActive(p)
          BY <3>3 DEF DecrementSpare, AddActive, ChildUnlock, LivePcs, IdlePcs, TakenPcs,
                      ActivatingPcs, ActivePcs
    <3>4. CASE TermChild(p) \/ Killed(p)
          BY <3>4 DEF TermChild, Killed, LivePcs, IdlePcs, TakenPcs, ActivatingPcs, ActivePcs
    <3>5. QED BY <1>7, <3>1, <3>2, <3>3, <3>4 DEF ChildStep, Environment
  <2>2. ppc' = "kill" => ppc = "kill"
        BY <1>7, AsideSteps DEF Aside
  <2>3. ppc' \in {"waitAll", "cleanup", "done"} => ppc \in {"waitAll", "cleanup", "done"}
        BY <1>7 DEF ChildStep, Environment, Accept, InstallHandlers, SignalParent,
                    InterruptParent, Blocked, ChildLock, DecrementSpare, AddActive, GetClient,
                    AcceptFails, FinishSession, TermChild, Killed
  <2>4. QED BY <2>1, <2>2, <2>3
<1>8. CASE UNCHANGED vars
      BY <1>8 DEF vars
<1>9. QED BY <1>1, <1>2, <1>3, <1>4, <1>5, <1>6, <1>7, <1>8 DEF Next, ParentStep

\* The SIGTERM loop of smf_server_loop misses nobody, not even a child that was being forked
\* when the signal came.
THEOREM EverybodyReached == Spec => []ShutdownReachesAll
<1>1. Init => ShutdownInv
      BY DEF Init, ShutdownInv
<1>2. TypeOK /\ ShutdownInv => ShutdownReachesAll
      BY DEF TypeOK, ParentPcs, ShutdownInv, ShutdownReachesAll, Running, ShutdownPcs
<1>3. QED BY <1>1, <1>2, ShutdownStep, BooksInit, BooksStep, ControlStep, TypeCorrect, PTL
         DEF Spec
=============================================================================
