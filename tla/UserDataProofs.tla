---------------------------- MODULE UserDataProofs ----------------------------
(***************************************************************************)
(* Theorems about UserData, for every set of addresses and entries, every  *)
(* relation between them and every setting: who is looked up, what is kept *)
(* of the answers, and what modules are told.                              *)
(***************************************************************************)
EXTENDS UserData, FiniteSetTheorems, SequenceTheorems, WellFoundedInduction, TLAPS

USE UserDataAssumption

(***************************************************************************)
(* The inductive invariant.                                                *)
(***************************************************************************)
UserType == [email : Addresses, data : Entries \cup {NoData}, result : SUBSET Entries]

TypeInv ==
  /\ settings \in SettingsType /\ directory \subseteq Entries
  /\ recipients \in Seq(Addresses) /\ sender \in Addresses \cup {NoSender}
  /\ local_users \in Seq(UserType) /\ todo \in Seq(Addresses)
  /\ upc \in {"idle", "envelope", "fetch", "modules"}
  /\ sessions \in Nat /\ messages \in Nat /\ faults \in Nat

\* Those in the envelope whom the directory has for a query that can be asked.
Envelope == ToSet(recipients) \cup ({sender} \ {NoSender})
Expected == {a \in Envelope : ~ExpandFails(a) /\ Found(a) # {}}

\* Whoever is expected is local already or still to be queried.
FetchInv ==
  settings.backend # "none" /\ faults = 0 =>
    /\ upc = "fetch" => \A a \in Expected : IsLocal(a) \/ a \in ToSet(todo)
    /\ upc = "modules" => \A a \in Expected : IsLocal(a)

IndInv == TypeInv /\ FetchInv /\ OwnData

(***************************************************************************)
(* The operators.                                                          *)
(***************************************************************************)

\* Min is the least of a set of naturals.
LEMMA MinLeast ==
  ASSUME NEW S \in SUBSET Nat, S # {}
  PROVE  Min(S) \in S /\ \A y \in S : Min(S) <= y
<1> DEFINE R == {ss \in Nat \X Nat : ss[1] < ss[2]}
<1>1. IsWellFoundedOn(R, Nat)
      BY NatLessThanWellFounded DEF OpToRel
<1>2. PICK x \in S : \A y \in S : ~(<<y, x>> \in R)
      BY <1>1, WFMin
<1>3. ASSUME NEW y \in S PROVE x <= y
  <2>1. y \in Nat /\ x \in Nat /\ <<y, x>> \in Nat \X Nat /\ ~(<<y, x>> \in R)
        BY <1>2
  <2>2. ~(<<y, x>>[1] < <<y, x>>[2])
        BY <2>1
  <2>3. QED BY <2>1, <2>2
<1>4. QED BY <1>3 DEF Min

\* Whatever is added behind the others does not change the least.
LEMMA MinKept ==
  ASSUME NEW S \in SUBSET Nat, S # {}, NEW n \in Nat, \A i \in S : i < n
  PROVE  Min(S \cup {n}) = Min(S)
<1>1. Min(S) \in S /\ \A y \in S : Min(S) <= y
      BY MinLeast
<1>2. Min(S \cup {n}) \in S \cup {n} /\ \A y \in S \cup {n} : Min(S \cup {n}) <= y
  <2>1. S \cup {n} \in SUBSET Nat /\ S \cup {n} # {}
        OBVIOUS
  <2>2. QED BY <2>1, MinLeast
<1> DEFINE m == Min(S)
           k == Min(S \cup {n})
<1>3. m \in S /\ m \in Nat /\ m < n /\ k \in Nat
      BY <1>1, <1>2
<1>4. k <= m
      BY <1>2, <1>3
<1>5. k # n
  <2> HIDE DEF m, k
  <2>1. QED BY <1>3, <1>4
<1>6. k \in S /\ m <= k
      BY <1>1, <1>2, <1>5
<1> HIDE DEF m, k
<1>7. k = m
      BY <1>3, <1>4, <1>6
<1>8. QED BY <1>7 DEF m, k

\* The rows of a result are what was found: each is found, and each that was found is a row.
LEMMA RowsOfSet ==
  ASSUME NEW S, IsFiniteSet(S), NEW rows \in SetToSeqs(S)
  PROVE  /\ rows \in Seq(S) /\ Len(rows) = Cardinality(S)
         /\ \A x \in S : \E i \in DOMAIN rows : rows[i] = x
<1> DEFINE D == 1..Cardinality(S)
<1>1. Cardinality(S) \in Nat
      BY FS_CardinalityType
<1>2. rows \in Injection(D, S)
      BY DEF SetToSeqs, Injection, IsInjective
<1>3. IsFiniteSet(D) /\ Cardinality(D) = Cardinality(S)
      BY <1>1, FS_Interval
<1>4. rows \in Surjection(D, S)
      BY <1>2, <1>3, FS_Injection
<1>5. rows \in [D -> S]
      BY <1>2 DEF Injection
<1>6. rows \in Seq(S) /\ Len(rows) = Cardinality(S)
      BY <1>1, <1>5
<1>7. QED BY <1>4, <1>5, <1>6 DEF Surjection

\* smf_internal_get_user_result takes one of the rows, and one that matches if there is one.
LEMMA ResultOfRows ==
  ASSUME NEW S, NEW rows \in Seq(S), NEW a
  PROVE  /\ rows = <<>> => UserResult(rows, a) = NoData
         /\ rows # <<>> => UserResult(rows, a) \in S
         /\ settings.with_ldap /\ (\E i \in DOMAIN rows : Match(rows[i], a)) =>
              Match(UserResult(rows, a), a)
<1> DEFINE hits == {i \in DOMAIN rows : Match(rows[i], a)}
<1>1. hits \in SUBSET Nat /\ hits \subseteq DOMAIN rows /\ \A i \in DOMAIN rows : rows[i] \in S
      OBVIOUS
<1>2. hits # {} => Min(hits) \in hits
      BY <1>1, MinLeast
<1>3. rows # <<>> => 1 \in DOMAIN rows /\ Len(rows) \in DOMAIN rows
      OBVIOUS
<1> HIDE DEF hits
<1>4. CASE rows = <<>>
  <2>1. UserResult(rows, a) = NoData
        BY <1>4 DEF UserResult
  <2>2. QED BY <1>4, <2>1
<1>5. CASE rows # <<>> /\ ~settings.with_ldap
  <2>1. UserResult(rows, a) = rows[1]
        BY <1>5 DEF UserResult
  <2>2. QED BY <1>1, <1>3, <1>5, <2>1
<1>6. CASE rows # <<>> /\ settings.with_ldap /\ hits = {}
  <2>1. UserResult(rows, a) = rows[Len(rows)]
        BY <1>6 DEF UserResult, Last, hits
  <2>2. QED BY <1>1, <1>3, <1>6, <2>1 DEF hits
<1>7. CASE rows # <<>> /\ settings.with_ldap /\ hits # {}
  <2>1. UserResult(rows, a) = rows[Min(hits)]
        BY <1>7 DEF UserResult, hits
  <2>2. Min(hits) \in hits
        BY <1>2, <1>7
  <2>3. QED BY <1>1, <1>7, <2>1, <2>2 DEF hits
<1>8. QED BY <1>4, <1>5, <1>6, <1>7

\* Expanding a query and matching a row depend on the configuration only, and what is found on
\* the directory too.
LEMMA SameQueries ==
  ASSUME settings' = settings, NEW a
  PROVE  /\ Asked(a)' = Asked(a) /\ ExpandFails(a)' = ExpandFails(a)
         /\ \A e : Match(e, a)' = Match(e, a)
         /\ directory' = directory => Found(a)' = Found(a)
BY DEF Asked, ExpandFails, Match, Found

\* What OwnData asks of one user, which is nothing that a step changes.
Own(u) ==
  /\ u.data # NoData /\ Asked(u.email) = {u.email} => u.email \in Listed[u.data]
  /\ (\E e \in u.result : Match(e, u.email)) /\ settings.with_ldap => Match(u.data, u.email)

LEMMA OwnLater ==
  ASSUME settings' = settings
  PROVE  OwnData' = \A i \in DOMAIN local_users' : Own(local_users'[i])
BY DEF OwnData, Own, Asked, Match

\* A user that is added leaves the others where they are.
LEMMA UserAdded ==
  ASSUME TypeInv, NEW u \in UserType, AddUser(u)
  PROVE  /\ local_users' \in Seq(UserType) /\ DOMAIN local_users' = DOMAIN local_users \cup {Len(local_users) + 1}
         /\ \A i \in DOMAIN local_users : local_users'[i] = local_users[i]
         /\ local_users'[Len(local_users) + 1] = u
         /\ \A a : Of(a)' = Of(a) \cup (IF u.email = a THEN {Len(local_users) + 1} ELSE {})
<1> DEFINE n == Len(local_users)
<1>1. local_users' = Append(local_users, u) /\ local_users \in Seq(UserType) /\ n \in Nat
      BY DEF AddUser, TypeInv
<1>2. /\ local_users' \in Seq(UserType) /\ DOMAIN local_users' = 1..n + 1 /\ DOMAIN local_users = 1..n
      /\ \A i \in 1..n : local_users'[i] = local_users[i]
      /\ local_users'[n + 1] = u
      BY <1>1
<1>3. 1..n + 1 = 1..n \cup {n + 1}
      BY <1>1
<1>4. ASSUME NEW a PROVE Of(a)' = Of(a) \cup (IF u.email = a THEN {n + 1} ELSE {})
  <2> HIDE DEF n
  <2>1. Of(a)' = {i \in 1..n \cup {n + 1} : local_users'[i].email = a}
        BY <1>2, <1>3 DEF Of
  <2>2. Of(a) = {i \in 1..n : local_users[i].email = a}
        BY <1>2 DEF Of
  <2>3. QED BY <1>2, <2>1, <2>2
<1>5. QED BY <1>2, <1>3, <1>4

\* What the next address of the loop leaves to do.
LEMMA NextTodo ==
  ASSUME TypeInv, NEW a, Querying(a), todo' = Tail(todo)
  PROVE  /\ a \in Addresses /\ todo' \in Seq(Addresses)
         /\ ToSet(todo) \subseteq ToSet(todo') \cup {a}
<1>1. todo \in Seq(Addresses) /\ todo # <<>> /\ a = Head(todo)
      BY DEF TypeInv, Querying
<1>2. a \in Addresses /\ todo' \in Seq(Addresses)
      BY <1>1
<1>3. ASSUME NEW i \in DOMAIN todo, i # 1 PROVE \E j \in DOMAIN todo' : todo'[j] = todo[i]
  <2>1. i - 1 \in DOMAIN todo' /\ todo'[i - 1] = todo[i]
        BY <1>1, <1>3
  <2>2. QED BY <2>1
<1>4. todo[1] = a
      BY <1>1
<1>5. QED BY <1>2, <1>3, <1>4 DEF ToSet

(***************************************************************************)
(* The steps.                                                              *)
(***************************************************************************)

\* A message comes in, with whatever directory there is by then.
LEMMA MessageStep ==
  ASSUME IndInv, NEW a \in Addresses, NEW s \in Addresses \cup {NoSender}, NEW new \in BOOLEAN,
         Message(a, s, new)
  PROVE  IndInv'
<1>1. TypeInv'
  <2>1. TypeInv /\ UNCHANGED <<settings, todo, faults>> /\ messages' = messages + 1 /\ sender' = s
        /\ upc' = "envelope" /\ directory' \in SUBSET Entries
        BY DEF IndInv, Message
  <2>2. /\ recipients' \in {<<a>>, Append(recipients, a)} /\ local_users' \in {<<>>, local_users}
        /\ sessions' \in {sessions, sessions + 1}
        BY DEF Message
  <2>3. /\ <<a>> \in Seq(Addresses) /\ Append(recipients, a) \in Seq(Addresses)
        /\ <<>> \in Seq(UserType)
        BY <2>1 DEF TypeInv
  <2>4. recipients' \in Seq(Addresses)
        BY <2>1, <2>2, <2>3 DEF TypeInv
  <2>5. local_users' \in Seq(UserType)
        BY <2>1, <2>2, <2>3 DEF TypeInv
  <2>6. sessions' \in Nat /\ messages' \in Nat /\ faults' \in Nat
        BY <2>1, <2>2 DEF TypeInv
  <2>7. QED BY <2>1, <2>4, <2>5, <2>6 DEF TypeInv
<1>2. FetchInv'
      BY DEF FetchInv, Message
<1>3. OwnData'
  <2>1. settings' = settings
        BY DEF Message
  <2>2. CASE local_users' = <<>>
        BY <2>2 DEF OwnData
  <2>3. CASE local_users' = local_users
        BY <2>1, <2>3, SameQueries DEF IndInv, OwnData
  <2>4. QED BY <2>2, <2>3 DEF Message
<1>4. QED BY <1>1, <1>2, <1>3 DEF IndInv

\* The queries are those of the envelope.
LEMMA FetchStep ==
  ASSUME IndInv, Fetch
  PROVE  IndInv'
<1> DEFINE last == IF sender = NoSender THEN <<>> ELSE <<sender>>
<1>1. TypeInv /\ UNCHANGED <<settings, directory, recipients, sender, local_users, sessions, messages, faults>>
      BY DEF IndInv, Fetch, envelope, counters
<1>2. last \in Seq(Addresses) /\ ToSet(last) = {sender} \ {NoSender}
      BY <1>1 DEF TypeInv, ToSet
<1> HIDE DEF last
<1>3. TypeInv'
      BY <1>1, <1>2 DEF Fetch, TypeInv, last
<1>4. ASSUME settings.backend # "none" PROVE Envelope \subseteq ToSet(todo')
  <2>1. todo' = recipients \o last /\ recipients \in Seq(Addresses)
        BY <1>1, <1>4 DEF Fetch, last, TypeInv
  <2>2. ASSUME NEW i \in DOMAIN recipients PROVE \E j \in DOMAIN todo' : todo'[j] = recipients[i]
    <3>1. i \in DOMAIN todo' /\ todo'[i] = recipients[i]
          BY <1>2, <2>1, <2>2
    <3>2. QED BY <3>1
  <2>3. ASSUME NEW i \in DOMAIN last PROVE \E j \in DOMAIN todo' : todo'[j] = last[i]
    <3>1. Len(recipients) + i \in DOMAIN todo' /\ todo'[Len(recipients) + i] = last[i]
          BY <1>2, <2>1, <2>3
    <3>2. QED BY <3>1
  <2>4. ToSet(recipients) \subseteq ToSet(todo') /\ ToSet(last) \subseteq ToSet(todo')
        BY <2>2, <2>3 DEF ToSet
  <2>5. QED BY <1>2, <2>4 DEF Envelope
<1>5. FetchInv'
  <2>1. upc' = "fetch" /\ Expected' \subseteq Envelope
        BY <1>1 DEF Fetch, Expected, Envelope
  <2>2. QED BY <1>1, <1>4, <2>1 DEF FetchInv
<1>6. OwnData'
      BY <1>1, SameQueries DEF IndInv, OwnData
<1>7. QED BY <1>3, <1>5, <1>6 DEF IndInv

\* An address has been queried, or could not be: the loop goes on with the others.
LEMMA QueriedStep ==
  ASSUME IndInv, NEW a, Querying(a), todo' = Tail(todo),
         UNCHANGED <<settings, directory, recipients, sender, upc>>,
         TypeInv', faults' \in {faults, faults + 1},
         \A b : IsLocal(b) => IsLocal(b)',
         ~ExpandFails(a) /\ Found(a) # {} /\ faults' = 0 => IsLocal(a)'
  PROVE  FetchInv'
<1>1. TypeInv /\ ToSet(todo) \subseteq ToSet(todo') \cup {a} /\ upc' = "fetch"
      BY NextTodo DEF IndInv, Querying
<1>2. faults' = 0 => faults = 0
      BY <1>1 DEF TypeInv
<1>3. Expected' = Expected
      BY SameQueries DEF Expected, Envelope
<1>4. ASSUME settings'.backend # "none", faults' = 0, NEW b \in Expected
      PROVE  IsLocal(b)' \/ b \in ToSet(todo')
  <2>1. IsLocal(b) \/ b \in ToSet(todo)
        BY <1>1, <1>2, <1>4 DEF IndInv, FetchInv, Querying
  <2>2. CASE b = a
        BY <1>4, <2>2 DEF Expected
  <2>3. QED BY <1>1, <2>1, <2>2
<1>5. QED BY <1>1, <1>3, <1>4 DEF FetchInv

\* Nothing was learnt of the address.
LEMMA NothingStep ==
  ASSUME IndInv, NEW a \in Addresses, ExpandError(a) \/ NoResult(a)
  PROVE  IndInv'
<1>1. /\ TypeInv /\ Querying(a) /\ todo' = Tail(todo)
      /\ UNCHANGED <<settings, directory, recipients, sender, local_users, upc, sessions, messages>>
      /\ faults' \in {faults, faults + 1}
      BY DEF IndInv, ExpandError, NoResult, NextAddress, envelope, counters
<1>2. TypeInv'
      BY <1>1, NextTodo DEF TypeInv
<1>3. \A b : IsLocal(b)' = IsLocal(b)
      BY <1>1 DEF IsLocal, Of
<1>4. ASSUME ~ExpandFails(a), Found(a) # {} PROVE faults' # 0
  <2>1. faults' = faults + 1
        BY <1>4 DEF ExpandError, NoResult
  <2>2. faults \in Nat
        BY <1>1 DEF TypeInv
  <2>3. QED BY <2>1, <2>2
<1>5. FetchInv'
  <2>1. ~ExpandFails(a) /\ Found(a) # {} /\ faults' = 0 => IsLocal(a)'
        BY <1>4
  <2>2. \A b : IsLocal(b) => IsLocal(b)'
        BY <1>3
  <2>3. QED BY <1>1, <1>2, <2>1, <2>2, QueriedStep
<1>6. OwnData'
      BY <1>1, SameQueries DEF IndInv, OwnData
<1>7. QED BY <1>2, <1>5, <1>6 DEF IndInv

\* What the new user gets is that user's.
LEMMA NewUserData ==
  ASSUME TypeInv, NEW a \in Addresses, NEW rows \in SetToSeqs(Found(a))
  PROVE  LET u == [email |-> a, data |-> UserResult(rows, a), result |-> Found(a)] IN
           /\ u \in UserType
           /\ u.data # NoData /\ Asked(a) = {a} => a \in Listed[u.data]
           /\ (\E e \in u.result : Match(e, a)) /\ settings.with_ldap => Match(u.data, a)
<1> DEFINE d == UserResult(rows, a)
<1>1. Found(a) \subseteq Entries /\ IsFiniteSet(Found(a))
      BY FS_Subset DEF Found, TypeInv
<1>2. rows \in Seq(Found(a)) /\ \A e \in Found(a) : \E i \in DOMAIN rows : rows[i] = e
      BY <1>1, RowsOfSet
<1>3. /\ d = NoData \/ d \in Found(a)
      /\ settings.with_ldap /\ (\E i \in DOMAIN rows : Match(rows[i], a)) => Match(d, a)
      BY <1>2, ResultOfRows
<1> HIDE DEF d
<1>4. [email |-> a, data |-> d, result |-> Found(a)] \in UserType
      BY <1>1, <1>3 DEF UserType
<1>5. d # NoData /\ Asked(a) = {a} => a \in Listed[d]
      BY <1>3 DEF Found
<1>6. (\E e \in Found(a) : Match(e, a)) /\ settings.with_ldap => Match(d, a)
      BY <1>2, <1>3
<1>7. QED BY <1>4, <1>5, <1>6 DEF d

\* A result makes a user.
LEMMA ResultStep ==
  ASSUME IndInv, NEW a \in Addresses, Result(a)
  PROVE  IndInv'
<1>1. /\ TypeInv /\ Querying(a) /\ todo' = Tail(todo)
      /\ UNCHANGED <<settings, directory, recipients, sender, upc, sessions, messages, faults>>
      BY DEF IndInv, Result, NextAddress, envelope, counters
<1>2. PICK rows \in SetToSeqs(Found(a)) :
        AddUser([email |-> a, data |-> UserResult(rows, a), result |-> Found(a)])
      BY DEF Result
<1> DEFINE u == [email |-> a, data |-> UserResult(rows, a), result |-> Found(a)]
           n == Len(local_users) + 1
<1>3. /\ u \in UserType /\ u.email = a
      /\ u.data # NoData /\ Asked(a) = {a} => a \in Listed[u.data]
      /\ (\E e \in u.result : Match(e, a)) /\ settings.with_ldap => Match(u.data, a)
      BY <1>1, NewUserData
<1> AddUser(u)
    BY <1>2
<1> HIDE DEF u
<1>4. /\ local_users' \in Seq(UserType) /\ DOMAIN local_users' = DOMAIN local_users \cup {n}
      /\ \A i \in DOMAIN local_users : local_users'[i] = local_users[i]
      /\ local_users'[n] = u
      /\ \A b : Of(b)' = Of(b) \cup (IF u.email = b THEN {n} ELSE {})
      BY <1>1, <1>3, UserAdded
<1> HIDE DEF n
<1>5. TypeInv'
      BY <1>1, <1>4, NextTodo DEF TypeInv
<1>6. (\A b : IsLocal(b) => IsLocal(b)') /\ IsLocal(a)'
      BY <1>3, <1>4 DEF IsLocal
<1>7. FetchInv'
  <2>1. ~ExpandFails(a) /\ Found(a) # {} /\ faults' = 0 => IsLocal(a)'
        BY <1>6
  <2>2. \A b : IsLocal(b) => IsLocal(b)'
        BY <1>6
  <2>3. faults' \in {faults, faults + 1}
        BY <1>1
  <2>4. QED BY <1>1, <1>5, <2>1, <2>2, <2>3, QueriedStep
<1>8. OwnData'
  <2>1. OwnData' = \A i \in DOMAIN local_users' : Own(local_users'[i])
        BY <1>1, OwnLater
  <2>2. \A i \in DOMAIN local_users : Own(local_users[i])
        BY DEF IndInv, OwnData, Own
  <2>3. Own(u)
        BY <1>3 DEF Own
  <2>4. QED BY <1>4, <2>1, <2>2, <2>3
<1>9. QED BY <1>5, <1>7, <1>8 DEF IndInv

\* The modules run when the loop is through, and the message is done.
LEMMA ModulesStep ==
  ASSUME IndInv, Fetched \/ Done
  PROVE  IndInv'
<1>1. /\ UNCHANGED <<settings, directory, recipients, sender, local_users, todo, sessions, messages, faults>>
      /\ upc' \in {"modules", "idle"}
      BY DEF Fetched, Done, envelope, counters
<1>2. TypeInv'
      BY <1>1 DEF IndInv, TypeInv
<1>3. Expected' = Expected /\ \A a : IsLocal(a)' = IsLocal(a)
      BY <1>1, SameQueries DEF Expected, Envelope, IsLocal, Of
<1>4. FetchInv'
  <2>1. CASE Fetched
    <3>1. ToSet(todo) = {}
          BY <2>1 DEF Fetched, ToSet
    <3>2. QED BY <1>1, <1>3, <2>1, <3>1 DEF Fetched, IndInv, FetchInv
  <2>2. CASE Done
        BY <2>2 DEF Done, FetchInv
  <2>3. QED BY <2>1, <2>2
<1>5. OwnData'
      BY <1>1, SameQueries DEF IndInv, OwnData
<1>6. QED BY <1>2, <1>4, <1>5 DEF IndInv

(***************************************************************************)
(* The theorems.                                                           *)
(***************************************************************************)

\* Nobody is in the envelope yet.
LEMMA InitHolds == Init => IndInv
<1> SUFFICES ASSUME Init PROVE IndInv
    OBVIOUS
<1>1. TypeInv
      BY DEF Init, TypeInv
<1>2. FetchInv /\ OwnData
      BY DEF Init, FetchInv, OwnData
<1>3. QED BY <1>1, <1>2 DEF IndInv

LEMMA StepHolds == IndInv /\ [Next]_vars => IndInv'
<1> SUFFICES ASSUME IndInv, [Next]_vars PROVE IndInv'
    OBVIOUS
<1>1. CASE UNCHANGED vars
  <2>1. UNCHANGED <<settings, directory, recipients, sender, local_users, upc, todo, sessions, messages, faults>>
        BY <1>1 DEF vars, envelope, counters
  <2>2. TypeInv' /\ OwnData'
        BY <2>1, SameQueries DEF IndInv, TypeInv, OwnData
  <2>3. FetchInv'
        BY <2>1, SameQueries DEF IndInv, FetchInv, Expected, Envelope, IsLocal, Of
  <2>4. QED BY <2>2, <2>3 DEF IndInv
<1>2. QED BY <1>1, MessageStep, FetchStep, NothingStep, ResultStep, ModulesStep DEF Next

LEMMA Inductive == Spec => []IndInv
BY InitHolds, StepHolds, PTL DEF Spec

\* smf_internal_fetch_user_data: when the modules run, everybody in the envelope whom the
\* directory has is a local user, whatever other addresses could not be expanded.
THEOREM EverybodyIsFetched == Spec => []EverybodyFetched
<1>1. IndInv => EverybodyFetched
      BY DEF IndInv, FetchInv, Expected, Envelope, EverybodyFetched
<1>2. QED BY <1>1, Inductive, PTL

\* smf_internal_get_user_result: users get data that was found for them, and of several entries
\* one that mentions them, in whatever order the rows come.
THEOREM DataIsOwn == Spec => []OwnData
<1>1. IndInv => OwnData
      BY DEF IndInv
<1>2. QED BY <1>1, Inductive, PTL

\* The first user of an address stays the first.
LEMMA FirstStays ==
  ASSUME TypeInv, NEW u \in UserType, AddUser(u), NEW a \in Addresses, IsLocal(a)
  PROVE  IsLocal(a)' /\ GetUserData(a)' = GetUserData(a)
<1> DEFINE n == Len(local_users) + 1
<1>1. /\ Of(a)' = Of(a) \cup (IF u.email = a THEN {n} ELSE {})
      /\ \A i \in DOMAIN local_users : local_users'[i] = local_users[i]
      BY UserAdded
<1>2. Of(a) \in SUBSET Nat /\ Of(a) # {} /\ n \in Nat /\ (\A i \in Of(a) : i < n) /\ Of(a) \subseteq DOMAIN local_users
      BY DEF TypeInv, Of, IsLocal
<1> HIDE DEF n
<1>3. Min(Of(a)') = Min(Of(a))
  <2>1. CASE u.email = a
        BY <1>1, <1>2, <2>1, MinKept
  <2>2. CASE u.email # a
        BY <1>1, <2>2
  <2>3. QED BY <2>1, <2>2
<1>4. Min(Of(a)) \in DOMAIN local_users
      BY <1>2, MinLeast
<1>5. QED BY <1>1, <1>2, <1>3, <1>4 DEF IsLocal, GetUserData

\* smf_session_get_user_data: as long as a session lasts, what modules are told of a user is what
\* they were told before, though the user is looked up again for the next message.
THEOREM AnswersAreStable == Spec => AnswersStable
<1>1. IndInv /\ [Next]_vars =>
        [sessions' = sessions =>
           \A a \in Addresses : IsLocal(a) => IsLocal(a)' /\ GetUserData(a)' = GetUserData(a)]_vars
  <2> SUFFICES ASSUME TypeInv, [Next]_vars, sessions' = sessions, NEW a \in Addresses, IsLocal(a)
               PROVE  IsLocal(a)' /\ GetUserData(a)' = GetUserData(a)
      BY DEF IndInv
  <2>1. CASE local_users' = local_users
        BY <2>1 DEF IsLocal, Of, GetUserData
  <2>2. ASSUME NEW b \in Addresses, Result(b) PROVE IsLocal(a)' /\ GetUserData(a)' = GetUserData(a)
    <3>1. PICK rows \in SetToSeqs(Found(b)) :
            AddUser([email |-> b, data |-> UserResult(rows, b), result |-> Found(b)])
          BY <2>2 DEF Result
    <3>2. [email |-> b, data |-> UserResult(rows, b), result |-> Found(b)] \in UserType
          BY NewUserData
    <3>3. QED BY <3>1, <3>2, FirstStays
  <2>3. ASSUME NEW b \in Addresses, NEW s \in Addresses \cup {NoSender}, NEW new \in BOOLEAN, Message(b, s, new)
        PROVE  local_users' = local_users
        BY <2>3 DEF Message, TypeInv
  <2>4. CASE Fetch \/ Fetched \/ Done \/ UNCHANGED vars
        BY <2>1, <2>4 DEF Fetch, Fetched, Done, vars
  <2>5. ASSUME NEW b \in Addresses, ExpandError(b) \/ NoResult(b) PROVE local_users' = local_users
        BY <2>5 DEF ExpandError, NoResult
  <2>6. QED BY <2>1, <2>2, <2>3, <2>4, <2>5 DEF Next
<1>2. QED BY <1>1, Inductive, PTL DEF Spec, AnswersStable
=============================================================================
