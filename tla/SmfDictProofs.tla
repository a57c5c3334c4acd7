---------------------------- MODULE SmfDictProofs ----------------------------
(***************************************************************************)
(* Theorems about SmfDict, for every set of keys and values, every hash    *)
(* function, and arrays of any size.                                       *)
(***************************************************************************)
EXTENDS SmfDict, FiniteSetTheorems, WellFoundedInduction, TLAPS

USE DictAssumption

\* What stands next to a key belongs to it.
EntriesRight == \A i \in Used : hash[i] = Hash[key[i]] /\ val[i] \in Values

IndInv == TypeOK /\ n <= size /\ CountRight /\ KeysUnique /\ EntriesRight

(***************************************************************************)
(* The operators.                                                          *)
(***************************************************************************)

\* A set of naturals has a least element.
LEMMA LeastOfNat ==
  ASSUME NEW S \in SUBSET Nat, S # {}
  PROVE  Least(S) \in S
<1> DEFINE R == {ss \in Nat \X Nat : ss[1] < ss[2]}
<1>1. IsWellFoundedOn(R, Nat)
      BY NatLessThanWellFounded DEF OpToRel
<1>2. PICK x \in S : \A y \in S : ~(<<y, x>> \in R)
      BY <1>1, WFMin
<1>3. ASSUME NEW y \in S PROVE x <= y
  <2>1. y \in Nat /\ x \in Nat /\ <<y, x>> \in Nat \X Nat /\ ~(<<y, x>> \in R)
        BY <1>2
  <2>2. ~(<<y, x>>[1] < <<y, x>>[2])
        BY <2>1
  <2>3. QED BY <2>1, <2>2
<1>4. QED BY <1>3 DEF Least

\* The slots in use are finitely many naturals.
LEMMA UsedFinite ==
  ASSUME TypeOK
  PROVE  IsFiniteSet(Used) /\ Used \subseteq Slots /\ Slots \subseteq Nat
<1>1. IsFiniteSet(Slots)
      BY FS_Interval DEF TypeOK, Slots
<1>2. QED BY <1>1, FS_Subset DEF TypeOK, Used, Slots

\* smf_dict_get and the search of smf_dict_set find the one slot that has the key, if any.
LEMMA Search ==
  ASSUME IndInv, NEW k \in Keys
  PROVE  /\ Matches(k) = {i \in Used : key[i] = k}
         /\ \A i \in Used : key[i] = k => Matches(k) = {i} /\ Least(Matches(k)) = i
<1>1. Matches(k) = {i \in Used : key[i] = k}
      BY DEF Matches, IndInv, EntriesRight, Used
<1>2. ASSUME NEW i \in Used, key[i] = k PROVE Matches(k) = {i}
      BY <1>1, <1>2 DEF IndInv, KeysUnique
<1>3. ASSUME NEW i \in Used PROVE Least({i}) = i
      BY UsedFinite DEF Least, IndInv
<1>4. QED BY <1>1, <1>2, <1>3

\* The value of a key is the one in its slot.
LEMMA ValueFound ==
  ASSUME IndInv, NEW i \in Used
  PROVE  key[i] \in Keys /\ Value(key[i]) = val[i]
<1>1. key[i] \in Keys
      BY DEF IndInv, TypeOK, Used
<1>2. QED BY <1>1, Search DEF Value

\* A key that is in no slot has no value.
LEMMA ValueMissing ==
  ASSUME IndInv, NEW k \in Keys, \A i \in Used : key[i] # k
  PROVE  Matches(k) = {} /\ Value(k) = NoVal
BY Search DEF Value

(***************************************************************************)
(* The operations.                                                         *)
(***************************************************************************)

\* Replacing the value of a key touches the slot of that key only.
LEMMA ReplaceEffect ==
  ASSUME IndInv, NEW k \in Keys, NEW v \in Values, Replace(k, v)
  PROVE  \E i \in Used :
           /\ key[i] = k /\ val' = [val EXCEPT ![i] = v]
           /\ UNCHANGED <<size, n, key, hash, got, seen>>
<1>1. PICK i \in Used : key[i] = k
      BY Search DEF Replace
<1>2. QED BY <1>1, Search DEF Replace

\* A new key goes to a slot that was not in use, and the others stay where they are.
LEMMA InsertEffect ==
  ASSUME IndInv, NEW k \in Keys, NEW v \in Values, Insert(k, v)
  PROVE  /\ TypeOK' /\ n' = n + 1 /\ n' <= size' /\ UNCHANGED <<got, seen>>
         /\ \A j \in Used : key[j] # k
         /\ \E i \in Slots' \ Used :
              /\ Used' = Used \cup {i} /\ key'[i] = k /\ val'[i] = v /\ hash'[i] = Hash[k]
              /\ \A j \in Used : key'[j] = key[j] /\ val'[j] = val[j] /\ hash'[j] = hash[j]
<1> DEFINE full == n = size
           sz == IF full THEN 2 * size ELSE size
           K == IF full THEN Doubled(key, NoKey) ELSE key
           V == IF full THEN Doubled(val, NoVal) ELSE val
           H == IF full THEN Doubled(hash, 0) ELSE hash
           i == EmptySlot(K)
           holes == {j \in DOMAIN K : K[j] = NoKey}
<1>1. /\ size' = sz /\ n' = n + 1 /\ key' = [K EXCEPT ![i] = k] /\ val' = [V EXCEPT ![i] = v]
      /\ hash' = [H EXCEPT ![i] = Hash[k]] /\ UNCHANGED <<got, seen>>
      BY DEF Insert
<1>2. /\ size \in Nat \ {0} /\ n \in Nat /\ n <= size /\ n < sz /\ sz \in Nat \ {0} /\ size <= sz
      BY DEF IndInv, TypeOK
<1>3. /\ K \in [0..(sz - 1) -> Keys \cup {NoKey}]
      /\ V \in [0..(sz - 1) -> Values \cup {NoVal}]
      /\ H \in [0..(sz - 1) -> Nat]
      /\ \A j \in Slots : K[j] = key[j] /\ V[j] = val[j] /\ H[j] = hash[j]
      /\ \A j \in 0..(sz - 1) : j \notin Slots => K[j] = NoKey
  <2>1. CASE full
        BY <2>1, <1>2 DEF Doubled, IndInv, TypeOK, Slots
  <2>2. CASE ~full
        BY <2>2, <1>2 DEF IndInv, TypeOK, Slots
  <2>3. QED BY <2>1, <2>2
<1>4. Used = {j \in 0..(sz - 1) : K[j] # NoKey}
      BY <1>2, <1>3 DEF Used, Slots
<1>5. holes # {}
  <2>1. Cardinality(Used) = n
        BY DEF IndInv, CountRight
  <2>2. Cardinality(0..(sz - 1)) = sz
        BY <1>2, FS_Interval
  <2>3. Used # 0..(sz - 1)
        BY <1>2, <2>1, <2>2
  <2>4. QED BY <1>3, <1>4, <2>3
<1>6. i \in holes
  <2>1. holes \in SUBSET Nat /\ {j \in holes : j >= n} \in SUBSET Nat
        BY <1>2, <1>3
  <2>2. CASE \E j \in holes : j >= n
    <3>1. i = Least({j \in holes : j >= n}) /\ {j \in holes : j >= n} # {}
          BY <2>2 DEF EmptySlot
    <3>2. QED BY <2>1, <3>1, LeastOfNat
  <2>3. CASE ~\E j \in holes : j >= n
    <3>1. i = Least(holes)
          BY <2>3 DEF EmptySlot
    <3>2. QED BY <1>5, <2>1, <3>1, LeastOfNat
  <2>4. QED BY <2>2, <2>3
<1> HIDE DEF sz, K, V, H, i
<1>7. i \in 0..(sz - 1) /\ K[i] = NoKey
      BY <1>3, <1>6
<1>8. Slots' = 0..(sz - 1)
      BY <1>1 DEF Slots
<1>9. Used' = Used \cup {i} /\ i \notin Used
  <2>1. Used' = {j \in 0..(sz - 1) : key'[j] # NoKey}
        BY <1>8 DEF Used
  <2>2. \A j \in 0..(sz - 1) : key'[j] = IF j = i THEN k ELSE K[j]
        BY <1>1, <1>3
  <2>3. QED BY <1>4, <1>7, <2>1, <2>2
<1>10. \A j \in Used : j \in Slots /\ j \in 0..(sz - 1) /\ j # i
       BY <1>4, <1>9 DEF Used
<1>11. \A j \in Used : key'[j] = key[j] /\ val'[j] = val[j] /\ hash'[j] = hash[j]
       BY <1>1, <1>3, <1>10
<1>12. key'[i] = k /\ val'[i] = v /\ hash'[i] = Hash[k]
       BY <1>1, <1>3, <1>7
<1>13. \A j \in Used : key[j] # k
  <2>1. n = 0 \/ Matches(k) = {}
        BY DEF Insert
  <2>2. n = 0 => Used = {}
        BY UsedFinite, FS_EmptySet DEF IndInv, CountRight
  <2>3. QED BY <2>1, <2>2, Search
<1>14. TypeOK'
  <2>1. /\ key' \in [0..(sz - 1) -> Keys \cup {NoKey}]
        /\ val' \in [0..(sz - 1) -> Values \cup {NoVal}]
        /\ hash' \in [0..(sz - 1) -> Nat]
        BY <1>1, <1>3
  <2>2. size' \in Nat \ {0} /\ n' \in Nat
        BY <1>1, <1>2
  <2>3. QED BY <1>1, <1>8, <2>1, <2>2 DEF TypeOK, IndInv
<1>15. n' <= size'
       BY <1>1, <1>2
<1>16. QED BY <1>1, <1>7, <1>8, <1>9, <1>11, <1>12, <1>13, <1>14, <1>15

\* Removing a key empties its slot.
LEMMA RemoveEffect ==
  ASSUME IndInv, NEW k \in Keys, Remove(k)
  PROVE  /\ UNCHANGED <<size, got, seen>>
         /\ \/ UNCHANGED <<n, key, val, hash>> /\ \A j \in Used : key[j] # k
            \/ \E i \in Used :
                 /\ key[i] = k /\ n' = n - 1
                 /\ key' = [key EXCEPT ![i] = NoKey] /\ val' = [val EXCEPT ![i] = NoVal]
                 /\ hash' = [hash EXCEPT ![i] = 0]
<1>1. UNCHANGED <<size, got, seen>>
      BY DEF Remove
<1>2. CASE Matches(k) = {}
      BY <1>1, <1>2, Search DEF Remove, arrays
<1>3. CASE Matches(k) # {}
  <2>1. PICK i \in Used : key[i] = k
        BY <1>3, Search
  <2>2. Least(Matches(k)) = i
        BY <2>1, Search
  <2>3. QED BY <1>1, <1>3, <2>1, <2>2 DEF Remove
<1>4. QED BY <1>2, <1>3

(***************************************************************************)
(* The invariant.                                                          *)
(***************************************************************************)

\* The empty dictionary.
LEMMA InitInd == Init => IndInv
<1> SUFFICES ASSUME Init PROVE IndInv
    OBVIOUS
<1>1. Used = {}
      BY DEF Init, Used
<1>2. TypeOK
      BY DEF Init, TypeOK, Slots
<1>3. n <= size /\ n = 0
      BY DEF Init
<1>4. QED BY <1>1, <1>2, <1>3, FS_EmptySet DEF IndInv, CountRight, KeysUnique, EntriesRight

\* A new value for a key that is there.
LEMMA ReplaceInd ==
  ASSUME IndInv, NEW k \in Keys, NEW v \in Values, Replace(k, v)
  PROVE  IndInv'
<1>1. PICK i \in Used : /\ val' = [val EXCEPT ![i] = v]
                        /\ UNCHANGED <<size, n, key, hash, got, seen>>
      BY ReplaceEffect
<1>2. Used' = Used /\ Slots' = Slots
      BY <1>1 DEF Used, Slots
<1>3. TypeOK'
      BY <1>1, <1>2 DEF IndInv, TypeOK
<1>4. EntriesRight'
      BY <1>1, <1>2 DEF IndInv, EntriesRight, TypeOK, Used
<1>5. QED BY <1>1, <1>2, <1>3, <1>4 DEF IndInv, CountRight, KeysUnique

\* A new key.
LEMMA InsertInd ==
  ASSUME IndInv, NEW k \in Keys, NEW v \in Values, Insert(k, v)
  PROVE  IndInv'
<1>1. /\ TypeOK' /\ n' = n + 1 /\ n' <= size' /\ \A j \in Used : key[j] # k
      BY InsertEffect
<1>2. PICK i \in Slots' \ Used :
        /\ Used' = Used \cup {i} /\ key'[i] = k /\ val'[i] = v /\ hash'[i] = Hash[k]
        /\ \A j \in Used : key'[j] = key[j] /\ val'[j] = val[j] /\ hash'[j] = hash[j]
      BY InsertEffect
<1>3. CountRight'
      BY <1>1, <1>2, UsedFinite, FS_AddElement DEF IndInv, CountRight
<1>4. KeysUnique'
      BY <1>1, <1>2 DEF IndInv, KeysUnique
<1>5. EntriesRight'
      BY <1>2 DEF IndInv, EntriesRight
<1>6. QED BY <1>1, <1>3, <1>4, <1>5 DEF IndInv

\* A key is taken out.
LEMMA RemoveInd ==
  ASSUME IndInv, NEW k \in Keys, Remove(k)
  PROVE  IndInv'
<1>1. UNCHANGED <<size, got, seen>>
      BY RemoveEffect
<1>2. CASE UNCHANGED <<n, key, val, hash>>
      BY <1>1, <1>2
         DEF IndInv, TypeOK, CountRight, KeysUnique, EntriesRight, Used, Slots
<1>3. CASE ~UNCHANGED <<n, key, val, hash>>
  <2>1. PICK i \in Used :
          /\ n' = n - 1
          /\ key' = [key EXCEPT ![i] = NoKey] /\ val' = [val EXCEPT ![i] = NoVal]
          /\ hash' = [hash EXCEPT ![i] = 0]
        BY <1>3, RemoveEffect
  <2>2. Slots' = Slots /\ Used' = Used \ {i}
        BY <1>1, <2>1 DEF Used, Slots, IndInv, TypeOK
  <2>3. \A j \in Used' : key'[j] = key[j] /\ val'[j] = val[j] /\ hash'[j] = hash[j]
        BY <2>1, <2>2 DEF IndInv, TypeOK, Used
  <2>4. CountRight' /\ n' \in Nat /\ n' <= size'
    <3>1. IsFiniteSet(Used) /\ Cardinality(Used) = n /\ n \in Nat
          BY UsedFinite DEF IndInv, CountRight, TypeOK
    <3>2. Cardinality(Used') = n - 1
          BY <2>2, <3>1, FS_RemoveElement
    <3>3. Cardinality(Used') \in Nat
          BY <2>2, <3>1, FS_RemoveElement, FS_CardinalityType
    <3>4. QED BY <1>1, <2>1, <3>1, <3>2, <3>3 DEF CountRight, IndInv, TypeOK
  <2>5. TypeOK'
        BY <1>1, <2>1, <2>2, <2>4 DEF IndInv, TypeOK
  <2>6. KeysUnique' /\ EntriesRight'
        BY <2>2, <2>3 DEF IndInv, KeysUnique, EntriesRight
  <2>7. QED BY <2>4, <2>5, <2>6 DEF IndInv
<1>4. QED BY <1>2, <1>3

\* What smf_dict_get returns is a value or NULL.
LEMMA ValueType ==
  ASSUME IndInv, NEW k \in Keys
  PROVE  Value(k) \in Values \cup {NoVal}
<1>1. CASE \E i \in Used : key[i] = k
      BY <1>1, ValueFound DEF IndInv, EntriesRight
<1>2. CASE \A i \in Used : key[i] # k
      BY <1>2, ValueMissing
<1>3. QED BY <1>1, <1>2

\* Every operation keeps the invariant.
LEMMA StepInd == IndInv /\ [Next]_vars => IndInv'
<1> SUFFICES ASSUME IndInv, [Next]_vars PROVE IndInv'
    OBVIOUS
<1>1. ASSUME NEW k \in Keys, NEW v \in Values, Replace(k, v) \/ Insert(k, v) PROVE IndInv'
      BY <1>1, ReplaceInd, InsertInd
<1>2. ASSUME NEW k \in Keys, Remove(k) PROVE IndInv'
      BY <1>2, RemoveInd
<1>3. CASE UNCHANGED <<size, n, key, val, hash>>
           /\ got' \in Values \cup {NoVal} /\ seen' \subseteq Keys \X (Values \cup {NoVal})
      BY <1>3 DEF IndInv, TypeOK, CountRight, KeysUnique, EntriesRight, Used, Slots
<1>4. ASSUME NEW k \in Keys, Get(k) PROVE IndInv'
      BY <1>3, <1>4, ValueType DEF Get, arrays, IndInv, TypeOK
<1>5. CASE MapKeys
  <2>1. \A i \in Used : <<key[i], Value(key[i])>> \in Keys \X (Values \cup {NoVal})
        BY ValueFound, ValueType
  <2>2. QED BY <1>3, <1>5, <2>1 DEF MapKeys, arrays, IndInv, TypeOK
<1>6. CASE UNCHANGED vars
      BY <1>3, <1>6 DEF vars, arrays, IndInv, TypeOK
<1>7. QED BY <1>1, <1>2, <1>4, <1>5, <1>6 DEF Next

\* The invariant holds all the time.
LEMMA AlwaysInd == Spec => []IndInv
BY InitInd, StepInd, PTL DEF Spec

(***************************************************************************)
(* The theorems.                                                           *)
(***************************************************************************)

\* n counts the keys of the dictionary, so that the loop of smf_dict_set that looks for an
\* empty slot ends.
THEOREM CountHolds == Spec => []CountRight
<1>1. IndInv => CountRight
      BY DEF IndInv
<1>2. QED BY <1>1, AlwaysInd, PTL

\* No key is in two slots, whatever was removed before and however hashes collide: the search
\* of smf_dict_set misses none.
THEOREM UniqueHolds == Spec => []KeysUnique
<1>1. IndInv => KeysUnique
      BY DEF IndInv
<1>2. QED BY <1>1, AlwaysInd, PTL

(***************************************************************************)
(* The dictionary implements the map.                                      *)
(***************************************************************************)

\* The map is what the slots in use say.
ContentsRight ==
  /\ Contents = [k \in DOMAIN Contents |-> Contents[k]]
  /\ DOMAIN Contents = {key[i] : i \in Used}
  /\ \A i \in Used : key[i] \in Keys /\ Contents[key[i]] = val[i]

LEMMA ContentsAre == IndInv => ContentsRight
<1> SUFFICES ASSUME IndInv PROVE ContentsRight
    OBVIOUS
<1>1. \A i \in Used : key[i] \in Keys /\ Value(key[i]) = val[i]
      BY ValueFound
<1>2. QED BY <1>1 DEF ContentsRight, Contents

LEMMA ContentsAreNext == IndInv' => ContentsRight'
BY ContentsAre, PTL

\* The empty dictionary is the empty map.
LEMMA InitMaps == Init => Promise!Init
<1> SUFFICES ASSUME Init PROVE Promise!Init
    OBVIOUS
<1>1. {key[i] : i \in Used} = {}
      BY DEF Init, Used
<1>2. Contents = [k \in {} |-> NoVal]
      BY <1>1 DEF Contents
<1>3. QED BY <1>2 DEF Init, Promise!Init

\* smf_dict_set sets the value of its key and of no other.
LEMMA SetMaps ==
  ASSUME IndInv, IndInv', NEW k \in Keys, NEW v \in Values, Replace(k, v) \/ Insert(k, v)
  PROVE  Promise!Set(k, v)
<1> USE ContentsAre, ContentsAreNext DEF ContentsRight
<1>1. CASE Replace(k, v)
  <2>1. PICK i \in Used : /\ key[i] = k /\ val' = [val EXCEPT ![i] = v]
                          /\ UNCHANGED <<size, n, key, hash, got, seen>>
        BY <1>1, ReplaceEffect
  <2>2. Used' = Used /\ \A j \in Used : j # i => key[j] # k
        BY <2>1 DEF Used, Slots, IndInv, KeysUnique
  <2>3. \A j \in Used : val'[j] = IF j = i THEN v ELSE val[j]
        BY <2>1 DEF IndInv, TypeOK, Used
  <2>4. DOMAIN Contents' = DOMAIN Contents \cup {k}
        BY <2>1, <2>2
  <2>5. \A x \in DOMAIN Contents' : Contents'[x] = IF x = k THEN v ELSE Contents[x]
        BY <2>1, <2>2, <2>3
  <2>6. QED BY <2>1, <2>4, <2>5 DEF Promise!Set
<1>2. CASE Insert(k, v)
  <2>1. UNCHANGED <<got, seen>> /\ \A j \in Used : key[j] # k
        BY <1>2, InsertEffect
  <2>2. PICK i \in Slots' \ Used :
          /\ Used' = Used \cup {i} /\ key'[i] = k /\ val'[i] = v
          /\ \A j \in Used : key'[j] = key[j] /\ val'[j] = val[j]
        BY <1>2, InsertEffect
  <2>3. DOMAIN Contents' = DOMAIN Contents \cup {k}
        BY <2>2
  <2>4. \A x \in DOMAIN Contents' : Contents'[x] = IF x = k THEN v ELSE Contents[x]
        BY <2>1, <2>2
  <2>5. QED BY <2>1, <2>3, <2>4 DEF Promise!Set
<1>3. QED BY <1>1, <1>2

\* smf_dict_remove takes its key out and leaves the others.
LEMMA RemoveMaps ==
  ASSUME IndInv, IndInv', NEW k \in Keys, Remove(k)
  PROVE  Promise!Remove(k)
<1> USE ContentsAre, ContentsAreNext DEF ContentsRight
<1>1. UNCHANGED <<size, got, seen>>
      BY RemoveEffect
<1>2. DOMAIN Contents' = DOMAIN Contents \ {k}
      /\ \A x \in DOMAIN Contents' : Contents'[x] = Contents[x]
  <2>1. CASE UNCHANGED <<n, key, val, hash>> /\ \A j \in Used : key[j] # k
    <3>1. Used' = Used
          BY <1>1, <2>1 DEF Used, Slots
    <3>2. QED BY <2>1, <3>1
  <2>2. ASSUME NEW i \in Used, key[i] = k, n' = n - 1,
               key' = [key EXCEPT ![i] = NoKey], val' = [val EXCEPT ![i] = NoVal]
        PROVE  /\ DOMAIN Contents' = DOMAIN Contents \ {k}
               /\ \A x \in DOMAIN Contents' : Contents'[x] = Contents[x]
    <3>1. Used' = Used \ {i} /\ \A j \in Used : j # i => key[j] # k
          BY <1>1, <2>2 DEF Used, Slots, IndInv, TypeOK, KeysUnique
    <3>2. \A j \in Used' : key'[j] = key[j] /\ val'[j] = val[j]
          BY <2>2, <3>1 DEF IndInv, TypeOK, Used
    <3>3. QED BY <2>2, <3>1, <3>2
  <2>3. QED BY <2>1, <2>2, RemoveEffect
<1>3. Contents' = [x \in DOMAIN Contents \ {k} |-> Contents[x]]
      BY <1>2
<1>4. QED BY <1>1, <1>3 DEF Promise!Remove, Promise!Restrict

\* smf_dict_get and smf_dict_map tell what the map holds.
LEMMA ReadsMap ==
  ASSUME IndInv, UNCHANGED <<size, n, key, val, hash>>
  PROVE  /\ UNCHANGED Contents
         /\ \A k \in Keys : Value(k) = IF k \in DOMAIN Contents THEN Contents[k] ELSE NoVal
         /\ {<<key[i], Value(key[i])>> : i \in Used} = {<<k, Contents[k]>> : k \in DOMAIN Contents}
<1> USE ContentsAre DEF ContentsRight
<1>1. UNCHANGED Contents
      BY DEF Contents, Value, Matches, Used, Slots, Least
<1>2. \A i \in Used : Value(key[i]) = val[i]
      BY ValueFound
<1>3. \A k \in Keys : Value(k) = IF k \in DOMAIN Contents THEN Contents[k] ELSE NoVal
      BY <1>2, ValueMissing
<1>4. QED BY <1>1, <1>2, <1>3

\* Every operation of the dictionary is one of the map.
LEMMA StepMaps == IndInv /\ IndInv' /\ [Next]_vars => [Promise!Next]_(Promise!dvars)
<1> SUFFICES ASSUME IndInv, IndInv', [Next]_vars PROVE [Promise!Next]_(Promise!dvars)
    OBVIOUS
<1>1. ASSUME NEW k \in Keys, NEW v \in Values, Replace(k, v) \/ Insert(k, v) PROVE Promise!Next
      BY <1>1, SetMaps DEF Promise!Next
<1>2. ASSUME NEW k \in Keys, Remove(k) PROVE Promise!Next
      BY <1>2, RemoveMaps DEF Promise!Next
<1>3. ASSUME NEW k \in Keys, Get(k) PROVE Promise!Next
  <2>1. Promise!Get(k)
        BY <1>3, ReadsMap DEF Get, arrays, Promise!Get
  <2>2. QED BY <2>1 DEF Promise!Next
<1>4. CASE MapKeys
  <2>1. Promise!Iterate
        BY <1>4, ReadsMap DEF MapKeys, arrays, Promise!Iterate
  <2>2. QED BY <2>1 DEF Promise!Next
<1>5. CASE UNCHANGED vars
      BY <1>5, ReadsMap DEF vars, arrays, Promise!dvars
<1>6. QED BY <1>1, <1>2, <1>3, <1>4, <1>5 DEF Next

\* In whatever order keys are set, removed and set again, the dictionary is a function from
\* keys to values: a key has the value it was set to last, and none once it was removed.
THEOREM MapImplemented == Spec => ImplementsMap
BY AlwaysInd, InitMaps, StepMaps, PTL DEF Spec, ImplementsMap, Promise!Spec
=============================================================================
