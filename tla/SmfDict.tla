------------------------------- MODULE SmfDict -------------------------------
(***************************************************************************)
(* The dictionary of smf_dict.c, in which lookup results, user data and    *)
(* SMTP codes are kept: three arrays of the same size, searched from the   *)
(* start, with holes where keys were removed; they double when full.       *)
(*                                                                         *)
(* Memory is taken to be available.                                        *)
(***************************************************************************)
EXTENDS Integers, FiniteSets

CONSTANTS
  Keys, Values,
  Hash,         \* _dict_hash; two keys may have the same
  NoKey, NoVal, \* NULL
  InitialSize,  \* 128 in the source
  MaxSize       \* bound: the arrays do not grow beyond it

ASSUME DictAssumption ==
  /\ NoKey \notin Keys /\ NoVal \notin Values
  /\ Hash \in [Keys -> Nat]
  /\ InitialSize \in Nat \ {0} /\ MaxSize \in Nat

VARIABLES
  size, n,         \* length of the arrays, number of keys
  key, val, hash,  \* the arrays
  got,             \* the result of the last smf_dict_get
  seen             \* the keys and values the last smf_dict_map called its function with

arrays == <<key, val, hash>>
vars   == <<size, n, arrays, got, seen>>

Slots == 0..(size - 1)
Used  == {i \in Slots : key[i] # NoKey}

\* smf_dict_new: calloc has cleared the arrays.
Init ==
  /\ size = InitialSize /\ n = 0
  /\ key = [i \in Slots |-> NoKey] /\ val = [i \in Slots |-> NoVal] /\ hash = [i \in Slots |-> 0]
  /\ got = NoVal /\ seen = {}

Least(S) == CHOOSE i \in S : \A j \in S : i <= j

\* Mutant: the search ends at the first hole.
MatchesToHole(k) ==
  {i \in Slots : key[i] = k /\ hash[i] = Hash[k] /\ \A j \in Slots : j < i => key[j] # NoKey}

\* The slots at which the search for key k stops.
Matches(k) == {i \in Slots : key[i] # NoKey /\ hash[i] = Hash[k] /\ key[i] = k}

\* smf_dict_set of a key that is there.
Replace(k, v) ==
  /\ n > 0 /\ Matches(k) # {}
  /\ val' = [val EXCEPT ![Least(Matches(k))] = v]
  /\ UNCHANGED <<size, n, key, hash, got, seen>>

\* _mem_double, with the second half cleared.
Doubled(array, null) == [i \in 0..(2 * size - 1) |-> IF i < size THEN array[i] ELSE null]

\* Mutant: the search for an empty slot does not wrap.
InsertLast(array) == n

\* The first empty slot from n on, around the end.
EmptySlot(array) ==
  LET holes == {i \in DOMAIN array : array[i] = NoKey}
  IN  Least(IF \E i \in holes : i >= n THEN {i \in holes : i >= n} ELSE holes)

\* smf_dict_set of a key that is not.
Insert(k, v) ==
  /\ n = 0 \/ Matches(k) = {}
  /\ n = size => 2 * size <= MaxSize
  /\ LET full == n = size
         K == IF full THEN Doubled(key, NoKey) ELSE key
         V == IF full THEN Doubled(val, NoVal) ELSE val
         H == IF full THEN Doubled(hash, 0) ELSE hash
         i == EmptySlot(K)
     IN  /\ key' = [K EXCEPT ![i] = k]
         /\ val' = [V EXCEPT ![i] = v]
         /\ hash' = [H EXCEPT ![i] = Hash[k]]
         /\ size' = IF full THEN 2 * size ELSE size
  /\ n' = n + 1
  /\ UNCHANGED <<got, seen>>

\* Mutant: the keys are not counted down.
RemoveUncounted(k) ==
  /\ IF Matches(k) = {} THEN UNCHANGED arrays
     ELSE LET i == Least(Matches(k)) IN
            key' = [key EXCEPT ![i] = NoKey] /\ val' = [val EXCEPT ![i] = NoVal]
              /\ hash' = [hash EXCEPT ![i] = 0]
  /\ UNCHANGED <<size, n, got, seen>>

Remove(k) ==
  /\ IF Matches(k) = {} THEN UNCHANGED <<n, arrays>>
     ELSE LET i == Least(Matches(k)) IN
            /\ key' = [key EXCEPT ![i] = NoKey]
            /\ val' = [val EXCEPT ![i] = NoVal]
            /\ hash' = [hash EXCEPT ![i] = 0]
            /\ n' = n - 1
  /\ UNCHANGED <<size, got, seen>>

\* smf_dict_get.
Value(k) == IF Matches(k) = {} THEN NoVal ELSE val[Least(Matches(k))]

Get(k) == got' = Value(k) /\ UNCHANGED <<size, n, arrays, seen>>

\* smf_dict_map: the keys of smf_dict_get_keys, and what smf_dict_get finds for each.
MapKeys ==
  /\ seen' = {<<key[i], Value(key[i])>> : i \in Used}
  /\ UNCHANGED <<size, n, arrays, got>>

Next ==
  \/ \E k \in Keys, v \in Values : Replace(k, v) \/ Insert(k, v)
  \/ \E k \in Keys : Remove(k) \/ Get(k)
  \/ MapKeys

Spec == Init /\ [][Next]_vars

(***************************************************************************)
(* Properties.                                                             *)
(***************************************************************************)

\* The types; the three arrays have the same length.
TypeOK ==
  /\ size \in Nat \ {0} /\ n \in Nat
  /\ key \in [Slots -> Keys \cup {NoKey}]
  /\ val \in [Slots -> Values \cup {NoVal}]
  /\ hash \in [Slots -> Nat]
  /\ got \in Values \cup {NoVal}
  /\ seen \subseteq Keys \X (Values \cup {NoVal})

\* n counts the keys, so that the search for an empty slot, which has no other end, finds one
\* when n < size (smf_dict.c:117-124).
CountRight == n = Cardinality(Used)

\* A removed key leaves a hole before keys that were set earlier; the search of smf_dict_set
\* goes past it, so that no key is ever there twice (smf_dict.c:91-105).
KeysUnique == \A i, j \in Used : key[i] = key[j] => i = j

\* In whatever order keys are set, removed and set again, and however their hashes collide,
\* the dictionary is a function from keys to values (smf_dict.c).
Contents == [k \in {key[i] : i \in Used} |-> Value(k)]
Promise  == INSTANCE DictMap WITH map <- Contents
ImplementsMap == Promise!Spec
=============================================================================
