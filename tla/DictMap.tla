------------------------------- MODULE DictMap -------------------------------
(***************************************************************************)
(* What a dictionary promises: it is a finite function from keys to        *)
(* values.  smf_dict.c implements this (SmfDict).                          *)
(***************************************************************************)
EXTENDS Functions

CONSTANTS Keys, Values, NoVal

VARIABLES
  map,    \* the function
  got,    \* the result of the last look-up
  seen    \* what the last iteration over the dictionary came by

dvars == <<map, got, seen>>

Init == map = [k \in {} |-> NoVal] /\ got = NoVal /\ seen = {}

Set(k, v) ==
  /\ map' = [x \in DOMAIN map \cup {k} |-> IF x = k THEN v ELSE map[x]]
  /\ UNCHANGED <<got, seen>>

Remove(k) == map' = Restrict(map, DOMAIN map \ {k}) /\ UNCHANGED <<got, seen>>

Get(k) ==
  /\ got' = IF k \in DOMAIN map THEN map[k] ELSE NoVal
  /\ UNCHANGED <<map, seen>>

Iterate == seen' = {<<k, map[k]>> : k \in DOMAIN map} /\ UNCHANGED <<map, got>>

Next ==
  \/ \E k \in Keys : Remove(k) \/ Get(k) \/ \E v \in Values : Set(k, v)
  \/ Iterate

Spec == Init /\ [][Next]_dvars
=============================================================================
