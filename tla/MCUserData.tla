----------------------------- MODULE MCUserData -----------------------------
(* UserData for TLC: one address is part of another, one has no domain, and one entry is found
   by an address that its result attributes do not mention. *)
EXTENDS UserData, TLC

CONSTANTS ann, joann, bob, example, e1, e2, e3

Ann   == [local |-> ann, domain |-> example]
JoAnn == [local |-> joann, domain |-> example]
Bob   == [local |-> bob, domain |-> NoDomain]

People      == {Ann, JoAnn, Bob}
ListedIn    == e1 :> {Ann} @@ e2 :> {JoAnn} @@ e3 :> {Ann, Bob}
MentionedIn == e1 :> {Ann} @@ e2 :> {JoAnn, Ann} @@ e3 :> {}

Set(backend, options, with_ldap, attributes) ==
  [backend |-> backend, options |-> options, with_ldap |-> with_ldap, attributes |-> attributes]

Several == {Set("ldap", {"s"}, TRUE, TRUE), Set("ldap", {"d"}, TRUE, TRUE),
            Set("sql", {"u"}, FALSE, FALSE), Set("sql", {"u", "d"}, TRUE, FALSE),
            Set("ldap", {"s", "?"}, TRUE, FALSE), Set("none", {}, FALSE, FALSE)}
=============================================================================
