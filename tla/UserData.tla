------------------------------ MODULE UserData ------------------------------
(***************************************************************************)
(* The user data of a session, smf_internal.c and smf_session.c: before    *)
(* the modules run, each recipient and the sender is looked up, and what   *)
(* was found is put in session->local_users, which modules then ask.  The  *)
(* list lives as long as the session, which may carry several messages.    *)
(*                                                                         *)
(* The directory (a database or an LDAP server) is a set of entries, which *)
(* may change between messages.                                            *)
(***************************************************************************)
EXTENDS Integers, Sequences, SequencesExt

CONSTANTS
  Addresses,   \* records [local, domain]; NoDomain for an address without "@"
  NoDomain,
  NoSender,    \* the sender is NULL or ""
  Entries, NoData,
  Listed,      \* for each entry, the addresses a query for which finds it
  Mentions,    \* for each entry, the addresses that occur in its result attributes
  Settings,
  MaxMessages, \* bound: the messages of one client
  MaxFaults    \* bound: lookups that fail

\* backend is "none" also when there is no user_query for it; options are the letters after the
\* "%" signs of user_query; with_ldap says how spmfilter was built, attributes whether
\* result_attributes is set.
SettingsType == [backend : {"none", "sql", "ldap"}, options : SUBSET {"s", "u", "d", "?"},
                 with_ldap : BOOLEAN, attributes : BOOLEAN]

ASSUME UserDataAssumption ==
  /\ NoSender \notin Addresses /\ NoData \notin Entries /\ IsFiniteSet(Entries)
  /\ Listed \in [Entries -> SUBSET Addresses] /\ Mentions \in [Entries -> SUBSET Addresses]
  /\ Settings \subseteq SettingsType
  /\ \A s \in Settings : s.backend = "ldap" => s.with_ldap
  /\ MaxMessages \in Nat /\ MaxFaults \in Nat

VARIABLES
  settings, directory,
  recipients, sender,  \* the envelope
  local_users,         \* each with email, data and, as a history, the result it is from
  upc, todo,           \* smf_internal_fetch_user_data: the addresses it has still to query
  sessions, messages, faults

envelope == <<recipients, sender>>
counters == <<sessions, messages, faults>>
vars     == <<settings, directory, envelope, local_users, upc, todo, counters>>

Init ==
  /\ settings \in Settings /\ directory \in SUBSET Entries
  /\ recipients = <<>> /\ sender = NoSender
  /\ local_users = <<>>
  /\ upc = "idle" /\ todo = <<>>
  /\ sessions = 1 /\ messages = 0 /\ faults = 0

\* A message: in a session of its own, or with its recipients added to those of the session
\* (see OwnRecipients in SmtpSession).
Message(a, s, new) ==
  /\ upc = "idle" /\ messages < MaxMessages
  /\ messages' = messages + 1 /\ upc' = "envelope"
  /\ IF new THEN sessions' = sessions + 1 /\ local_users' = <<>> /\ recipients' = <<a>>
     ELSE recipients' = Append(recipients, a) /\ UNCHANGED <<sessions, local_users>>
  /\ sender' = s
  /\ directory' \in SUBSET Entries
  /\ UNCHANGED <<settings, todo, faults>>

\* smf_modules_process calls smf_internal_fetch_user_data.
Fetch ==
  /\ upc = "envelope" /\ upc' = "fetch"
  /\ todo' = IF settings.backend = "none" THEN <<>>
             ELSE recipients \o (IF sender = NoSender THEN <<>> ELSE <<sender>>)
  /\ UNCHANGED <<settings, directory, envelope, local_users, counters>>

(***************************************************************************)
(* smf_internal_query_user.                                                *)
(***************************************************************************)

\* smf_core_expand_string fails for an unknown option, and for %d without a domain.
ExpandFails(a) ==
  "?" \in settings.options \/ ("d" \in settings.options /\ a.domain = NoDomain)

\* The addresses that the expanded query for a cannot tell from a.
Asked(a) == {b \in Addresses : /\ "s" \in settings.options => b = a
                               /\ "u" \in settings.options => b.local = a.local
                               /\ "d" \in settings.options => b.domain = a.domain}

\* What the directory has for the query.
Found(a) == {e \in directory : Listed[e] \cap Asked(a) # {}}

Querying(a) == upc = "fetch" /\ todo # <<>> /\ a = Head(todo)

\* Mutant: an address that fails ends the loop.
NextAddressUnless(failed) == todo' = IF failed THEN <<>> ELSE Tail(todo)

\* The loop over the addresses goes on, also after one that failed.
NextAddress(failed) == todo' = Tail(todo)

\* The query cannot be expanded.
ExpandError(a) ==
  /\ Querying(a) /\ ExpandFails(a)
  /\ NextAddress(TRUE)
  /\ UNCHANGED <<settings, directory, envelope, local_users, upc, counters>>

\* A lookup returns NULL when it fails, and the one in LDAP also when nothing was found.
NoResult(a) ==
  /\ Querying(a) /\ ~ExpandFails(a)
  /\ \/ settings.backend = "ldap" /\ Found(a) = {} /\ UNCHANGED faults
     \/ faults < MaxFaults /\ faults' = faults + 1
  /\ NextAddress(FALSE)
  /\ UNCHANGED <<settings, directory, envelope, local_users, upc, sessions, messages>>

\* smf_internal_user_match: the address occurs in a result attribute, perhaps as a part.
Match(e, a) == settings.attributes /\ a \in Mentions[e]

\* Mutant: the loop over the entries goes on after a match.
LastResult(rows, a) == IF rows = <<>> THEN NoData ELSE Last(rows)

\* smf_internal_get_user_result: the first entry that matches, or else the last one; without
\* LDAP in the build simply the first.
UserResult(rows, a) ==
  LET hits == {i \in DOMAIN rows : Match(rows[i], a)}
  IN  CASE rows = <<>> -> NoData
        [] rows # <<>> /\ ~settings.with_ldap -> Head(rows)
        [] rows # <<>> /\ settings.with_ldap /\ hits = {} -> Last(rows)
        [] OTHER -> rows[Min(hits)]

\* Mutant: new data goes to the front.
AddUserFirst(u) == local_users' = <<u>> \o local_users

AddUser(u) == local_users' = Append(local_users, u)

\* A result, which for SQL may have no row, in the order of the directory's choice.
Result(a) ==
  /\ Querying(a) /\ ~ExpandFails(a)
  /\ settings.backend = "ldap" => Found(a) # {}
  /\ \E rows \in SetToSeqs(Found(a)) :
       AddUser([email |-> a, data |-> UserResult(rows, a), result |-> Found(a)])
  /\ NextAddress(FALSE)
  /\ UNCHANGED <<settings, directory, envelope, upc, counters>>

(***************************************************************************)
(* The modules.                                                            *)
(***************************************************************************)

\* The modules run.
Fetched ==
  /\ upc = "fetch" /\ todo = <<>> /\ upc' = "modules"
  /\ UNCHANGED <<settings, directory, envelope, local_users, todo, counters>>

\* The message is done.
Done ==
  /\ upc = "modules" /\ upc' = "idle"
  /\ UNCHANGED <<settings, directory, envelope, local_users, todo, counters>>

Of(a) == {i \in DOMAIN local_users : local_users[i].email = a}

\* smf_session_is_local and smf_session_get_user_data.
IsLocal(a)     == Of(a) # {}
GetUserData(a) == local_users[Min(Of(a))].data

Next ==
  \/ \E a \in Addresses, s \in Addresses \cup {NoSender}, new \in BOOLEAN : Message(a, s, new)
  \/ Fetch
  \/ \E a \in Addresses : ExpandError(a) \/ NoResult(a) \/ Result(a)
  \/ Fetched \/ Done

Spec == Init /\ [][Next]_vars

(***************************************************************************)
(* Properties.                                                             *)
(***************************************************************************)

\* When the modules run, everybody in the envelope whom the directory has is local, though the
\* query of another address could not be expanded; unless a lookup failed
\* (smf_internal.c:376-392).
EverybodyFetched ==
  upc = "modules" /\ settings.backend # "none" /\ faults = 0 =>
    \A a \in ToSet(recipients) \cup ({sender} \ {NoSender}) :
      ~ExpandFails(a) /\ Found(a) # {} => IsLocal(a)

\* The data of a user is that user's: of a query for the whole address any entry is, and where
\* the query finds others too an entry that mentions the address is taken if there is one
\* (smf_internal.c:111-131).
OwnData ==
  \A i \in DOMAIN local_users :
    LET u == local_users[i] IN
      /\ u.data # NoData /\ Asked(u.email) = {u.email} => u.email \in Listed[u.data]
      /\ (\E e \in u.result : Match(e, u.email)) /\ settings.with_ldap => Match(u.data, u.email)

\* While a session lasts its modules get the same answer about a user, from message to message,
\* though the directory changes and the user is looked up again (smf_session.c:182-196).
AnswersStable ==
  [][sessions' = sessions =>
       \A a \in Addresses : IsLocal(a) => IsLocal(a)' /\ GetUserData(a)' = GetUserData(a)]_vars
=============================================================================
