---------------------------- MODULE NexthopProofs ----------------------------
(***************************************************************************)
(* Theorems about Nexthop, for every set of recipients and hosts and any   *)
(* number of messages and blocks.                                          *)
(***************************************************************************)
EXTENDS Nexthop, TLAPS

SmtpPcs == {"envelope", "create", "sender", "message", "rcpts", "start"}

Types ==
  /\ nexthop \in Hosts \cup {Path, NULL} /\ messages \in Nat
  /\ env \in [sender : {NULL, "client", "<>"}, rcpts : SUBSET Rcpts, nexthop : Hosts \cup {Path, NULL},
              auth : BOOLEAN]
  /\ source \in [at : {"file", "memory"}, rcpts : SUBSET Rcpts]
  /\ pc \in {"idle", "modules", "returned", "open", "copy"} \cup SmtpPcs

\* Every step keeps the types.
LEMMA TypesStep == Types /\ [Next]_vars => Types'
<1> SUFFICES ASSUME Types, [Next]_vars PROVE Types'
    OBVIOUS
<1> USE DEF Types, SmtpPcs, envelope, Returns, SmtpUnchanged, FileUnchanged
<1>1. ASSUME NEW R \in SUBSET Rcpts, NEW H \in SUBSET Rcpts, NEW at \in {"file", "memory"},
             NewMessage(R, H, at)
      PROVE  Types'
  <2>1. /\ messages' \in Nat /\ pc' = "modules" /\ UNCHANGED <<nexthop, exists, debug>>
        /\ source' = [at |-> at, rcpts |-> H]
        BY <1>1 DEF NewMessage
  <2>2. env' = env \/ env' = [env EXCEPT !.sender = "client", !.rcpts = @ \cup R]
        BY <1>1 DEF NewMessage
  <2>3. QED BY <2>1, <2>2
<1>2. ASSUME NEW h \in Hosts, NameNexthop(h) \/ SetNexthop(h) PROVE Types'
      BY <1>2 DEF NameNexthop, SetNexthop
<1>3. CASE Find \/ NextMessage
      BY <1>3 DEF Find, NextMessage
<1>4. CASE OpenFiles \/ CopyBlock \/ EndOfFile
      BY <1>4 DEF OpenFiles, CopyBlock, EndOfFile
<1>5. CASE FillEnvelope
      BY <1>5, ZenonT(60) DEF FillEnvelope, HopOf
<1>6. CASE CreateSession \/ SetReversePath \/ SetMessage \/ AddRecipients \/ StartFails
      BY <1>6 DEF CreateSession, SetReversePath, SetMessage, AddRecipients, StartFails
<1>7. ASSUME NEW T \in SUBSET Rcpts, Transfer(T) PROVE Types'
      BY <1>7 DEF Transfer
<1>8. CASE UNCHANGED vars
      BY <1>8 DEF vars
<1> HIDE DEF Types
<1>9. QED BY <1>1, <1>2, <1>3, <1>4, <1>5, <1>6, <1>7, <1>8 DEF Next

LEMMA TypesInit == Init => Types
BY DEF Init, Types, SmtpPcs

(***************************************************************************)
(* What the sender is told.                                                *)
(***************************************************************************)

\* Told, and what is so on the way: where the delivery goes to, that nothing was cut short
\* before the copy, and that libesmtp has each recipient or the log has.
ToldInv ==
  /\ pc \in {"modules", "open"} => ~short
  /\ pc \in {"open", "copy"} => ~BySmtp
  /\ pc \in SmtpPcs => BySmtp
  /\ pc = "start" => env.rcpts \subseteq added \cup logged
  /\ Told

\* Every step keeps it.
LEMMA ToldStep == Types /\ ToldInv /\ [Next]_vars => ToldInv'
<1> SUFFICES ASSUME Types, ToldInv, [Next]_vars PROVE ToldInv'
    OBVIOUS
<1> USE DEF Types, ToldInv, Told, BySmtp, SmtpPcs, envelope, smtp, copying, Returns,
            SmtpUnchanged, FileUnchanged
<1>1. ASSUME NEW R \in SUBSET Rcpts, NEW H \in SUBSET Rcpts, NEW at \in {"file", "memory"},
             NewMessage(R, H, at)
      PROVE  ToldInv'
      BY <1>1 DEF NewMessage
<1>2. ASSUME NEW h \in Hosts, NameNexthop(h) \/ SetNexthop(h) PROVE ToldInv'
      BY <1>2 DEF NameNexthop, SetNexthop
<1>3. CASE Find \/ NextMessage
      BY <1>3 DEF Find, NextMessage
<1>4. CASE OpenFiles
      BY <1>4 DEF OpenFiles
<1>5. CASE CopyBlock
  <2>1. CASE pc' = pc
        BY <1>5, <2>1 DEF CopyBlock
  <2>2. CASE pc' = "returned" /\ retval' = -1
        BY <1>5, <2>2 DEF CopyBlock
  <2>3. QED BY <1>5, <2>1, <2>2 DEF CopyBlock
<1>6. CASE EndOfFile
      BY <1>6 DEF EndOfFile
<1>7. CASE FillEnvelope
      BY <1>7 DEF FillEnvelope
<1>8. CASE CreateSession \/ SetReversePath \/ SetMessage \/ StartFails
      BY <1>8 DEF CreateSession, SetReversePath, SetMessage, StartFails
<1>9. CASE AddRecipients
      BY <1>9 DEF AddRecipients
<1>10. ASSUME NEW T \in SUBSET Rcpts, Transfer(T) PROVE ToldInv'
  <2>1. /\ pc' = "returned" /\ taken' = T /\ T \subseteq added /\ added' = added /\ env' = env
        /\ logged' = IF debug THEN logged \cup added ELSE logged
        /\ UNCHANGED <<nexthop, exists, debug>>
        BY <1>10 DEF Transfer
  <2>2. retval' = 0 => T # {}
        BY <1>10 DEF Transfer
  <2>3. env.rcpts \subseteq logged' \cup (IF debug THEN T ELSE added) /\ BySmtp
        BY <1>10, <2>1 DEF Transfer
  <2>4. QED BY <2>1, <2>2, <2>3
<1>11. CASE UNCHANGED vars
      BY <1>11 DEF vars
<1> HIDE DEF ToldInv
<1>12. QED BY <1>1, <1>2, <1>3, <1>4, <1>5, <1>6, <1>7, <1>8, <1>9, <1>10, <1>11 DEF Next

\* smf_nexthop and smf_smtp_deliver return 0 only when the nexthop has the message for somebody or
\* the file has its last full block; whom libesmtp refused is in the log, and with debug on so is
\* everybody whom the nexthop has refused.
THEOREM ToldHolds == Spec => []Told
<1>1. Init => ToldInv
      BY DEF Init, ToldInv, Told, SmtpPcs
<1>2. ToldInv => Told
      BY DEF ToldInv
<1>3. QED BY <1>1, <1>2, ToldStep, TypesInit, TypesStep, PTL DEF Spec

(***************************************************************************)
(* Where messages go.                                                      *)
(***************************************************************************)

SendPcs == {"create", "sender", "message", "rcpts", "start"}

\* What modules name is in the envelope and is a text, nobody else fills in the envelope of the
\* first message before it is sent, and then the setting does.
HopInv ==
  /\ named # NULL => env.nexthop = named /\ named \in Hosts
  /\ messages = 0 => pc = "idle" /\ env.nexthop = NULL
  /\ messages = 1 /\ named = NULL /\ pc \in {"modules", "envelope"} => env.nexthop = NULL
  /\ messages = 1 /\ named = NULL /\ pc \in SendPcs => env.nexthop = nexthop

\* Only a module, or the first message without a nexthop, fills it in.
LEMMA HopStep == Types /\ HopInv /\ [Next]_vars => HopInv'
<1> SUFFICES ASSUME Types, HopInv, [Next]_vars PROVE HopInv'
    OBVIOUS
<1> USE NexthopAssumption
    DEF Types, HopInv, SendPcs, SmtpPcs, envelope, history, Returns, SmtpUnchanged, FileUnchanged
<1>1. ASSUME NEW R \in SUBSET Rcpts, NEW H \in SUBSET Rcpts, NEW at \in {"file", "memory"},
             NewMessage(R, H, at)
      PROVE  HopInv'
  <2>1. named' = NULL /\ messages' = messages + 1 /\ pc' = "modules" /\ env'.nexthop = env.nexthop
        BY <1>1 DEF NewMessage
  <2>2. messages' # 0 /\ (messages' = 1 => messages = 0)
        BY <2>1
  <2>3. QED BY <2>1, <2>2
<1>2. ASSUME NEW h \in Hosts, NameNexthop(h) \/ SetNexthop(h) PROVE HopInv'
      BY <1>2 DEF NameNexthop, SetNexthop
<1>3. CASE Find \/ NextMessage
      BY <1>3 DEF Find, NextMessage
<1>4. CASE OpenFiles \/ CopyBlock \/ EndOfFile
      BY <1>4 DEF OpenFiles, CopyBlock, EndOfFile
<1>5. CASE FillEnvelope
  <2>1. UNCHANGED <<named, messages, nexthop>> /\ pc = "envelope" /\ messages # 0
        BY <1>5 DEF FillEnvelope
  <2>2. CASE pc' = "returned" /\ env'.nexthop = env.nexthop
        BY <2>1, <2>2
  <2>3. CASE pc' = "create" /\ env'.nexthop = HopOf
        BY <2>1, <2>3 DEF HopOf
  <2>4. QED BY <1>5, <2>2, <2>3 DEF FillEnvelope
<1>6. CASE CreateSession \/ SetReversePath \/ SetMessage \/ AddRecipients \/ StartFails
      BY <1>6 DEF CreateSession, SetReversePath, SetMessage, AddRecipients, StartFails
<1>7. ASSUME NEW T \in SUBSET Rcpts, Transfer(T) PROVE HopInv'
      BY <1>7 DEF Transfer
<1>8. CASE UNCHANGED vars
      BY <1>8 DEF vars
<1> HIDE DEF HopInv
<1>9. QED BY <1>1, <1>2, <1>3, <1>4, <1>5, <1>6, <1>7, <1>8 DEF Next

\* A message goes to the nexthop that modules named for it, and the first of a session otherwise to
\* the one configured: neither the setting nor an earlier message overrides a module.
THEOREM HopHolds == Spec => []HopNamed
<1>1. Init => HopInv
      BY DEF Init, HopInv
<1>2. HopInv => HopNamed
      BY DEF HopInv, HopNamed, SendPcs
<1>3. QED BY <1>1, <1>2, HopStep, TypesInit, TypesStep, PTL DEF Spec

(***************************************************************************)
(* What deliveries leave open.                                             *)
(***************************************************************************)

\* What is open at each place.
OpenInv ==
  /\ pc \in {"idle", "modules", "returned", "open", "envelope", "create"} => held = {}
  /\ pc = "copy" => held \subseteq {"src", "dest"}
  /\ pc \in {"sender", "message"} => held \subseteq {"session", "auth"}
  /\ pc \in {"rcpts", "start"} => held \subseteq {"session", "auth", "fp", "text"}
  /\ left \cap {"src", "dest", "fp"} = {}
  /\ "session" \in left => faulty

\* Every exit closes the files and, unless libesmtp refused a call, the session.
LEMMA OpenStep == Types /\ OpenInv /\ [Next]_vars => OpenInv'
<1> SUFFICES ASSUME Types, OpenInv, [Next]_vars PROVE OpenInv'
    OBVIOUS
<1> USE DEF Types, OpenInv, SmtpPcs, history, Returns, SmtpUnchanged, FileUnchanged
<1>1. ASSUME NEW R \in SUBSET Rcpts, NEW H \in SUBSET Rcpts, NEW at \in {"file", "memory"},
             NewMessage(R, H, at)
      PROVE  OpenInv'
      BY <1>1 DEF NewMessage
<1>2. ASSUME NEW h \in Hosts, NameNexthop(h) \/ SetNexthop(h) PROVE OpenInv'
      BY <1>2 DEF NameNexthop, SetNexthop
<1>3. CASE Find \/ NextMessage
      BY <1>3 DEF Find, NextMessage
<1>4. CASE OpenFiles \/ CopyBlock \/ EndOfFile
      BY <1>4 DEF OpenFiles, CopyBlock, EndOfFile
<1>5. CASE FillEnvelope
      BY <1>5 DEF FillEnvelope
<1>6. CASE CreateSession \/ AddRecipients
      BY <1>6 DEF CreateSession, AddRecipients
<1>7. CASE SetReversePath \/ SetMessage
      BY <1>7 DEF SetReversePath, SetMessage
<1>8. CASE StartFails
      BY <1>8 DEF StartFails
<1>9. ASSUME NEW T \in SUBSET Rcpts, Transfer(T) PROVE OpenInv'
      BY <1>9 DEF Transfer
<1>10. CASE UNCHANGED vars
      BY <1>10 DEF vars
<1> HIDE DEF OpenInv
<1>11. QED BY <1>1, <1>2, <1>3, <1>4, <1>5, <1>6, <1>7, <1>8, <1>9, <1>10 DEF Next

\* No way out of file_delivery_nexthop or smf_smtp_deliver leaves a file open.
THEOREM NothingStaysOpen == Spec => []NothingOpen
<1>1. Init => OpenInv
      BY DEF Init, OpenInv
<1>2. OpenInv => NothingOpen
      BY DEF OpenInv, NothingOpen
<1>3. QED BY <1>1, <1>2, OpenStep, TypesInit, TypesStep, PTL DEF Spec
=============================================================================
