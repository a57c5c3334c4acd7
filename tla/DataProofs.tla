------------------------------ MODULE DataProofs ------------------------------
(***************************************************************************)
(* Theorems about SmtpData, for all messages and every size of line and    *)
(* buffer: the body of a message arrives byte for byte, no header line is  *)
(* lost, and headers are added where they are missing and only there.      *)
(***************************************************************************)
EXTENDS SmtpData, FiniteSetTheorems, SequenceTheorems, WellFoundedInduction, TLAPS

(***************************************************************************)
(* The inductive invariant.                                                *)
(***************************************************************************)
Chars == Tokens \cup {".", "CR", "LF", "X-Module:", "(null)"}

\* The lines that the client sends, the last one with the dot, and where they start.
Wires    == [i \in DOMAIN message |-> Stuffed(message[i])]
Line(k)  == (IF k \in DOMAIN message THEN Stuffed(message[k]) ELSE <<".">>) \o newline
Start(k) == Len(Written(SubSeq(Wires, 1, k - 1), newline))

\* How many lines the header has.
Top == Len(HeaderLines)

\* The required headers that are among the first k lines of the header.
SentUpTo(k) == {h \in ToSet(Required) : \E i \in 1..k : i <= Top /\ message[i][1] = h}

\* What is known when the first k lines have been taken.
Taken(k) ==
  /\ spool = Written(SubSeq(message, 1, k), newline)
  /\ found = SentUpTo(k)
  /\ in_header = (k <= Top)
  /\ found_header = (k > 0)
  /\ nl = IF k = 0 THEN NULL ELSE newline

\* Of the next line there is a first part in buf.
InLine(k) ==
  /\ taken - buffered = Start(k + 1) + Len(buf)
  /\ Len(buf) <= Len(Line(k + 1))
  /\ \A j \in 1..Len(buf) : buf[j] = Line(k + 1)[j]

TypeInv ==
  /\ message \in Messages /\ newline \in Newlines
  /\ taken \in Nat /\ buffered \in Nat /\ buffered <= BufSize /\ buffered <= taken
  /\ taken <= Len(Stream) /\ Stream \in Seq(Chars)
  /\ peer \in {"there", "eof", "error"}
  /\ buf \in Seq(Chars) /\ Len(buf) < MaxLine /\ spool \in Seq(Chars)
  /\ found \subseteq ToSet(Required) /\ in_header \in BOOLEAN /\ found_header \in BOOLEAN
  /\ nl \in {NULL, <<"CR">>, <<"CR", "LF">>, <<"LF">>}
  /\ pc \in {"line", "take", "headers", "queue", "deliver", "done"}
  /\ pc = "take" => peer = "eof"

\* Lines with an end, none of them empty.
Closed(f) == BlankLines(f) = {} /\ (f = <<>> \/ f[Len(f)] = "LF")

\* How often a header must be in a file.
Wanted(h) ==
  LET sent == Count(Written(HeaderLines, newline), h) IN IF sent = 0 THEN 1 ELSE sent

\* A file with the header that is promised, and the body.
Whole(f) ==
  /\ Closed(HeaderPart(f)) /\ SkipHeader(f) = Written(BodyLines, newline)
  /\ \A i \in DOMAIN Required : Count(HeaderPart(f), Required[i]) = Wanted(Required[i])
  /\ Has(HeaderPart(f), Written(HeaderLines, newline))

ContentInv ==
  (peer = "there" /\ WellFormed /\ Fits) =>
    /\ pc = "line" => \E k \in 0..Len(message) : Taken(k) /\ InLine(k)
    /\ pc = "headers" => Taken(Len(message))
    /\ pc \in {"queue", "deliver", "done"} => Whole(spool)
    /\ pc = "done" => out = spool

DataInv == TypeInv /\ ContentInv

(***************************************************************************)
(* Induction.                                                              *)
(***************************************************************************)

\* A set of naturals with 0 and every successor has them all: else there would be a least one
\* that is missing.
LEMMA AllNaturals ==
  ASSUME NEW S, 0 \in S, \A n \in Nat : n \in S => n + 1 \in S
  PROVE  \A n \in Nat : n \in S
<1> DEFINE R == {ss \in Nat \X Nat : ss[1] < ss[2]}
           T == Nat \ S
<1> SUFFICES ASSUME T # {} PROVE FALSE
    OBVIOUS
<1>1. IsWellFoundedOn(R, Nat)
      BY NatLessThanWellFounded DEF OpToRel
<1>2. PICK x \in T : \A y \in T : ~(<<y, x>> \in R)
      BY <1>1, WFMin
<1>3. x \in Nat /\ x # 0
      OBVIOUS
<1>4. x - 1 \in Nat /\ <<x - 1, x>> \in R
      BY <1>3
<1>5. x - 1 \in S
      BY <1>2, <1>4
<1>6. QED BY <1>2, <1>3, <1>4, <1>5

(***************************************************************************)
(* Files made of lines.                                                    *)
(***************************************************************************)

\* FlattenSeq puts one sequence after the other.
LEMMA FlattenUnfolds ==
  ASSUME NEW s \in Seq(Seq(Chars))
  PROVE  \E g \in [0..Len(s) -> Seq(Chars)] :
           /\ g[0] = <<>> /\ FlattenSeq(s) = g[Len(s)]
           /\ \A i \in 1..Len(s) : g[i] = g[i - 1] \o s[i]
<1> DEFINE Def(f) == [i \in 1..Len(s) |-> IF i = 1 THEN s[i] ELSE f[i - 1] \o s[i]]
           flatten == CHOOSE f : f = Def(f)
<1>0. Len(s) \in Nat /\ \A i \in 1..Len(s) : s[i] \in Seq(Chars)
      OBVIOUS
<1>1. CASE Len(s) = 0
  <2>1. s = <<>> /\ FlattenSeq(s) = s
        BY <1>1 DEF FlattenSeq
  <2> DEFINE g == [i \in 0..0 |-> <<>>]
  <2>2. g \in [0..Len(s) -> Seq(Chars)] /\ g[0] = <<>>
        BY <1>1
  <2> HIDE DEF g
  <2>3. QED BY <1>1, <2>1, <2>2
<1>2. CASE Len(s) # 0
  <2>1. FlattenSeq(s) = flatten[Len(s)]
        BY <1>2 DEF FlattenSeq
  <2>2. \E f : f = Def(f)
    <3> DEFINE Sums(f, n) ==
                 /\ f \in [1..n -> Seq(Chars)]
                 /\ \A i \in 1..n : f[i] = IF i = 1 THEN s[i] ELSE f[i - 1] \o s[i]
               Ok(n) == n <= Len(s) => \E f : Sums(f, n)
               S == {n \in Nat : Ok(n)}
    <3>1. 0 \in S
      <4> DEFINE f == [i \in 1..0 |-> <<>>]
      <4>1. Sums(f, 0)
            OBVIOUS
      <4> HIDE DEF f, Sums
      <4>2. QED BY <4>1
    <3>2. ASSUME NEW n \in Nat, n \in S PROVE n + 1 \in S
      <4> HIDE DEF Sums
      <4> SUFFICES ASSUME n + 1 <= Len(s) PROVE \E f : Sums(f, n + 1)
          OBVIOUS
      <4>0. PICK f : Sums(f, n)
            BY <1>0, <3>2
      <4>1. /\ f \in [1..n -> Seq(Chars)]
            /\ \A i \in 1..n : f[i] = IF i = 1 THEN s[i] ELSE f[i - 1] \o s[i]
            BY <4>0 DEF Sums
      <4> DEFINE last == IF n = 0 THEN s[1] ELSE f[n] \o s[n + 1]
                 h == [i \in 1..n + 1 |-> IF i <= n THEN f[i] ELSE last]
      <4>2. s[n + 1] \in Seq(Chars) /\ n + 1 \in 1..Len(s)
            BY <1>0
      <4>3. last \in Seq(Chars)
        <5>1. CASE n = 0
              BY <4>2, <5>1
        <5>2. CASE n # 0
          <6>1. f[n] \in Seq(Chars)
                BY <4>1, <5>2
          <6>2. QED BY <4>2, <5>2, <6>1
        <5>3. QED BY <5>1, <5>2
      <4> HIDE DEF last
      <4>4. h \in [1..n + 1 -> Seq(Chars)]
            BY <4>1, <4>3
      <4>5. ASSUME NEW i \in 1..n + 1
            PROVE  h[i] = IF i = 1 THEN s[i] ELSE h[i - 1] \o s[i]
        <5>1. CASE i <= n
          <6>1. i \in 1..n /\ h[i] = f[i] /\ (i # 1 => h[i - 1] = f[i - 1])
                BY <5>1
          <6>2. QED BY <4>1, <6>1
        <5>2. CASE i = n + 1
          <6>1. h[i] = last /\ (i # 1 => h[i - 1] = f[n])
                BY <5>2
          <6>2. QED BY <5>2, <6>1 DEF last
        <5>3. QED BY <5>1, <5>2
      <4> HIDE DEF h
      <4>6. Sums(h, n + 1)
            BY <4>4, <4>5 DEF Sums
      <4>7. QED BY <4>6
    <3>3. Ok(Len(s))
      <4> HIDE DEF Sums, Ok
      <4>1. \A n \in Nat : n \in S
        <5> HIDE DEF S
        <5>1. QED BY <3>1, <3>2, AllNaturals
      <4>2. QED BY <1>0, <4>1
    <3>4. PICK f : Sums(f, Len(s))
      <4> HIDE DEF Sums
      <4>1. QED BY <1>0, <3>3
    <3>5. f = Def(f)
          BY <3>4
    <3>6. QED BY <3>5
  <2>3. flatten = Def(flatten)
        BY <2>2
  <2> HIDE DEF flatten
  <2>4. \A i \in 1..Len(s) :
          flatten[i] = IF i = 1 THEN s[i] ELSE flatten[i - 1] \o s[i]
    <3> SUFFICES ASSUME NEW i \in 1..Len(s)
                 PROVE  flatten[i] = IF i = 1 THEN s[i] ELSE flatten[i - 1] \o s[i]
        OBVIOUS
    <3>1. Def(flatten)[i] = IF i = 1 THEN s[i] ELSE flatten[i - 1] \o s[i]
          OBVIOUS
    <3>2. QED BY <2>3, <3>1, Zenon
  <2>5. \A i \in 1..Len(s) : flatten[i] \in Seq(Chars)
    <3> DEFINE S == {n \in Nat : n \in 1..Len(s) => flatten[n] \in Seq(Chars)}
    <3>1. 0 \in S
          OBVIOUS
    <3>2. ASSUME NEW n \in Nat, n \in S PROVE n + 1 \in S
      <4> SUFFICES ASSUME n + 1 \in 1..Len(s) PROVE flatten[n + 1] \in Seq(Chars)
          OBVIOUS
      <4>1. s[n + 1] \in Seq(Chars)
            BY <1>0
      <4>2. CASE n = 0
            BY <2>4, <4>1, <4>2
      <4>3. CASE n # 0
        <5>1. flatten[n] \in Seq(Chars)
              BY <1>0, <3>2, <4>3
        <5>2. flatten[n + 1] = flatten[n] \o s[n + 1]
          <6>1. n + 1 \in 1..Len(s) /\ n + 1 # 1 /\ (n + 1) - 1 = n
                BY <4>3
          <6>2. flatten[n + 1] = flatten[(n + 1) - 1] \o s[n + 1]
                BY <2>4, <6>1
          <6>3. QED BY <6>1, <6>2
        <5>3. QED BY <4>1, <5>1, <5>2
      <4>4. QED BY <4>2, <4>3
    <3> HIDE DEF S
    <3>3. \A n \in Nat : n \in S
          BY <3>1, <3>2, AllNaturals
    <3>4. QED BY <1>0, <3>3 DEF S
  <2> DEFINE g == [i \in 0..Len(s) |-> IF i = 0 THEN <<>> ELSE flatten[i]]
  <2>6. g \in [0..Len(s) -> Seq(Chars)]
        BY <1>0, <2>5
  <2>7. g[0] = <<>> /\ FlattenSeq(s) = g[Len(s)]
        BY <1>0, <1>2, <2>1
  <2>8. ASSUME NEW i \in 1..Len(s) PROVE g[i] = g[i - 1] \o s[i]
    <3>1. CASE i = 1
      <4>1. g[1] = s[1] /\ g[0] = <<>>
            BY <1>0, <2>4, <3>1
      <4>2. QED BY <1>0, <3>1, <4>1, ConcatEmptySeq
    <3>2. CASE i # 1
      <4>1. g[i] = flatten[i] /\ g[i - 1] = flatten[i - 1]
            BY <1>0, <3>2
      <4>2. QED BY <2>4, <3>2, <4>1
    <3>3. QED BY <3>1, <3>2
  <2>9. QED BY <2>6, <2>7, <2>8
<1>3. QED BY <1>0, <1>1, <1>2

\* A first part of a sequence.
LEMMA Leading ==
  ASSUME NEW C, NEW s \in Seq(C), NEW k \in 0..Len(s)
  PROVE  /\ SubSeq(s, 1, k) \in Seq(C) /\ Len(SubSeq(s, 1, k)) = k
         /\ \A i \in 1..k : SubSeq(s, 1, k)[i] = s[i]
OBVIOUS

\* What FlattenSeq returns, one sequence after the other.
LEMMA FlattenLeads ==
  ASSUME NEW s \in Seq(Seq(Chars))
  PROVE  /\ FlattenSeq(s) \in Seq(Chars)
         /\ FlattenSeq(SubSeq(s, 1, 0)) = <<>>
         /\ FlattenSeq(SubSeq(s, 1, Len(s))) = FlattenSeq(s)
         /\ \A k \in 1..Len(s) :
              FlattenSeq(SubSeq(s, 1, k)) = FlattenSeq(SubSeq(s, 1, k - 1)) \o s[k]
<1> DEFINE Sums(g, q) == /\ g \in [0..Len(q) -> Seq(Chars)] /\ g[0] = <<>> /\ FlattenSeq(q) = g[Len(q)]
                         /\ \A i \in 1..Len(q) : g[i] = g[i - 1] \o q[i]
<1>0. Len(s) \in Nat
      OBVIOUS
<1>u. \A q \in Seq(Seq(Chars)) : \E g : Sums(g, q)
  <2> TAKE q \in Seq(Seq(Chars))
  <2>1. PICK g \in [0..Len(q) -> Seq(Chars)] :
          /\ g[0] = <<>> /\ FlattenSeq(q) = g[Len(q)]
          /\ \A i \in 1..Len(q) : g[i] = g[i - 1] \o q[i]
        BY FlattenUnfolds
  <2>2. Sums(g, q)
        BY <2>1
  <2> HIDE DEF Sums
  <2>3. QED BY <2>2
<1> HIDE DEF Sums
<1>1. FlattenSeq(s) \in Seq(Chars)
  <2>1. PICK g : Sums(g, s)
        BY <1>u
  <2>2. QED BY <1>0, <2>1 DEF Sums
<1>2. FlattenSeq(SubSeq(s, 1, 0)) = <<>>
  <2>1. SubSeq(s, 1, 0) \in Seq(Seq(Chars)) /\ Len(SubSeq(s, 1, 0)) = 0
        BY <1>0, Leading
  <2>2. PICK g : Sums(g, SubSeq(s, 1, 0))
        BY <1>u, <2>1
  <2>3. QED BY <2>1, <2>2 DEF Sums
<1>3. SubSeq(s, 1, Len(s)) = s
      BY SubSeqFull
<1>4. ASSUME NEW k \in 1..Len(s)
      PROVE  FlattenSeq(SubSeq(s, 1, k)) = FlattenSeq(SubSeq(s, 1, k - 1)) \o s[k]
  <2> DEFINE t == SubSeq(s, 1, k)
             u == SubSeq(s, 1, k - 1)
  <2>0. k \in Nat /\ k - 1 \in Nat /\ k \in 0..Len(s) /\ k - 1 \in 0..Len(s)
        BY <1>0
  <2>1. t \in Seq(Seq(Chars)) /\ Len(t) = k /\ \A i \in 1..k : t[i] = s[i]
        BY <2>0, Leading
  <2>2. u \in Seq(Seq(Chars)) /\ Len(u) = k - 1 /\ \A i \in 1..k - 1 : u[i] = s[i]
        BY <2>0, Leading
  <2> HIDE DEF t, u
  <2>3. PICK g : Sums(g, t)
        BY <1>u, <2>1
  <2>4. PICK h : Sums(h, u)
        BY <1>u, <2>2
  <2>5. g[0] = h[0] /\ FlattenSeq(t) = g[k] /\ FlattenSeq(u) = h[k - 1]
        BY <2>1, <2>2, <2>3, <2>4 DEF Sums
  <2>6. g[k - 1] = h[k - 1]
    <3> DEFINE S == {i \in Nat : i <= k - 1 => g[i] = h[i]}
    <3>1. 0 \in S
          BY <2>5
    <3>2. ASSUME NEW i \in Nat, i \in S PROVE i + 1 \in S
      <4> SUFFICES ASSUME i + 1 <= k - 1 PROVE g[i + 1] = h[i + 1]
          OBVIOUS
      <4>1. i + 1 \in 1..k /\ i + 1 \in 1..k - 1 /\ (i + 1) - 1 = i /\ g[i] = h[i]
            BY <2>0, <3>2
      <4>2. g[i + 1] = g[(i + 1) - 1] \o t[i + 1]
            BY <2>1, <2>3, <4>1 DEF Sums
      <4>3. h[i + 1] = h[(i + 1) - 1] \o u[i + 1]
            BY <2>2, <2>4, <4>1 DEF Sums
      <4>4. t[i + 1] = u[i + 1]
            BY <2>1, <2>2, <4>1
      <4>5. QED BY <4>1, <4>2, <4>3, <4>4
    <3> HIDE DEF S
    <3>3. k - 1 \in S
          BY <2>0, <3>1, <3>2, AllNaturals
    <3>4. QED BY <2>0, <3>3 DEF S
  <2>7. g[k] = g[k - 1] \o t[k] /\ t[k] = s[k]
    <3>1. k \in 1..k
          BY <2>0
    <3>2. QED BY <2>1, <2>3, <3>1 DEF Sums
  <2>8. QED BY <2>5, <2>6, <2>7 DEF t, u
<1>5. QED BY <1>1, <1>2, <1>3, <1>4

\* The same for the lines of a file.
LEMMA WrittenLeads ==
  ASSUME NEW lines \in Seq(Seq(Chars)), NEW end \in Seq(Chars)
  PROVE  /\ Written(lines, end) \in Seq(Chars)
         /\ Written(SubSeq(lines, 1, 0), end) = <<>>
         /\ Written(SubSeq(lines, 1, Len(lines)), end) = Written(lines, end)
         /\ \A k \in 1..Len(lines) :
              Written(SubSeq(lines, 1, k), end) =
                Written(SubSeq(lines, 1, k - 1), end) \o (lines[k] \o end)
<1> DEFINE Ended(ls) == [i \in DOMAIN ls |-> ls[i] \o end]
           s == Ended(lines)
<1>0. Len(lines) \in Nat /\ DOMAIN lines = 1..Len(lines) /\ \A i \in 1..Len(lines) : lines[i] \in Seq(Chars)
      BY LenProperties, ElementOfSeq
<1>1. s \in Seq(Seq(Chars)) /\ Len(s) = Len(lines) /\ \A i \in 1..Len(lines) : s[i] = lines[i] \o end
  <2>1. \A i \in 1..Len(lines) : lines[i] \o end \in Seq(Chars)
        BY <1>0
  <2>2. s \in [1..Len(lines) -> Seq(Chars)]
        BY <1>0, <2>1
  <2>3. QED BY <1>0, <2>2
<1>2. ASSUME NEW k \in 0..Len(lines) PROVE Ended(SubSeq(lines, 1, k)) = SubSeq(s, 1, k)
  <2>1. /\ SubSeq(lines, 1, k) \in Seq(Seq(Chars)) /\ Len(SubSeq(lines, 1, k)) = k
        /\ \A i \in 1..k : SubSeq(lines, 1, k)[i] = lines[i]
        BY <1>0, Leading
  <2>2. SubSeq(s, 1, k) = [i \in 1..k |-> s[i]]
        BY <1>0, <1>1
  <2>3. DOMAIN SubSeq(lines, 1, k) = 1..k
        BY <1>0, <2>1
  <2>4. \A i \in 1..k : s[i] = SubSeq(lines, 1, k)[i] \o end
        BY <1>0, <1>1, <2>1
  <2>5. QED BY <2>2, <2>3, <2>4
<1>3. \A ls : Written(ls, end) = FlattenSeq(Ended(ls))
      BY DEF Written
<1> HIDE DEF Ended, s
<1>4. \A k \in 0..Len(lines) : Written(SubSeq(lines, 1, k), end) = FlattenSeq(SubSeq(s, 1, k))
      BY <1>2, <1>3
<1>5. Written(lines, end) = FlattenSeq(s)
      BY <1>3 DEF s
<1>6. /\ FlattenSeq(s) \in Seq(Chars) /\ FlattenSeq(SubSeq(s, 1, 0)) = <<>>
      /\ FlattenSeq(SubSeq(s, 1, Len(lines))) = FlattenSeq(s)
      /\ \A k \in 1..Len(lines) :
           FlattenSeq(SubSeq(s, 1, k)) = FlattenSeq(SubSeq(s, 1, k - 1)) \o s[k]
      BY <1>1, FlattenLeads
<1>7. ASSUME NEW k \in 1..Len(lines)
      PROVE  Written(SubSeq(lines, 1, k), end) =
               Written(SubSeq(lines, 1, k - 1), end) \o (lines[k] \o end)
  <2>1. k \in 0..Len(lines) /\ k - 1 \in 0..Len(lines)
        BY <1>0
  <2>2. QED BY <1>1, <1>4, <1>6, <2>1
<1>8. 0 \in 0..Len(lines) /\ Len(lines) \in 0..Len(lines)
      BY <1>0
<1>9. QED BY <1>4, <1>5, <1>6, <1>7, <1>8

\* A set of naturals has a least element.
LEMMA LeastExists ==
  ASSUME NEW S, S \subseteq Nat, S # {}
  PROVE  \E x \in S : \A y \in S : x <= y
<1> DEFINE T == {n \in Nat : \A y \in S : n <= y}
<1> SUFFICES ASSUME \A x \in S : \E y \in S : ~(x <= y) PROVE FALSE
    OBVIOUS
<1>1. 0 \in T
      OBVIOUS
<1>2. ASSUME NEW n \in Nat, n \in T PROVE n + 1 \in T
  <2>1. n \notin S
        BY <1>2
  <2>2. \A y \in S : y \in Nat /\ n <= y /\ y # n
        BY <1>2, <2>1
  <2>3. QED BY <2>2
<1> HIDE DEF T
<1>3. \A n \in Nat : n \in T
      BY <1>1, <1>2, AllNaturals
<1>4. PICK x \in S : TRUE
      OBVIOUS
<1>5. x + 1 \in T /\ x \in Nat
      BY <1>3
<1>6. QED BY <1>4, <1>5 DEF T

(***************************************************************************)
(* The message and the stream.                                             *)
(***************************************************************************)

\* Lines as they are written, and what the end of a line is.
LEMMA Ends ==
  ASSUME NEW end \in Newlines
  PROVE  /\ end \in Seq(Chars) /\ Len(end) \in {1, 2}
         /\ Len(end) = 1 => end[1] = "LF"
         /\ Len(end) = 2 => end[1] = "CR" /\ end[2] = "LF"
<1>1. end = <<"CR", "LF">> \/ end = <<"LF">>
      BY DataAssumption
<1>2. "CR" \in Chars /\ "LF" \in Chars
      BY DEF Chars
<1>3. CASE end = <<"CR", "LF">>
  <2>1. end \in Seq(Chars) /\ Len(end) = 2 /\ end[1] = "CR" /\ end[2] = "LF"
        BY <1>2, <1>3
  <2>2. QED BY <2>1
<1>4. CASE end = <<"LF">>
  <2>1. end \in Seq(Chars) /\ Len(end) = 1 /\ end[1] = "LF"
        BY <1>2, <1>4
  <2>2. QED BY <2>1
<1>5. QED BY <1>1, <1>3, <1>4

LEMMA MessageTyped ==
  ASSUME message \in Messages
  PROVE  /\ message \in Seq(Seq(Chars)) /\ Len(message) \in Nat /\ DOMAIN message = 1..Len(message)
         /\ \A i \in 1..Len(message) :
              /\ message[i] \in Seq(Chars) /\ Len(message[i]) \in Nat
              /\ \A j \in 1..Len(message[i]) :
                   message[i][j] \in Tokens /\ message[i][j] \notin {"CR", "LF"}
<1>1. message \in Seq(Seq(Tokens)) /\ Tokens \cap {"CR", "LF"} = {}
      BY TokensAssumption
<1>2. Len(message) \in Nat /\ DOMAIN message = 1..Len(message)
      BY <1>1
<1>3. ASSUME NEW i \in 1..Len(message)
      PROVE  /\ message[i] \in Seq(Chars) /\ Len(message[i]) \in Nat
             /\ \A j \in 1..Len(message[i]) :
                  message[i][j] \in Tokens /\ message[i][j] \notin {"CR", "LF"}
  <2>1. message[i] \in Seq(Tokens)
        BY <1>1, ElementOfSeq
  <2>2. Tokens \subseteq Chars
        BY DEF Chars
  <2>3. message[i] \in Seq(Chars)
        BY <2>1, <2>2, SeqMonotonic
  <2>4. Len(message[i]) \in Nat /\ \A j \in 1..Len(message[i]) : message[i][j] \in Tokens
        BY <2>1, LenProperties, ElementOfSeq
  <2>5. QED BY <1>1, <2>3, <2>4
<1>4. message \in Seq(Seq(Chars))
  <2>1. message \in [1..Len(message) -> Seq(Chars)]
        BY <1>1, <1>2, <1>3
  <2>2. QED BY <1>2, <2>1
<1>5. QED BY <1>2, <1>3, <1>4

\* The header is what comes before the first empty line.
LEMMA HeaderShape ==
  ASSUME message \in Messages
  PROVE  /\ Top \in 0..Len(message)
         /\ HeaderLines = SubSeq(message, 1, Top)
         /\ \A i \in 1..Top : message[i] # <<>> /\ HeaderLines[i] = message[i]
         /\ Top < Len(message) => message[Top + 1] = <<>>
         /\ BodyLines = SubSeq(message, Top + 2, Len(message))
<1>0. Len(message) \in Nat /\ DOMAIN message = 1..Len(message) /\ message \in Seq(Seq(Chars))
      BY MessageTyped
<1>1. CASE Blanks = {}
  <2>1. HeaderLines = message /\ Top = Len(message)
        BY <1>1 DEF HeaderLines, Top
  <2>2. SubSeq(message, 1, Top) = message
        BY <1>0, <2>1, SubSeqFull
  <2>3. QED BY <1>0, <1>1, <2>1, <2>2 DEF Blanks, BodyLines, Top
<1>2. CASE Blanks # {}
  <2> DEFINE first == CHOOSE i \in Blanks : \A j \in Blanks : i <= j
  <2>1. Blanks \subseteq Nat
        BY <1>0 DEF Blanks
  <2>2. first \in Blanks /\ \A j \in Blanks : first <= j
        BY <1>2, <2>1, LeastExists
  <2>3. HeaderLines = SubSeq(message, 1, first - 1)
        BY <1>2 DEF HeaderLines
  <2> HIDE DEF first
  <2>4. first \in 1..Len(message) /\ message[first] = <<>> /\ first - 1 \in 0..Len(message)
        BY <1>0, <2>2 DEF Blanks
  <2>5. Top = first - 1 /\ \A i \in 1..first - 1 : HeaderLines[i] = message[i]
        BY <1>0, <2>3, <2>4, Leading DEF Top
  <2>6. \A i \in 1..first - 1 : message[i] # <<>>
    <3> SUFFICES ASSUME NEW i \in 1..first - 1, message[i] = <<>> PROVE FALSE
        OBVIOUS
    <3>1. i \in Blanks
          BY <1>0, <2>4 DEF Blanks
    <3>2. QED BY <2>2, <2>4, <3>1
  <2>7. first = Top + 1
        BY <2>4, <2>5
  <2>8. QED BY <2>3, <2>4, <2>5, <2>6, <2>7 DEF BodyLines, Top
<1>3. QED BY <1>1, <1>2

\* Where a line is among the others.
LEMMA WrittenLine ==
  ASSUME NEW lines \in Seq(Seq(Chars)), NEW end \in Seq(Chars), NEW k \in 1..Len(lines)
  PROVE  LET P(i) == Written(SubSeq(lines, 1, i), end)
             w    == Written(lines, end)
         IN  /\ Len(P(k)) = Len(P(k - 1)) + Len(lines[k] \o end) /\ Len(P(k)) <= Len(w)
             /\ \A j \in 1..Len(lines[k] \o end) : w[Len(P(k - 1)) + j] = (lines[k] \o end)[j]
<1> DEFINE P(i) == Written(SubSeq(lines, 1, i), end)
           w    == Written(lines, end)
           n    == Len(lines)
           L(i) == lines[i] \o end
<1>0. n \in Nat /\ \A i \in 1..n : L(i) \in Seq(Chars)
  <2>1. Len(lines) \in Nat /\ \A i \in 1..Len(lines) : lines[i] \in Seq(Chars)
        BY LenProperties, ElementOfSeq
  <2>2. QED BY <2>1, ConcatProperties
<1>1. w \in Seq(Chars) /\ P(n) = w /\ \A i \in 1..n : P(i) = P(i - 1) \o L(i)
  <2>1. /\ Written(lines, end) \in Seq(Chars)
        /\ Written(SubSeq(lines, 1, Len(lines)), end) = Written(lines, end)
        /\ \A i \in 1..Len(lines) :
             Written(SubSeq(lines, 1, i), end) =
               Written(SubSeq(lines, 1, i - 1), end) \o (lines[i] \o end)
        BY WrittenLeads
  <2>2. QED BY <2>1, Zenon
<1>2. \A i \in 0..n : P(i) \in Seq(Chars)
  <2> TAKE i \in 0..n
  <2>1. SubSeq(lines, 1, i) \in Seq(Seq(Chars))
        BY <1>0, Leading
  <2>2. QED BY <2>1, WrittenLeads
<1> HIDE DEF P, w, L, n
<1>3. ASSUME NEW i \in 1..n
      PROVE  /\ Len(P(i)) = Len(P(i - 1)) + Len(L(i)) /\ Len(P(i - 1)) \in Nat /\ Len(L(i)) \in Nat
             /\ \A j \in 1..Len(P(i - 1)) : P(i)[j] = P(i - 1)[j]
             /\ \A j \in 1..Len(L(i)) : P(i)[Len(P(i - 1)) + j] = L(i)[j]
  <2>1. P(i - 1) \in Seq(Chars) /\ L(i) \in Seq(Chars) /\ P(i) = P(i - 1) \o L(i)
    <3>1. i - 1 \in 0..n
          BY <1>0
    <3>2. QED BY <1>0, <1>1, <1>2, <3>1
  <2>2. Len(P(i - 1)) \in Nat /\ Len(L(i)) \in Nat
        BY <2>1, LenProperties
  <2>3. /\ Len(P(i)) = Len(P(i - 1)) + Len(L(i))
        /\ \A j \in 1..(Len(P(i - 1)) + Len(L(i))) :
             P(i)[j] = IF j <= Len(P(i - 1)) THEN P(i - 1)[j] ELSE L(i)[j - Len(P(i - 1))]
        BY <2>1, ConcatProperties
  <2>4. \A j \in 1..Len(P(i - 1)) : P(i)[j] = P(i - 1)[j]
        BY <2>2, <2>3
  <2>5. ASSUME NEW j \in 1..Len(L(i)) PROVE P(i)[Len(P(i - 1)) + j] = L(i)[j]
    <3>1. /\ Len(P(i - 1)) + j \in 1..(Len(P(i - 1)) + Len(L(i)))
          /\ ~(Len(P(i - 1)) + j <= Len(P(i - 1))) /\ (Len(P(i - 1)) + j) - Len(P(i - 1)) = j
          BY <2>2
    <3>2. QED BY <2>3, <3>1
  <2>6. QED BY <2>2, <2>3, <2>4, <2>5
<1> DEFINE Q(i) == Len(P(i)) <= Len(w) /\ \A j \in 1..Len(P(i)) : w[j] = P(i)[j]
           S == {m \in Nat : m <= n => Q(n - m)}
<1>4. 0 \in S
  <2>1. Q(n)
    <3>1. Len(w) \in Nat
          BY <1>1, LenProperties
    <3>2. QED BY <1>1, <3>1
  <2> HIDE DEF Q
  <2>2. QED BY <1>0, <2>1
<1>5. ASSUME NEW m \in Nat, m \in S PROVE m + 1 \in S
  <2> SUFFICES ASSUME m + 1 <= n PROVE Q(n - (m + 1))
      OBVIOUS
  <2>1. n - m \in 1..n /\ (n - m) - 1 = n - (m + 1) /\ Q(n - m)
        BY <1>0, <1>5
  <2> DEFINE i == n - m
  <2>2. i \in 1..n /\ i - 1 = n - (m + 1) /\ Q(i)
        BY <2>1
  <2> HIDE DEF i
  <2>3. Len(w) \in Nat
        BY <1>1, LenProperties
  <2>4. Q(i - 1)
    <3>1. /\ Len(P(i)) = Len(P(i - 1)) + Len(L(i)) /\ Len(P(i - 1)) \in Nat /\ Len(L(i)) \in Nat
          /\ \A j \in 1..Len(P(i - 1)) : P(i)[j] = P(i - 1)[j]
          BY <1>3, <2>2
    <3>2. Len(P(i)) <= Len(w) /\ \A j \in 1..Len(P(i)) : w[j] = P(i)[j]
          BY <2>2
    <3>3. QED BY <2>3, <3>1, <3>2
  <2>5. QED BY <2>2, <2>4
<1> HIDE DEF S
<1>6. \A m \in Nat : m \in S
      BY <1>4, <1>5, AllNaturals
<1>7. Q(k)
  <2>1. n - k \in Nat /\ n - k <= n /\ n - (n - k) = k
        BY <1>0 DEF n
  <2>2. QED BY <1>6, <2>1 DEF S
<1>8. k \in 1..n
      BY DEF n
<1>9. /\ Len(P(k)) = Len(P(k - 1)) + Len(L(k)) /\ Len(P(k - 1)) \in Nat /\ Len(L(k)) \in Nat
      /\ \A j \in 1..Len(L(k)) : P(k)[Len(P(k - 1)) + j] = L(k)[j]
      BY <1>3, <1>8
<1>10. \A j \in 1..Len(L(k)) : w[Len(P(k - 1)) + j] = L(k)[j]
  <2> TAKE j \in 1..Len(L(k))
  <2>1. Len(P(k - 1)) + j \in 1..Len(P(k))
        BY <1>9
  <2>2. QED BY <1>7, <1>9, <2>1
<1>11. QED BY <1>7, <1>9, <1>10 DEF P, w, L

\* The lines on the wire.
LEMMA LineTyped ==
  ASSUME message \in Messages, newline \in Newlines
  PROVE  /\ Wires \in Seq(Seq(Chars)) /\ Len(Wires) = Len(message)
         /\ \A k \in 1..Len(message) : Wires[k] = Stuffed(message[k])
         /\ \A k \in 1..(Len(message) + 1) :
              /\ Line(k) \in Seq(Chars) /\ Len(Line(k)) \in Nat /\ Len(Line(k)) > 0
              /\ Line(k)[Len(Line(k))] = "LF"
              /\ \A j \in 1..(Len(Line(k)) - 1) : Line(k)[j] # "LF"
<1> DEFINE n == Len(message)
           W(k) == IF k \in DOMAIN message THEN Stuffed(message[k]) ELSE <<".">>
<1>0. /\ n \in Nat /\ DOMAIN message = 1..n
      /\ \A i \in 1..n :
           /\ message[i] \in Seq(Chars) /\ Len(message[i]) \in Nat
           /\ \A j \in 1..Len(message[i]) :
                message[i][j] \in Tokens /\ message[i][j] \notin {"CR", "LF"}
      BY MessageTyped
<1>1. "." \in Chars /\ <<".">> \in Seq(Chars) /\ Len(<<".">>) = 1 /\ <<".">>[1] = "."
      BY DEF Chars
<1>2. ASSUME NEW k \in 1..n
      PROVE  /\ Stuffed(message[k]) \in Seq(Chars) /\ Len(Stuffed(message[k])) \in Nat
             /\ \A j \in 1..Len(Stuffed(message[k])) : Stuffed(message[k])[j] # "LF"
  <2> DEFINE l == message[k]
  <2>1. l \in Seq(Chars) /\ Len(l) \in Nat /\ \A j \in 1..Len(l) : l[j] # "LF"
        BY <1>0
  <2> HIDE DEF l
  <2>2. CASE Stuffed(l) = l
        BY <2>1, <2>2 DEF l
  <2>3. CASE Stuffed(l) = <<".">> \o l
    <3>1. /\ <<".">> \o l \in Seq(Chars) /\ Len(<<".">> \o l) = 1 + Len(l)
          /\ \A j \in 1..(1 + Len(l)) :
               (<<".">> \o l)[j] = IF j <= 1 THEN <<".">>[j] ELSE l[j - 1]
          BY <1>1, <2>1, ConcatProperties
    <3>2. \A j \in 1..(1 + Len(l)) : (<<".">> \o l)[j] # "LF"
          BY <1>1, <2>1, <3>1
    <3>3. QED BY <2>1, <2>3, <3>1, <3>2 DEF l
  <2>4. QED BY <2>2, <2>3 DEF Stuffed
<1>3. Wires \in Seq(Seq(Chars)) /\ Len(Wires) = n /\ \A k \in 1..n : Wires[k] = Stuffed(message[k])
  <2>1. Wires = [i \in 1..n |-> Stuffed(message[i])]
        BY <1>0 DEF Wires
  <2>2. Wires \in [1..n -> Seq(Chars)]
        BY <1>2, <2>1
  <2>3. Wires \in Seq(Seq(Chars)) /\ Len(Wires) = n
        BY <1>0, <2>2
  <2>4. QED BY <2>1, <2>3
<1>4. /\ newline \in Seq(Chars) /\ Len(newline) \in {1, 2}
      /\ Len(newline) = 1 => newline[1] = "LF"
      /\ Len(newline) = 2 => newline[1] = "CR" /\ newline[2] = "LF"
      BY Ends
<1>5. ASSUME NEW k \in 1..(n + 1)
      PROVE  /\ Line(k) \in Seq(Chars) /\ Len(Line(k)) \in Nat /\ Len(Line(k)) > 0
             /\ Line(k)[Len(Line(k))] = "LF"
             /\ \A j \in 1..(Len(Line(k)) - 1) : Line(k)[j] # "LF"
  <2>1. W(k) \in Seq(Chars) /\ Len(W(k)) \in Nat /\ \A j \in 1..Len(W(k)) : W(k)[j] # "LF"
        BY <1>0, <1>1, <1>2
  <2>2. Line(k) = W(k) \o newline
        BY DEF Line
  <2> HIDE DEF W
  <2>3. /\ Line(k) \in Seq(Chars) /\ Len(Line(k)) = Len(W(k)) + Len(newline)
        /\ \A j \in 1..(Len(W(k)) + Len(newline)) :
             Line(k)[j] = IF j <= Len(W(k)) THEN W(k)[j] ELSE newline[j - Len(W(k))]
        BY <1>4, <2>1, <2>2, ConcatProperties
  <2> DEFINE m == Len(W(k))
  <2>4. m \in Nat /\ \A j \in 1..m : Line(k)[j] # "LF"
        BY <1>4, <2>1, <2>3
  <2>5. CASE Len(newline) = 1
    <3>1. Len(Line(k)) = m + 1
          BY <2>3, <2>5
    <3>2. Line(k)[m + 1] = newline[1]
      <4>1. m + 1 \in 1..(m + Len(newline)) /\ ~(m + 1 <= m) /\ (m + 1) - m = 1
            BY <2>4, <2>5
      <4>2. QED BY <2>3, <4>1
    <3> HIDE DEF m
    <3>3. QED BY <1>4, <2>3, <2>4, <2>5, <3>1, <3>2
  <2>6. CASE Len(newline) = 2
    <3>1. Len(Line(k)) = m + 2
          BY <2>3, <2>6
    <3>2. Line(k)[m + 1] = newline[1]
      <4>1. m + 1 \in 1..(m + Len(newline)) /\ ~(m + 1 <= m) /\ (m + 1) - m = 1
            BY <2>4, <2>6
      <4>2. QED BY <2>3, <4>1
    <3>3. Line(k)[m + 2] = newline[2]
      <4>1. m + 2 \in 1..(m + Len(newline)) /\ ~(m + 2 <= m) /\ (m + 2) - m = 2
            BY <2>4, <2>6
      <4>2. QED BY <2>3, <4>1
    <3> HIDE DEF m
    <3>4. \A j \in 1..(Len(Line(k)) - 1) : j \in 1..m \/ j = m + 1
          BY <2>4, <3>1
    <3>5. QED BY <1>4, <2>3, <2>4, <2>6, <3>1, <3>2, <3>3, <3>4
  <2>7. QED BY <1>4, <2>5, <2>6
<1>6. QED BY <1>3, <1>5

\* Where the lines are in what is sent.
LEMMA StreamLine ==
  ASSUME message \in Messages, newline \in Newlines
  PROVE  /\ Stream \in Seq(Chars) /\ Len(Stream) \in Nat /\ Start(1) = 0
         /\ \A k \in 1..(Len(message) + 1) :
              /\ Start(k) \in Nat /\ Start(k) + Len(Line(k)) <= Len(Stream)
              /\ \A j \in 1..Len(Line(k)) : Stream[Start(k) + j] = Line(k)[j]
         /\ \A k \in 1..Len(message) : Start(k + 1) = Start(k) + Len(Line(k))
<1> DEFINE n == Len(message)
           P(i) == Written(SubSeq(Wires, 1, i), newline)
           w    == Written(Wires, newline)
<1>0. n \in Nat /\ DOMAIN message = 1..n
      BY MessageTyped
<1>1. Wires \in Seq(Seq(Chars)) /\ Len(Wires) = n /\ newline \in Seq(Chars)
      BY LineTyped, Ends
<1>2. \A k \in 1..n : Line(k) = Wires[k] \o newline
      BY <1>0, LineTyped DEF Line
<1>3. Line(n + 1) = <<".">> \o newline
  <2>1. n + 1 \notin DOMAIN message
        BY <1>0
  <2>2. QED BY <2>1 DEF Line
<1>4. \A k \in 1..(n + 1) : Line(k) \in Seq(Chars) /\ Len(Line(k)) \in Nat
      BY LineTyped
<1>5. w \in Seq(Chars) /\ P(0) = <<>> /\ P(n) = w
  <2>1. /\ Written(Wires, newline) \in Seq(Chars)
        /\ Written(SubSeq(Wires, 1, 0), newline) = <<>>
        /\ Written(SubSeq(Wires, 1, Len(Wires)), newline) = Written(Wires, newline)
        BY <1>1, WrittenLeads
  <2>2. Len(Wires) = Len(message)
        BY <1>1
  <2>3. QED BY <2>1, <2>2
<1>6. Stream = w \o Line(n + 1)
  <2>1. Stream = (w \o <<".">>) \o newline
        BY DEF Stream, Wires
  <2>2. <<".">> \in Seq(Chars)
        BY DEF Chars
  <2>3. (w \o <<".">>) \o newline = w \o (<<".">> \o newline)
        BY <1>1, <1>5, <2>2, ConcatAssociative
  <2>4. QED BY <1>3, <2>1, <2>3
<1>7. \A k \in 1..n :
        /\ Len(P(k)) = Len(P(k - 1)) + Len(Line(k)) /\ Len(P(k)) <= Len(w)
        /\ \A j \in 1..Len(Line(k)) : w[Len(P(k - 1)) + j] = Line(k)[j]
  <2> TAKE k \in 1..n
  <2>1. k \in 1..Len(Wires)
        BY <1>1
  <2> DEFINE q == Wires[k] \o newline
  <2>2. /\ Len(P(k)) = Len(P(k - 1)) + Len(q) /\ Len(P(k)) <= Len(w)
        /\ \A j \in 1..Len(q) : w[Len(P(k - 1)) + j] = q[j]
        BY <1>1, <2>1, WrittenLine
  <2>3. q = Line(k)
        BY <1>2
  <2> HIDE DEF q, P, w
  <2>4. QED BY <2>2, <2>3
<1>8. \A k \in 1..(n + 1) : Start(k) = Len(P(k - 1)) /\ Start(k) \in Nat
  <2> TAKE k \in 1..(n + 1)
  <2>1. k - 1 \in 0..Len(Wires)
        BY <1>0, <1>1
  <2>2. SubSeq(Wires, 1, k - 1) \in Seq(Seq(Chars))
        BY <1>1, <2>1, Leading
  <2>3. P(k - 1) \in Seq(Chars)
        BY <1>1, <2>2, WrittenLeads
  <2>4. QED BY <2>3, LenProperties DEF Start
<1>9. Start(1) = 0 /\ Start(n + 1) = Len(w)
  <2>1. 1 \in 1..(n + 1) /\ n + 1 \in 1..(n + 1) /\ 1 - 1 = 0 /\ (n + 1) - 1 = n
        BY <1>0
  <2>2. Start(1) = Len(P(1 - 1)) /\ Start(n + 1) = Len(P((n + 1) - 1))
        BY <1>8, <2>1
  <2>3. QED BY <1>5, <2>1, <2>2
<1>10. \A k \in 1..n : Start(k + 1) = Len(P(k))
  <2> TAKE k \in 1..n
  <2>1. k + 1 \in 1..(n + 1) /\ (k + 1) - 1 = k
        BY <1>0
  <2>2. Start(k + 1) = Len(P((k + 1) - 1))
        BY <1>8, <2>1
  <2>3. QED BY <2>1, <2>2
<1>11. n + 1 \in 1..(n + 1) /\ \A k \in 1..n : k \in 1..(n + 1)
       BY <1>0
<1> HIDE DEF P, w, n
<1>12. /\ Stream \in Seq(Chars) /\ Len(w) \in Nat /\ Len(Stream) = Len(w) + Len(Line(n + 1))
       /\ \A i \in 1..(Len(w) + Len(Line(n + 1))) :
            Stream[i] = IF i <= Len(w) THEN w[i] ELSE Line(n + 1)[i - Len(w)]
       BY <1>4, <1>5, <1>6, <1>11, ConcatProperties, LenProperties
<1>13. ASSUME NEW k \in 1..(n + 1)
       PROVE  /\ Start(k) \in Nat /\ Start(k) + Len(Line(k)) <= Len(Stream)
              /\ \A j \in 1..Len(Line(k)) : Stream[Start(k) + j] = Line(k)[j]
  <2>1. CASE k = n + 1
        BY <1>4, <1>9, <1>12, <2>1
  <2>2. CASE k \in 1..n
    <3>1. /\ Start(k) \in Nat /\ Len(Line(k)) \in Nat /\ Len(Line(n + 1)) \in Nat
          /\ Start(k) + Len(Line(k)) <= Len(w)
          /\ \A j \in 1..Len(Line(k)) : w[Start(k) + j] = Line(k)[j]
          BY <1>4, <1>7, <1>8, <1>11, <2>2
    <3>2. QED BY <1>12, <3>1
  <2>3. n \in Nat
        BY <1>0 DEF n
  <2>4. QED BY <2>1, <2>2, <2>3
<1>14. Len(Stream) \in Nat
       BY <1>12, LenProperties
<1>15. \A k \in 1..n : Start(k + 1) = Start(k) + Len(Line(k))
       BY <1>7, <1>8, <1>10, <1>11
<1>16. QED BY <1>9, <1>12, <1>13, <1>14, <1>15 DEF n

(***************************************************************************)
(* The parts of a file.                                                    *)
(***************************************************************************)

\* A part of a sequence.
LEMMA Part ==
  ASSUME NEW s \in Seq(Chars), NEW a \in Nat, a > 0, NEW b \in Nat, b <= Len(s), a <= b + 1
  PROVE  /\ SubSeq(s, a, b) \in Seq(Chars) /\ Len(SubSeq(s, a, b)) = b - a + 1
         /\ \A j \in 1..(b - a + 1) : SubSeq(s, a, b)[j] = s[a + j - 1]
<1>0. Len(s) \in Nat /\ DOMAIN s = 1..Len(s) /\ \A i \in 1..Len(s) : s[i] \in Chars
      BY LenProperties, ElementOfSeq
<1>1. b - a + 1 \in Nat /\ \A j \in 1..(b - a + 1) : a + j - 1 \in 1..Len(s)
      BY <1>0
<1>2. SubSeq(s, a, b) = [j \in 1..(b - a + 1) |-> s[a + j - 1]]
      BY <1>0, <1>1
<1>3. [j \in 1..(b - a + 1) |-> s[a + j - 1]] \in [1..(b - a + 1) -> Chars]
      BY <1>0, <1>1
<1>4. QED BY <1>1, <1>2, <1>3

\* The first empty line, if there is one.
LEMMA FirstBlankIs ==
  ASSUME NEW f \in Seq(Chars), BlankLines(f) # {}
  PROVE  /\ FirstBlank(f) \in BlankLines(f) /\ FirstBlank(f) \in 1..Len(f)
         /\ \A j \in BlankLines(f) : FirstBlank(f) <= j
<1>1. Len(f) \in Nat /\ DOMAIN f = 1..Len(f)
      BY LenProperties
<1>2. BlankLines(f) \subseteq 1..Len(f)
      BY <1>1 DEF BlankLines
<1>3. \E x \in BlankLines(f) : \A y \in BlankLines(f) : x <= y
      BY <1>1, <1>2, LeastExists
<1>4. FirstBlank(f) \in BlankLines(f) /\ \A j \in BlankLines(f) : FirstBlank(f) <= j
      BY <1>3 DEF FirstBlank
<1>5. QED BY <1>2, <1>4

LEMMA PartsTyped ==
  ASSUME NEW f \in Seq(Chars)
  PROVE  HeaderPart(f) \in Seq(Chars) /\ SkipHeader(f) \in Seq(Chars)
<1>1. CASE BlankLines(f) = {}
      BY <1>1 DEF HeaderPart, SkipHeader
<1>2. CASE BlankLines(f) # {}
  <2> DEFINE i == FirstBlank(f)
             o == IF f[i] = "LF" THEN 1 ELSE 2
  <2>1. Len(f) \in Nat /\ DOMAIN f = 1..Len(f)
        BY LenProperties
  <2>2. i \in 1..Len(f) /\ i \in BlankLines(f)
        BY <1>2, FirstBlankIs
  <2>3. HeaderPart(f) = SubSeq(f, 1, i - 1) /\ SkipHeader(f) = SubSeq(f, i + o, Len(f))
        BY <1>2 DEF HeaderPart, SkipHeader
  <2>4. f[i] # "LF" => i < Len(f)
        BY <2>2 DEF BlankLines
  <2>5. o \in {1, 2} /\ i + o <= Len(f) + 1
        BY <2>1, <2>2, <2>4
  <2> HIDE DEF i, o
  <2>6. i - 1 \in Nat /\ i - 1 <= Len(f) /\ 1 <= (i - 1) + 1 /\ i + o \in Nat /\ i + o > 0
        BY <2>1, <2>2, <2>5
  <2>7. SubSeq(f, 1, i - 1) \in Seq(Chars)
        BY <2>6, Part
  <2>8. SubSeq(f, i + o, Len(f)) \in Seq(Chars)
        BY <2>1, <2>5, <2>6, Part
  <2>9. QED BY <2>3, <2>7, <2>8
<1>3. QED BY <1>1, <1>2

\* One line of the headers that are added.
AddedLine(i, end) == IF Required[i] \in found THEN <<>> ELSE <<Required[i], Text>> \o end

LEMMA AddedTyped ==
  ASSUME NEW end \in Seq(Chars)
  PROVE  /\ Len(Required) \in Nat /\ DOMAIN Required = 1..Len(Required)
         /\ \A i \in 1..Len(Required) : Required[i] \in Tokens /\ Required[i] \in Chars
         /\ [i \in DOMAIN Required |-> AddedLine(i, end)] \in Seq(Seq(Chars))
         /\ Added(end) = FlattenSeq([i \in DOMAIN Required |-> AddedLine(i, end)])
         /\ Added(end) \in Seq(Chars)
<1>1. Required \in Seq(Colons \ {"X-Module:"}) /\ Colons \subseteq Tokens /\ Text \in Tokens
      BY TokensAssumption
<1>2. Len(Required) \in Nat /\ DOMAIN Required = 1..Len(Required)
      BY <1>1
<1>3. \A i \in 1..Len(Required) : Required[i] \in Tokens
      BY <1>1, ElementOfSeq
<1>4. Tokens \subseteq Chars
      BY DEF Chars
<1>5. \A i \in 1..Len(Required) : AddedLine(i, end) \in Seq(Chars)
  <2> TAKE i \in 1..Len(Required)
  <2>1. <<Required[i], Text>> \in Seq(Chars)
        BY <1>1, <1>3, <1>4
  <2>2. <<Required[i], Text>> \o end \in Seq(Chars) /\ <<>> \in Seq(Chars)
        BY <2>1, ConcatProperties
  <2>3. QED BY <2>2 DEF AddedLine
<1>6. [i \in DOMAIN Required |-> AddedLine(i, end)] \in Seq(Seq(Chars))
      BY <1>2, <1>5
<1>7. Added(end) = FlattenSeq([i \in DOMAIN Required |-> AddedLine(i, end)])
      BY DEF Added, AddedLine
<1>8. Added(end) \in Seq(Chars)
      BY <1>6, <1>7, FlattenLeads
<1>9. QED BY <1>2, <1>3, <1>4, <1>6, <1>7, <1>8

(***************************************************************************)
(* Types.                                                                  *)
(***************************************************************************)
LEMMA InitTypes == Init => TypeInv
<1> SUFFICES ASSUME Init PROVE TypeInv
    OBVIOUS
<1>1. message \in Messages /\ newline \in Newlines
      BY DEF Init
<1>2. Stream \in Seq(Chars) /\ Len(Stream) \in Nat
      BY <1>1, StreamLine
<1>3. buf \in Seq(Chars) /\ Len(buf) < MaxLine /\ spool \in Seq(Chars)
  <2>1. <<>> \in Seq(Chars) /\ Len(<<>>) = 0
        OBVIOUS
  <2>2. QED BY <2>1, DataAssumption DEF Init
<1>4. /\ taken \in Nat /\ buffered \in Nat /\ buffered <= BufSize /\ buffered <= taken
      /\ taken <= Len(Stream)
      BY <1>2, DataAssumption DEF Init
<1>5. /\ found \subseteq ToSet(Required) /\ in_header \in BOOLEAN /\ found_header \in BOOLEAN
      /\ nl = NULL /\ peer = "there" /\ pc = "line"
      BY DEF Init
<1>6. QED BY <1>1, <1>2, <1>3, <1>4, <1>5 DEF TypeInv

LEMMA StreamStays ==
  ASSUME message' = message, newline' = newline
  PROVE  Stream' = Stream
BY DEF Stream

LEMMA FillTypes == TypeInv /\ Fill => TypeInv'
<1> SUFFICES ASSUME TypeInv, Fill PROVE TypeInv'
    OBVIOUS
<1>1. Stream' = Stream
      BY StreamStays DEF Fill
<1>2. PICK k \in 1..BufSize : taken + k <= Len(Stream) /\ buffered' = k /\ taken' = taken + k
      BY DEF Fill
<1>3. taken \in Nat /\ BufSize \in Nat
      BY DataAssumption DEF TypeInv
<1>4. taken' \in Nat /\ buffered' \in Nat /\ buffered' <= BufSize /\ buffered' <= taken'
      BY <1>2, <1>3
<1>5. QED BY <1>1, <1>2, <1>4 DEF Fill, TypeInv, flags

LEMMA NextCharTypes == TypeInv /\ NextChar => TypeInv'
<1> SUFFICES ASSUME TypeInv, NextChar PROVE TypeInv'
    OBVIOUS
<1>1. Stream' = Stream
      BY StreamStays DEF NextChar
<1>2. /\ taken \in Nat /\ buffered \in Nat /\ buffered <= taken /\ taken <= Len(Stream) /\ buffered > 0
      /\ Stream \in Seq(Chars) /\ buf \in Seq(Chars) /\ Len(buf) < MaxLine /\ MaxLine \in Nat
      /\ buf' = Append(buf, Stream[taken - buffered + 1]) /\ buffered' = buffered - 1
      BY DataAssumption DEF TypeInv, NextChar
<1>3. Len(Stream) \in Nat /\ Len(buf) \in Nat
      BY <1>2, LenProperties
<1>4. taken - buffered + 1 \in 1..Len(Stream)
      BY <1>2, <1>3
<1>5. Stream[taken - buffered + 1] \in Chars
      BY <1>2, <1>4, ElementOfSeq
<1>6. buf' \in Seq(Chars) /\ Len(buf') = Len(buf) + 1
      BY <1>2, <1>5, AppendProperties
<1>7. Len(buf') < MaxLine
      BY <1>2, <1>3, <1>6 DEF NextChar, LineRead, Full
<1>8. buffered' \in Nat /\ buffered' <= BufSize /\ buffered' <= taken
      BY <1>2, DataAssumption DEF TypeInv
<1>9. QED BY <1>1, <1>6, <1>7, <1>8 DEF NextChar, TypeInv, flags

LEMMA PeerGoneTypes == TypeInv /\ PeerGone => TypeInv'
<1> SUFFICES ASSUME TypeInv, PeerGone PROVE TypeInv'
    OBVIOUS
<1>1. Stream' = Stream
      BY StreamStays DEF PeerGone
<1>2. QED BY <1>1 DEF PeerGone, TypeInv, flags

LEMMA EofInLineTypes == TypeInv /\ EofInLine => TypeInv'
<1> SUFFICES ASSUME TypeInv, EofInLine PROVE TypeInv'
    OBVIOUS
<1>1. Stream' = Stream
      BY StreamStays DEF EofInLine, reader
<1>2. /\ buf \in Seq(Chars) /\ buf # <<>> /\ Len(buf) < MaxLine /\ MaxLine \in Nat
      /\ buf' = Append(buf, Last(buf))
      BY DataAssumption DEF TypeInv, EofInLine
<1>3. Len(buf) \in Nat /\ Len(buf) > 0
      BY <1>2, LenProperties, EmptySeq
<1>4. Last(buf) \in Chars
      BY <1>2, <1>3, ElementOfSeq DEF Last
<1>5. buf' \in Seq(Chars) /\ Len(buf') = Len(buf) + 1
      BY <1>2, <1>4, AppendProperties
<1>6. Len(buf') < MaxLine
      BY <1>2, <1>3, <1>5 DEF EofInLine, LineRead, Full
<1>7. QED BY <1>1, <1>5, <1>6 DEF EofInLine, TypeInv, reader, flags

\* The reader is emptied when a line has been read.
LEMMA EmptyBuf == <<>> \in Seq(Chars) /\ Len(<<>>) < MaxLine
BY DataAssumption

LEMMA EndTypes == TypeInv /\ (EndOfInput \/ EndOfData) => TypeInv'
<1> SUFFICES ASSUME TypeInv, EndOfInput \/ EndOfData PROVE TypeInv'
    OBVIOUS
<1>0. /\ buf' = <<>> /\ pc' = "headers" /\ message' = message /\ newline' = newline
      /\ taken' = taken /\ buffered' = buffered /\ peer' = peer /\ found' = found
      /\ in_header' = in_header /\ found_header' = found_header /\ nl' = nl /\ spool' = spool
      BY DEF EndOfInput, EndOfData, reader, flags
<1>1. Stream' = Stream
      BY <1>0, StreamStays
<1>2. QED BY <1>0, <1>1, EmptyBuf DEF TypeInv

LEMMA UnstuffedTyped ==
  ASSUME NEW b \in Seq(Chars)
  PROVE  Unstuffed(b) \in Seq(Chars)
<1>1. CASE Starts(b, <<".">>)
  <2>1. Len(b) \in Nat /\ Len(b) >= 1 /\ Len(<<".">>) = 1
        BY <1>1, LenProperties DEF Starts
  <2>2. b # <<>>
        BY <2>1
  <2>3. Tail(b) \in Seq(Chars)
        BY <2>2, HeadTailProperties
  <2>4. QED BY <1>1, <2>3 DEF Unstuffed
<1>2. QED BY <1>1 DEF Unstuffed

LEMMA TakeLineTypes == TypeInv /\ TakeLine => TypeInv'
<1> SUFFICES ASSUME TypeInv, TakeLine PROVE TypeInv'
    OBVIOUS
<1> DEFINE b == Unstuffed(buf)
<1>0. /\ buf' = <<>> /\ pc' = "line" /\ message' = message /\ newline' = newline
      /\ taken' = taken /\ buffered' = buffered /\ peer' = peer
      /\ found' = found \cup FoundIn(b) /\ nl' = (IF nl = NULL THEN Linebreak(b) ELSE nl)
      /\ in_header' = (in_header /\ ~Starts(b, <<"LF">>) /\ ~Starts(b, <<"CR">>))
      /\ found_header' = (found_header \/ ToSet(b) \cap Colons # {})
      /\ spool' = spool \o b
      BY DEF TakeLine, reader
<1>1. Stream' = Stream
      BY <1>0, StreamStays
<1>2. b \in Seq(Chars) /\ spool \in Seq(Chars)
      BY UnstuffedTyped DEF TypeInv
<1> HIDE DEF b
<1>3. spool' \in Seq(Chars)
      BY <1>0, <1>2, ConcatProperties
<1>4. nl' \in {NULL, <<"CR">>, <<"CR", "LF">>, <<"LF">>}
      BY <1>0 DEF TypeInv, Linebreak
<1>5. found' \subseteq ToSet(Required)
      BY <1>0 DEF TypeInv, FoundIn
<1>6. in_header' \in BOOLEAN /\ found_header' \in BOOLEAN
      BY <1>0, Zenon
<1>7. QED BY <1>0, <1>1, <1>3, <1>4, <1>5, <1>6, EmptyBuf DEF TypeInv

LEMMA AppendHeadersTypes == TypeInv /\ AppendHeaders => TypeInv'
<1> SUFFICES ASSUME TypeInv, AppendHeaders PROVE TypeInv'
    OBVIOUS
<1> DEFINE end == IF nl = NULL THEN <<"(null)">> ELSE nl
           sep == IF found_header THEN <<>> ELSE end
<1>1. Stream' = Stream
      BY StreamStays DEF AppendHeaders, reader
<1>2. end \in Seq(Chars)
  <2>1. {"(null)", "CR", "LF"} \subseteq Chars
        BY DEF Chars
  <2>2. /\ <<"(null)">> \in Seq(Chars) /\ <<"CR">> \in Seq(Chars) /\ <<"CR", "LF">> \in Seq(Chars)
        /\ <<"LF">> \in Seq(Chars)
        BY <2>1
  <2>3. QED BY <2>2 DEF TypeInv
<1>3. spool' = spool \/ spool' = (Added(end) \o sep) \o spool
      BY DEF AppendHeaders
<1> HIDE DEF end
<1>4. spool \in Seq(Chars) /\ Added(end) \in Seq(Chars) /\ sep \in Seq(Chars)
  <2>1. Added(end) \in Seq(Chars)
        BY <1>2, AddedTyped
  <2>2. <<>> \in Seq(Chars)
        OBVIOUS
  <2>3. QED BY <1>2, <2>1, <2>2 DEF TypeInv
<1> HIDE DEF sep
<1>5. spool' \in Seq(Chars)
  <2>1. Added(end) \o sep \in Seq(Chars)
        BY <1>4, ConcatProperties
  <2>2. (Added(end) \o sep) \o spool \in Seq(Chars)
        BY <1>4, <2>1, ConcatProperties
  <2>3. QED BY <1>3, <1>4, <2>2
<1>6. QED BY <1>1, <1>5 DEF AppendHeaders, TypeInv, reader, flags

LEMMA FlushDirtyTypes == TypeInv /\ FlushDirty => TypeInv'
<1> SUFFICES ASSUME TypeInv, FlushDirty PROVE TypeInv'
    OBVIOUS
<1>1. Stream' = Stream
      BY StreamStays DEF FlushDirty, reader
<1>2. PICK end \in Newlines :
        spool' = (((HeaderPart(spool) \o <<"X-Module:", Text>>) \o end) \o end) \o SkipHeader(spool)
      BY DEF FlushDirty
<1>3. HeaderPart(spool) \in Seq(Chars) /\ SkipHeader(spool) \in Seq(Chars) /\ end \in Seq(Chars)
      BY PartsTyped, Ends DEF TypeInv
<1>4. <<"X-Module:", Text>> \in Seq(Chars)
  <2>1. "X-Module:" \in Chars /\ Text \in Chars
        BY TokensAssumption DEF Chars
  <2>2. QED BY <2>1
<1>5. HeaderPart(spool) \o <<"X-Module:", Text>> \in Seq(Chars)
      BY <1>3, <1>4, ConcatProperties
<1>6. (HeaderPart(spool) \o <<"X-Module:", Text>>) \o end \in Seq(Chars)
      BY <1>3, <1>5, ConcatProperties
<1>7. ((HeaderPart(spool) \o <<"X-Module:", Text>>) \o end) \o end \in Seq(Chars)
      BY <1>3, <1>6, ConcatProperties
<1>8. spool' \in Seq(Chars)
      BY <1>2, <1>3, <1>7, ConcatProperties
<1>9. QED BY <1>1, <1>8 DEF FlushDirty, TypeInv, reader, flags

LEMMA QueueTypes == TypeInv /\ (NotDirty \/ DeliverToFile) => TypeInv'
<1> SUFFICES ASSUME TypeInv, NotDirty \/ DeliverToFile PROVE TypeInv'
    OBVIOUS
<1>0. /\ buf' = buf /\ pc' \in {"deliver", "done"} /\ message' = message /\ newline' = newline
      /\ taken' = taken /\ buffered' = buffered /\ peer' = peer /\ found' = found
      /\ in_header' = in_header /\ found_header' = found_header /\ nl' = nl /\ spool' = spool
      BY DEF NotDirty, DeliverToFile, reader, flags
<1>1. Stream' = Stream
      BY <1>0, StreamStays
<1>2. QED BY <1>0, <1>1 DEF TypeInv

LEMMA StutterTypes == TypeInv /\ UNCHANGED vars => TypeInv'
<1> SUFFICES ASSUME TypeInv, UNCHANGED vars PROVE TypeInv'
    OBVIOUS
<1>1. Stream' = Stream
      BY StreamStays DEF vars, reader
<1>2. QED BY <1>1 DEF TypeInv, vars, reader, flags

LEMMA TypesStep == TypeInv /\ [Next]_vars => TypeInv'
BY FillTypes, NextCharTypes, PeerGoneTypes, EofInLineTypes, EndTypes, TakeLineTypes,
   AppendHeadersTypes, FlushDirtyTypes, QueueTypes, StutterTypes DEF Next

LEMMA TypesHold == TypeInv => TypeOK
<1> SUFFICES ASSUME TypeInv PROVE TypeOK
    OBVIOUS
<1>1. Len(Stream) \in Nat /\ BufSize \in Nat
      BY DataAssumption, LenProperties DEF TypeInv
<1>2. taken \in 0..Len(Stream) /\ buffered \in 0..BufSize
      BY <1>1 DEF TypeInv
<1>3. QED BY <1>2 DEF TypeInv, TypeOK

\* What is read is never more than there is, and a line never longer than the place for it
\* (smf_internal_readcbuf, smf_internal_readline).
THEOREM DataTypesHold == Spec => []TypeOK
<1>1. Spec => []TypeInv
      BY InitTypes, TypesStep, PTL DEF Spec
<1>2. QED BY <1>1, TypesHold, PTL

(***************************************************************************)
(* Lines that are read.                                                    *)
(***************************************************************************)
LEMMA StartsIs ==
  ASSUME NEW s \in Seq(Chars), NEW t \in Seq(Chars)
  PROVE  Starts(s, t) <=> Len(s) >= Len(t) /\ \A i \in 1..Len(t) : s[i] = t[i]
<1>0. Len(s) \in Nat /\ Len(t) \in Nat
      BY LenProperties
<1>1. CASE Len(s) >= Len(t)
  <2> DEFINE p == SubSeq(s, 1, Len(t))
  <2>1. Len(t) \in 0..Len(s)
        BY <1>0, <1>1
  <2>2. p \in Seq(Chars) /\ Len(p) = Len(t) /\ \A i \in 1..Len(t) : p[i] = s[i]
        BY <2>1, Leading
  <2> HIDE DEF p
  <2>3. p = t <=> \A i \in 1..Len(t) : p[i] = t[i]
        BY <2>2, SeqEqual
  <2>4. p = t <=> \A i \in 1..Len(t) : s[i] = t[i]
        BY <2>2, <2>3
  <2>5. Starts(s, t) <=> p = t
        BY <1>1 DEF Starts, p
  <2>6. QED BY <1>1, <2>4, <2>5
<1>2. CASE ~(Len(s) >= Len(t))
      BY <1>2 DEF Starts
<1>3. QED BY <1>1, <1>2

LEMMA StartsOne ==
  ASSUME NEW s \in Seq(Chars), NEW c \in Chars
  PROVE  Starts(s, <<c>>) <=> Len(s) >= 1 /\ s[1] = c
<1>1. <<c>> \in Seq(Chars) /\ Len(<<c>>) = 1 /\ <<c>>[1] = c
      OBVIOUS
<1>2. Starts(s, <<c>>) <=> Len(s) >= Len(<<c>>) /\ \A i \in 1..Len(<<c>>) : s[i] = <<c>>[i]
      BY <1>1, StartsIs
<1>3. \A i \in 1..1 : i = 1
      OBVIOUS
<1>4. QED BY <1>1, <1>2, <1>3

\* The line with the dot is the end, and it is the only one.
LEMMA EndLine ==
  ASSUME NEW b \in Seq(Chars), NEW end \in Newlines
  PROVE  /\ b = <<".">> \o end => Starts(b, <<".", "CR", "LF">>) \/ Starts(b, <<".", "LF">>)
         /\ Starts(b, <<".", "CR", "LF">>) \/ Starts(b, <<".", "LF">>)
              => Len(b) >= 2 /\ b[1] = "." /\ b[2] \in {"CR", "LF"}
<1>0. Len(b) \in Nat
      BY LenProperties
<1>1. /\ <<".", "CR", "LF">> \in Seq(Chars) /\ Len(<<".", "CR", "LF">>) = 3
      /\ <<".", "CR", "LF">>[1] = "." /\ <<".", "CR", "LF">>[2] = "CR"
      /\ <<".", "LF">> \in Seq(Chars) /\ Len(<<".", "LF">>) = 2
      /\ <<".", "LF">>[1] = "." /\ <<".", "LF">>[2] = "LF"
  <2>1. "." \in Chars /\ "CR" \in Chars /\ "LF" \in Chars
        BY DEF Chars
  <2>2. QED BY <2>1
<1>2. ASSUME Starts(b, <<".", "CR", "LF">>) \/ Starts(b, <<".", "LF">>)
      PROVE  Len(b) >= 2 /\ b[1] = "." /\ b[2] \in {"CR", "LF"}
  <2>1. CASE Starts(b, <<".", "CR", "LF">>)
    <3>1. Len(b) >= 3 /\ \A i \in 1..3 : b[i] = <<".", "CR", "LF">>[i]
          BY <1>1, <2>1, StartsIs
    <3>2. QED BY <1>0, <1>1, <3>1
  <2>2. CASE Starts(b, <<".", "LF">>)
    <3>1. Len(b) >= 2 /\ \A i \in 1..2 : b[i] = <<".", "LF">>[i]
          BY <1>1, <2>2, StartsIs
    <3>2. QED BY <1>1, <3>1
  <2>3. QED BY <1>2, <2>1, <2>2
<1>3. ASSUME b = <<".">> \o end
      PROVE  Starts(b, <<".", "CR", "LF">>) \/ Starts(b, <<".", "LF">>)
  <2>0. /\ "." \in Chars /\ <<".">> \in Seq(Chars) /\ Len(<<".">>) = 1 /\ <<".">>[1] = "."
        /\ end \in Seq(Chars) /\ Len(end) \in {1, 2}
        /\ Len(end) = 1 => end[1] = "LF"
        /\ Len(end) = 2 => end[1] = "CR" /\ end[2] = "LF"
        BY Ends DEF Chars
  <2>1. /\ Len(b) = 1 + Len(end)
        /\ \A j \in 1..(1 + Len(end)) : b[j] = IF j <= 1 THEN <<".">>[j] ELSE end[j - 1]
        BY <1>3, <2>0, ConcatProperties
  <2>2. CASE Len(end) = 2
    <3>1. b[1] = "." /\ b[2] = "CR" /\ b[3] = "LF"
          BY <2>0, <2>1, <2>2
    <3>2. <<".", "CR", "LF">>[3] = "LF" /\ \A i \in 1..3 : i = 1 \/ i = 2 \/ i = 3
          OBVIOUS
    <3>3. \A i \in 1..3 : b[i] = <<".", "CR", "LF">>[i]
          BY <1>1, <3>1, <3>2
    <3>4. QED BY <1>1, <2>1, <2>2, <3>3, StartsIs
  <2>3. CASE Len(end) = 1
    <3>1. b[1] = "." /\ b[2] = "LF"
          BY <2>0, <2>1, <2>3
    <3>2. \A i \in 1..2 : b[i] = <<".", "LF">>[i]
          BY <1>1, <3>1
    <3>3. QED BY <1>1, <2>1, <2>3, <3>2, StartsIs
  <2>4. QED BY <2>0, <2>2, <2>3
<1>4. QED BY <1>2, <1>3

\* A stuffed line is not the end, and without the dot it is the line of the message.
LEMMA StuffedLine ==
  ASSUME message \in Messages, newline \in Newlines, NEW k \in 1..Len(message)
  PROVE  /\ Line(k) = Stuffed(message[k]) \o newline
         /\ ~(Starts(Line(k), <<".", "CR", "LF">>) \/ Starts(Line(k), <<".", "LF">>))
         /\ Unstuffed(Line(k)) = message[k] \o newline
<1> DEFINE l == message[k]
<1>0. /\ l \in Seq(Chars) /\ Len(l) \in Nat /\ k \in DOMAIN message
      /\ \A j \in 1..Len(l) : l[j] \notin {"CR", "LF"}
      BY MessageTyped
<1>1. /\ newline \in Seq(Chars) /\ Len(newline) \in {1, 2} /\ newline[1] \in {"CR", "LF"}
      BY Ends
<1>2. Line(k) = Stuffed(l) \o newline
      BY <1>0 DEF Line
<1>3. "." \in Chars /\ <<".">> \in Seq(Chars) /\ Len(<<".">>) = 1 /\ <<".">>[1] = "."
      BY DEF Chars
<1>d. DOMAIN l = 1..Len(l) /\ (l # <<>> <=> Len(l) > 0)
      BY <1>0, LenProperties, EmptySeq
<1> HIDE DEF l
<1>4. /\ l \o newline \in Seq(Chars) /\ Len(l \o newline) = Len(l) + Len(newline)
      /\ \A j \in 1..(Len(l) + Len(newline)) :
           (l \o newline)[j] = IF j <= Len(l) THEN l[j] ELSE newline[j - Len(l)]
      BY <1>0, <1>1, ConcatProperties
<1>5. CASE l # <<>> /\ l[1] = "."
  <2>1. Line(k) = (<<".">> \o l) \o newline
        BY <1>2, <1>5 DEF Stuffed
  <2>2. Line(k) = <<".">> \o (l \o newline)
        BY <1>0, <1>1, <1>3, <2>1, ConcatAssociative
  <2> DEFINE t == l \o newline
  <2>3. t \in Seq(Chars) /\ Len(t) \in Nat /\ Len(t) >= 2 /\ t[1] = "."
        BY <1>0, <1>1, <1>d, <1>4, <1>5
  <2> HIDE DEF t
  <2>4. /\ Line(k) \in Seq(Chars) /\ Len(Line(k)) = 1 + Len(t)
        /\ \A j \in 1..(1 + Len(t)) : Line(k)[j] = IF j <= 1 THEN <<".">>[j] ELSE t[j - 1]
        BY <1>3, <2>2, <2>3, ConcatProperties DEF t
  <2>5. Line(k)[1] = "." /\ Line(k)[2] = "."
        BY <1>3, <2>3, <2>4
  <2>6. ~(Starts(Line(k), <<".", "CR", "LF">>) \/ Starts(Line(k), <<".", "LF">>))
    <3>1. Line(k)[2] \notin {"CR", "LF"}
          BY <2>5
    <3>2. QED BY <2>4, <3>1, EndLine
  <2>7. Starts(Line(k), <<".">>)
        BY <1>3, <2>3, <2>4, <2>5, StartsOne
  <2>8. Tail(Line(k)) = t
    <3>1. Line(k) # <<>>
          BY <2>3, <2>4
    <3>2. /\ Tail(Line(k)) \in Seq(Chars) /\ Len(Tail(Line(k))) = Len(Line(k)) - 1
          /\ \A i \in 1..Len(Tail(Line(k))) : Tail(Line(k))[i] = Line(k)[i + 1]
          BY <2>4, <3>1, HeadTailProperties
    <3>3. \A i \in 1..Len(t) : Line(k)[i + 1] = t[i]
      <4> TAKE i \in 1..Len(t)
      <4>1. i + 1 \in 1..(1 + Len(t)) /\ ~(i + 1 <= 1) /\ (i + 1) - 1 = i
            BY <2>3
      <4>2. QED BY <2>4, <4>1
    <3>4. Len(Tail(Line(k))) = Len(t) /\ \A i \in 1..Len(t) : Tail(Line(k))[i] = t[i]
          BY <2>3, <2>4, <3>2, <3>3
    <3>5. QED BY <2>3, <3>2, <3>4, SeqEqual
  <2>9. Unstuffed(Line(k)) = t
        BY <2>7, <2>8 DEF Unstuffed
  <2>10. QED BY <1>2, <2>6, <2>9 DEF t, l
<1>6. CASE ~(l # <<>> /\ l[1] = ".")
  <2>1. Line(k) = l \o newline
        BY <1>2, <1>6 DEF Stuffed
  <2>2. Line(k)[1] # "." /\ Line(k) \in Seq(Chars)
    <3>1. CASE Len(l) > 0
          BY <1>0, <1>1, <1>d, <1>4, <1>6, <2>1, <3>1
    <3>2. CASE Len(l) = 0
          BY <1>1, <1>4, <2>1, <3>2
    <3>3. QED BY <1>0, <3>1, <3>2
  <2>3. ~(Starts(Line(k), <<".", "CR", "LF">>) \/ Starts(Line(k), <<".", "LF">>))
        BY <2>2, EndLine
  <2>4. ~Starts(Line(k), <<".">>)
        BY <1>3, <2>2, StartsOne
  <2>5. QED BY <1>2, <2>1, <2>3, <2>4 DEF Unstuffed, l
<1>7. QED BY <1>5, <1>6

\* There is place for every line.
LEMMA FitsLine ==
  ASSUME message \in Messages, newline \in Newlines, WellFormed, Fits,
         NEW k \in 1..(Len(message) + 1)
  PROVE  Len(Line(k)) < MaxLine
<1> DEFINE n == Len(message)
<1>0. n \in Nat /\ DOMAIN message = 1..n
      BY MessageTyped
<1>1. \A i \in 1..n : Len(Line(i)) < MaxLine
      BY <1>0, StuffedLine DEF Fits
<1>2. CASE k \in 1..n
      BY <1>1, <1>2
<1>3. CASE k = n + 1
  <2>1. Top >= 1 /\ Top \in 0..n /\ \A i \in 1..Top : message[i] # <<>>
    <3>1. HeaderLines = SubSeq(message, 1, Top) /\ Top \in 0..n /\ \A i \in 1..Top : message[i] # <<>>
          BY HeaderShape
    <3>2. HeaderLines # <<>> /\ message \in Seq(Seq(Chars))
          BY MessageTyped DEF WellFormed
    <3>3. Top # 0
      <4> SUFFICES ASSUME Top = 0 PROVE FALSE
          OBVIOUS
      <4>1. HeaderLines \in Seq(Seq(Chars)) /\ Len(HeaderLines) = 0
            BY <3>1, <3>2, Leading
      <4>2. QED BY <3>2, <4>1, EmptySeq
    <3>4. QED BY <1>0, <3>1, <3>3
  <2>2. 1 \in 1..n /\ message[1] # <<>>
        BY <1>0, <2>1
  <2>3. message[1] \in Seq(Chars) /\ Len(message[1]) > 0
        BY <2>2, MessageTyped, EmptySeq
  <2>4. /\ "." \in Chars /\ <<".">> \in Seq(Chars) /\ Len(<<".">>) = 1
        /\ newline \in Seq(Chars) /\ Len(newline) \in Nat
        BY Ends DEF Chars
  <2>5. Stuffed(message[1]) \in Seq(Chars) /\ Len(Stuffed(message[1])) >= 1
    <3>1. <<".">> \o message[1] \in Seq(Chars) /\ Len(<<".">> \o message[1]) = 1 + Len(message[1])
          BY <2>3, <2>4, ConcatProperties
    <3>2. Len(message[1]) \in Nat
          BY <2>3, LenProperties
    <3>3. QED BY <2>3, <3>1, <3>2 DEF Stuffed
  <2>6. Len(Line(1)) = Len(Stuffed(message[1])) + Len(newline)
        BY <2>2, <2>4, <2>5, StuffedLine, ConcatProperties
  <2>7. Line(k) = <<".">> \o newline
    <3>1. k \notin DOMAIN message
          BY <1>0, <1>3
    <3>2. QED BY <3>1 DEF Line
  <2>8. Len(Line(k)) = 1 + Len(newline)
        BY <2>4, <2>7, ConcatProperties
  <2>9. Len(Stuffed(message[1])) \in Nat /\ Len(Line(1)) < MaxLine
        BY <1>1, <2>2, <2>5, LenProperties
  <2>10. QED BY <2>4, <2>5, <2>6, <2>8, <2>9, DataAssumption
<1>4. QED BY <1>0, <1>2, <1>3

\* A line is read when all of it is there, and not before.
LEMMA LineIsRead ==
  ASSUME TypeInv, WellFormed, Fits, NEW k \in 0..Len(message), InLine(k)
  PROVE  /\ LineRead => buf = Line(k + 1)
         /\ ~LineRead => Len(buf) < Len(Line(k + 1))
<1> DEFINE l == Line(k + 1)
<1>0. message \in Messages /\ newline \in Newlines /\ Len(message) \in Nat
      BY MessageTyped DEF TypeInv
<1>1. k + 1 \in 1..(Len(message) + 1)
      BY <1>0
<1>2. /\ l \in Seq(Chars) /\ Len(l) \in Nat /\ Len(l) > 0 /\ l[Len(l)] = "LF"
      /\ \A j \in 1..(Len(l) - 1) : l[j] # "LF"
      BY <1>0, <1>1, LineTyped
<1>3. Len(l) < MaxLine
      BY <1>0, <1>1, FitsLine
<1>4. Len(buf) <= Len(l) /\ \A j \in 1..Len(buf) : buf[j] = l[j]
      BY DEF InLine
<1>5. buf \in Seq(Chars) /\ Len(buf) \in Nat /\ (buf # <<>> <=> Len(buf) > 0)
      BY LenProperties, EmptySeq DEF TypeInv
<1> HIDE DEF l
<1>6. ASSUME LineRead PROVE Len(buf) = Len(l)
  <2>1. CASE Full
        BY <1>2, <1>3, <1>4, <1>5, <2>1, DataAssumption DEF Full
  <2>2. CASE buf # <<>> /\ Last(buf) = "LF"
    <3>1. Len(buf) \in 1..Len(l) /\ l[Len(buf)] = "LF"
          BY <1>2, <1>4, <1>5, <2>2 DEF Last
    <3>2. QED BY <1>2, <3>1
  <2>3. QED BY <1>6, <2>1, <2>2 DEF LineRead
<1>7. ASSUME Len(buf) = Len(l) PROVE buf = l /\ LineRead
  <2>1. buf = l
        BY <1>2, <1>4, <1>5, <1>7, SeqEqual
  <2>2. Last(buf) = "LF"
        BY <1>2, <2>1 DEF Last
  <2>3. QED BY <1>2, <1>5, <1>7, <2>1, <2>2 DEF LineRead
<1>8. QED BY <1>2, <1>4, <1>5, <1>6, <1>7 DEF l

LEMMA HasIs ==
  ASSUME NEW s \in Seq(Chars), NEW t \in Seq(Chars)
  PROVE  Has(s, t) <=>
           \E i \in 1..(Len(s) - Len(t) + 1) : \A j \in 1..Len(t) : s[i + j - 1] = t[j]
<1>0. Len(s) \in Nat /\ Len(t) \in Nat
      BY LenProperties
<1>1. ASSUME NEW i \in 1..(Len(s) - Len(t) + 1)
      PROVE  SubSeq(s, i, i + Len(t) - 1) = t <=> \A j \in 1..Len(t) : s[i + j - 1] = t[j]
  <2> DEFINE b == i + Len(t) - 1
             p == SubSeq(s, i, b)
  <2>1. i \in Nat /\ i > 0 /\ b \in Nat /\ b <= Len(s) /\ i <= b + 1 /\ b - i + 1 = Len(t)
        BY <1>0
  <2>2. /\ p \in Seq(Chars) /\ Len(p) = b - i + 1
        /\ \A j \in 1..(b - i + 1) : p[j] = s[i + j - 1]
        BY <2>1, Part
  <2> HIDE DEF b, p
  <2>3. p = t <=> \A j \in 1..Len(t) : p[j] = t[j]
        BY <2>1, <2>2, SeqEqual
  <2>4. p = t <=> \A j \in 1..Len(t) : s[i + j - 1] = t[j]
        BY <2>1, <2>2, <2>3
  <2>5. QED BY <2>4 DEF p, b
<1>2. QED BY <1>1 DEF Has

\* The first line shows how the client ends its lines.
LEMMA LinebreakIs ==
  ASSUME NEW l \in Seq(Chars), \A j \in 1..Len(l) : l[j] \notin {"CR", "LF"}, NEW end \in Newlines
  PROVE  Linebreak(l \o end) = end
<1> DEFINE b == l \o end
           m == Len(l)
<1>0. m \in Nat /\ end \in Seq(Chars)
      BY Ends, LenProperties
<1>1. /\ b \in Seq(Chars) /\ Len(b) = m + Len(end)
      /\ \A j \in 1..(m + Len(end)) : b[j] = IF j <= m THEN l[j] ELSE end[j - m]
      BY <1>0, ConcatProperties
<1>2. /\ <<"CR", "LF">> \in Seq(Chars) /\ <<"LF">> \in Seq(Chars)
      /\ Len(<<"CR", "LF">>) = 2 /\ <<"CR", "LF">>[1] = "CR" /\ <<"CR", "LF">>[2] = "LF"
      /\ Len(<<"LF">>) = 1 /\ <<"LF">>[1] = "LF"
  <2>1. "CR" \in Chars /\ "LF" \in Chars
        BY DEF Chars
  <2>2. QED BY <2>1
<1>3. CASE end = <<"CR", "LF">>
  <2>1. m + 1 \in 1..(m + 2) /\ m + 2 \in 1..(m + 2) /\ (m + 1) - m = 1 /\ (m + 2) - m = 2
        BY <1>0
  <2>2. b[m + 1] = "CR" /\ b[m + 2] = "LF" /\ Len(b) = m + 2
        BY <1>0, <1>1, <1>2, <1>3, <2>1
  <2> HIDE DEF b, m
  <2>3. m + 1 \in 1..(Len(b) - 2 + 1) /\ (m + 1) + 1 - 1 = m + 1 /\ (m + 1) + 2 - 1 = m + 2
        BY <1>0, <2>2
  <2>4. \A j \in 1..2 : b[(m + 1) + j - 1] = <<"CR", "LF">>[j]
    <3>1. \A j \in 1..2 : j = 1 \/ j = 2
          OBVIOUS
    <3>2. QED BY <1>2, <2>2, <2>3, <3>1
  <2>5. Has(b, <<"CR", "LF">>)
        BY <1>1, <1>2, <2>3, <2>4, HasIs
  <2>6. QED BY <1>3, <2>5 DEF Linebreak, b
<1>4. CASE end = <<"LF">>
  <2>1. m + 1 \in 1..(m + 1) /\ (m + 1) - m = 1
        BY <1>0
  <2>2. b[m + 1] = "LF" /\ Len(b) = m + 1
        BY <1>0, <1>1, <1>2, <1>4, <2>1
  <2>3. \A i \in 1..(m + 1) : b[i] # "CR"
    <3>1. \A i \in 1..m : b[i] # "CR"
          BY <1>0, <1>1, <1>2, <1>4
    <3>2. QED BY <1>0, <2>2, <3>1
  <2> HIDE DEF b, m
  <2>4. ~Has(b, <<"CR", "LF">>)
    <3> SUFFICES ASSUME Has(b, <<"CR", "LF">>) PROVE FALSE
        OBVIOUS
    <3>1. PICK i \in 1..(Len(b) - 2 + 1) : \A j \in 1..2 : b[i + j - 1] = <<"CR", "LF">>[j]
          BY <1>1, <1>2, HasIs
    <3>2. b[i + 1 - 1] = <<"CR", "LF">>[1]
          BY <3>1
    <3>3. i + 1 - 1 = i /\ i \in 1..(m + 1)
          BY <1>0, <2>2
    <3>4. QED BY <1>2, <2>3, <3>2, <3>3
  <2>5. Has(b, <<"LF">>)
    <3>1. m + 1 \in 1..(Len(b) - 1 + 1) /\ (m + 1) + 1 - 1 = m + 1
          BY <1>0, <2>2
    <3>2. \A j \in 1..1 : b[(m + 1) + j - 1] = <<"LF">>[j]
      <4>1. \A j \in 1..1 : j = 1
            OBVIOUS
      <4>2. QED BY <1>2, <2>2, <3>1, <4>1
    <3>3. QED BY <1>1, <1>2, <3>1, <3>2, HasIs
  <2>6. QED BY <1>4, <2>4, <2>5 DEF Linebreak, b
<1>5. QED BY <1>3, <1>4, DataAssumption

(***************************************************************************)
(* Reading keeps the content.                                              *)
(***************************************************************************)

\* What the client sends stays the same.
LEMMA SentStays ==
  ASSUME message' = message, newline' = newline
  PROVE  /\ Stream' = Stream /\ WellFormed' = WellFormed /\ Fits' = Fits
         /\ Len(message)' = Len(message) /\ Top' = Top
         /\ \A k : Line(k)' = Line(k) /\ Start(k)' = Start(k) /\ SentUpTo(k)' = SentUpTo(k)
<1>1. HeaderLines' = HeaderLines
      BY DEF HeaderLines, Blanks
<1>2. Wires' = Wires
      BY DEF Wires
<1>3. \A k : Line(k)' = Line(k) /\ Start(k)' = Start(k)
      BY <1>2 DEF Line, Start
<1>4. Top' = Top
      BY <1>1 DEF Top
<1>5. \A k : SentUpTo(k)' = SentUpTo(k)
      BY <1>4 DEF SentUpTo
<1>6. QED BY <1>1, <1>3, <1>4, <1>5 DEF Stream, WellFormed, Fits

LEMMA InitContent == Init => ContentInv
<1> SUFFICES ASSUME Init PROVE ContentInv
    OBVIOUS
<1>0. message \in Messages /\ newline \in Newlines
      BY DEF Init
<1>1. /\ message \in Seq(Seq(Chars)) /\ Len(message) \in Nat /\ newline \in Seq(Chars)
      /\ Top \in 0..Len(message)
      BY <1>0, MessageTyped, HeaderShape, Ends
<1>2. Written(SubSeq(message, 1, 0), newline) = <<>>
      BY <1>1, WrittenLeads
<1>3. SentUpTo(0) = {}
      BY DEF SentUpTo
<1>4. Taken(0)
  <2>1. (0 <= Top) = TRUE /\ (0 > 0) = FALSE
        BY <1>1
  <2>2. in_header = TRUE /\ found_header = FALSE
        BY Zenon DEF Init
  <2>3. in_header = (0 <= Top) /\ found_header = (0 > 0)
        BY <2>1, <2>2, Zenon
  <2>4. spool = <<>> /\ found = {} /\ nl = NULL
        BY DEF Init
  <2>5. QED BY <1>2, <1>3, <2>3, <2>4 DEF Taken
<1>5. InLine(0)
  <2>1. Start(1) = 0 /\ Line(1) \in Seq(Chars) /\ Len(Line(1)) \in Nat
    <3>1. 1 \in 1..(Len(message) + 1)
          BY <1>1
    <3>2. QED BY <1>0, <3>1, StreamLine, LineTyped
  <2>2. buf = <<>> /\ taken - buffered = 0 /\ Len(buf) = 0 /\ 0 + 1 = 1
        BY DEF Init
  <2>3. QED BY <2>1, <2>2 DEF InLine
<1>6. 0 \in 0..Len(message) /\ pc = "line"
      BY <1>1 DEF Init
<1>7. QED BY <1>4, <1>5, <1>6 DEF ContentInv

\* The line that is being read, when no line is taken.
LEMMA ReadingContent ==
  ASSUME TypeInv, ContentInv, message' = message, newline' = newline, spool' = spool,
         found' = found, in_header' = in_header, found_header' = found_header, nl' = nl,
         pc = "line", pc' = "line", peer = "there",
         \A k \in 0..Len(message) : InLine(k) /\ WellFormed /\ Fits => InLine(k)'
  PROVE  ContentInv'
<1> SUFFICES ASSUME WellFormed, Fits
             PROVE  \E k \in 0..Len(message) : Taken(k)' /\ InLine(k)'
  <2>1. WellFormed' = WellFormed /\ Fits' = Fits /\ Len(message)' = Len(message)
        BY SentStays
  <2>2. QED BY <2>1 DEF ContentInv
<1>1. PICK k \in 0..Len(message) : Taken(k) /\ InLine(k)
      BY DEF ContentInv
<1>2. Taken(k)'
  <2>1. Top' = Top /\ SentUpTo(k)' = SentUpTo(k)
        BY SentStays
  <2>2. QED BY <1>1, <2>1 DEF Taken
<1>3. QED BY <1>1, <1>2

LEMMA FillContent == TypeInv /\ ContentInv /\ Fill => ContentInv'
<1> SUFFICES ASSUME TypeInv, ContentInv, Fill PROVE ContentInv'
    OBVIOUS
<1>1. PICK n \in 1..BufSize : taken + n <= Len(Stream) /\ buffered' = n /\ taken' = taken + n
      BY DEF Fill
<1>2. /\ message' = message /\ newline' = newline /\ spool' = spool /\ buf' = buf /\ found' = found
      /\ in_header' = in_header /\ found_header' = found_header /\ nl' = nl /\ pc = "line"
      /\ pc' = "line" /\ peer = "there" /\ buffered = 0
      BY DEF Fill, flags
<1>3. taken' - buffered' = taken - buffered
      BY <1>1, <1>2 DEF TypeInv
<1>4. \A k \in 0..Len(message) : InLine(k) /\ WellFormed /\ Fits => InLine(k)'
  <2> SUFFICES ASSUME NEW k \in 0..Len(message), InLine(k) PROVE InLine(k)'
      OBVIOUS
  <2>1. Line(k + 1)' = Line(k + 1) /\ Start(k + 1)' = Start(k + 1)
        BY <1>2, SentStays
  <2>2. QED BY <1>2, <1>3, <2>1 DEF InLine
<1>5. QED BY <1>2, <1>4, ReadingContent

LEMMA NextCharContent == TypeInv /\ ContentInv /\ NextChar => ContentInv'
<1> SUFFICES ASSUME TypeInv, ContentInv, NextChar PROVE ContentInv'
    OBVIOUS
<1>1. /\ message' = message /\ newline' = newline /\ spool' = spool /\ taken' = taken /\ found' = found
      /\ in_header' = in_header /\ found_header' = found_header /\ nl' = nl /\ pc = "line"
      /\ pc' = "line" /\ peer' = peer /\ buffered > 0 /\ ~LineRead /\ buffered' = buffered - 1
      /\ buf' = Append(buf, Stream[taken - buffered + 1])
      BY DEF NextChar, flags
<1>2. CASE peer # "there"
      BY <1>1, <1>2 DEF ContentInv
<1>3. CASE peer = "there"
  <2>1. \A k \in 0..Len(message) : InLine(k) /\ WellFormed /\ Fits => InLine(k)'
    <3> SUFFICES ASSUME NEW k \in 0..Len(message), InLine(k), WellFormed, Fits PROVE InLine(k)'
        OBVIOUS
    <3> DEFINE l == Line(k + 1)
               c == Stream[taken - buffered + 1]
    <3>1. Line(k + 1)' = Line(k + 1) /\ Start(k + 1)' = Start(k + 1)
          BY <1>1, SentStays
    <3>2. Len(buf) < Len(l)
          BY <1>1, LineIsRead
    <3>3. message \in Messages /\ newline \in Newlines /\ k + 1 \in 1..(Len(message) + 1)
          BY MessageTyped DEF TypeInv
    <3>4. /\ l \in Seq(Chars) /\ Len(l) \in Nat /\ Start(k + 1) \in Nat
          /\ \A j \in 1..Len(l) : Stream[Start(k + 1) + j] = l[j]
          BY <3>3, LineTyped, StreamLine
    <3>5. /\ taken - buffered = Start(k + 1) + Len(buf) /\ \A j \in 1..Len(buf) : buf[j] = l[j]
          BY DEF InLine
    <3>6. buf \in Seq(Chars) /\ Len(buf) \in Nat /\ taken \in Nat /\ buffered \in Nat
          BY LenProperties DEF TypeInv
    <3>7. Len(buf) + 1 \in 1..Len(l) /\ taken - buffered + 1 = Start(k + 1) + (Len(buf) + 1)
          BY <3>2, <3>4, <3>5, <3>6
    <3>8. c = l[Len(buf) + 1] /\ c \in Chars
          BY <3>4, <3>7, ElementOfSeq
    <3> HIDE DEF l, c
    <3>9. /\ Len(buf') = Len(buf) + 1 /\ buf'[Len(buf) + 1] = c
          /\ \A j \in 1..Len(buf) : buf'[j] = buf[j]
          BY <1>1, <3>6, <3>8, AppendProperties DEF c
    <3>10. \A j \in 1..Len(buf') : buf'[j] = l[j]
           BY <3>5, <3>6, <3>8, <3>9
    <3>11. taken' - buffered' = Start(k + 1) + Len(buf')
      <4>1. taken - buffered = Start(k + 1) + Len(buf) /\ Start(k + 1) \in Nat
            BY <3>4, <3>5
      <4>2. taken' - buffered' = (taken - buffered) + 1
            BY <1>1, <3>6
      <4>3. (Start(k + 1) + Len(buf)) + 1 = Start(k + 1) + (Len(buf) + 1)
            BY <3>6, <4>1
      <4>4. QED BY <3>9, <4>1, <4>2, <4>3
    <3>12. Len(buf') <= Len(l)
           BY <3>2, <3>4, <3>6, <3>9
    <3>13. QED BY <3>1, <3>10, <3>11, <3>12 DEF InLine, l
  <2>2. QED BY <1>1, <1>3, <2>1, ReadingContent
<1>4. QED BY <1>2, <1>3

\* Nothing is promised when the client has gone.
LEMMA GoneContent ==
  TypeInv /\ ContentInv /\ (PeerGone \/ EofInLine \/ EndOfInput) => ContentInv'
<1> SUFFICES ASSUME TypeInv, PeerGone \/ EofInLine \/ EndOfInput PROVE peer' # "there"
    BY DEF ContentInv
<1>1. QED BY DEF PeerGone, EofInLine, EndOfInput, reader

LEMMA EndOfDataContent == TypeInv /\ ContentInv /\ EndOfData => ContentInv'
<1> SUFFICES ASSUME TypeInv, ContentInv, EndOfData PROVE ContentInv'
    OBVIOUS
<1>1. /\ message' = message /\ newline' = newline /\ peer' = peer /\ pc' = "headers"
      /\ spool' = spool /\ found' = found /\ in_header' = in_header
      /\ found_header' = found_header /\ nl' = nl
      BY DEF EndOfData, reader, flags
<1>2. /\ WellFormed' = WellFormed /\ Fits' = Fits /\ Len(message)' = Len(message)
      /\ Top' = Top /\ \A k : SentUpTo(k)' = SentUpTo(k)
      BY <1>1, SentStays
<1> SUFFICES ASSUME peer = "there", WellFormed, Fits PROVE Taken(Len(message))'
    BY <1>1, <1>2 DEF ContentInv
<1>3. pc = "line" /\ LineRead /\ IsEnd
      BY DEF EndOfData, HaveLine, TypeInv
<1>4. PICK k \in 0..Len(message) : Taken(k) /\ InLine(k)
      BY <1>3 DEF ContentInv
<1>5. buf = Line(k + 1)
      BY <1>3, <1>4, LineIsRead
<1>6. message \in Messages /\ newline \in Newlines /\ Len(message) \in Nat
      BY MessageTyped DEF TypeInv
<1>7. k + 1 \notin 1..Len(message)
      BY <1>3, <1>5, <1>6, StuffedLine DEF IsEnd
<1>8. k = Len(message)
      BY <1>6, <1>7
<1>9. Taken(Len(message))
      BY <1>4, <1>8
<1>10. QED BY <1>1, <1>2, <1>9 DEF Taken

\* The names of the required headers.
LEMMA RequiredNames ==
  /\ ToSet(Required) \subseteq Colons /\ Colons \subseteq Tokens /\ Tokens \subseteq Chars
  /\ Tokens \cap {"CR", "LF"} = {} /\ "X-Module:" \notin ToSet(Required)
<1>1. Required \in Seq(Colons \ {"X-Module:"})
      BY TokensAssumption
<1>2. Required \in [1..Len(Required) -> Colons \ {"X-Module:"}] /\ DOMAIN Required = 1..Len(Required)
      BY <1>1
<1>3. QED BY <1>2, TokensAssumption DEF ToSet, Chars

\* A line of the message is taken: what it does to what is known of the message.
LEMMA TakeOne ==
  ASSUME TypeInv, WellFormed, NEW k \in 0..Len(message), Taken(k), k < Len(message), TakeLine,
         Unstuffed(buf) = message[k + 1] \o newline
  PROVE  /\ spool' = Written(SubSeq(message, 1, k + 1), newline)
         /\ found' = SentUpTo(k + 1)
         /\ in_header' = (k + 1 <= Top)
         /\ found_header' = (k + 1 > 0)
         /\ nl' = newline
<1> DEFINE l == message[k + 1]
           b == l \o newline
<1>1. message \in Messages /\ newline \in Newlines /\ Len(message) \in Nat
      BY MessageTyped DEF TypeInv
<1>2. k \in Nat /\ k + 1 \in 1..Len(message)
      BY <1>1
<1>3. /\ found' = found \cup FoundIn(b) /\ nl' = (IF nl = NULL THEN Linebreak(b) ELSE nl)
      /\ in_header' = (in_header /\ ~Starts(b, <<"LF">>) /\ ~Starts(b, <<"CR">>))
      /\ found_header' = (found_header \/ ToSet(b) \cap Colons # {})
      /\ spool' = spool \o b
      BY DEF TakeLine
<1>4. /\ l \in Seq(Chars) /\ Len(l) \in Nat
      /\ \A j \in 1..Len(l) : l[j] \in Tokens /\ l[j] \notin {"CR", "LF"}
      BY <1>1, <1>2, MessageTyped
<1>5. newline \in Seq(Chars) /\ Len(newline) \in {1, 2} /\ newline[1] \in {"CR", "LF"}
      BY <1>1, Ends
<1>6. /\ Top \in 0..Len(message) /\ \A i \in 1..Top : message[i] # <<>> /\ HeaderLines[i] = message[i]
      /\ Top < Len(message) => message[Top + 1] = <<>>
      BY <1>1, HeaderShape
<1>7. (l # <<>> => Len(l) > 0) /\ (l = <<>> => Len(l) = 0)
      BY <1>4, EmptySeq
<1> HIDE DEF l
<1>8. /\ b \in Seq(Chars) /\ Len(b) = Len(l) + Len(newline) /\ Len(b) >= 1
      /\ \A j \in 1..(Len(l) + Len(newline)) :
           b[j] = IF j <= Len(l) THEN l[j] ELSE newline[j - Len(l)]
      BY <1>4, <1>5, ConcatProperties
<1>9. /\ Len(l) > 0 => b[1] = l[1] /\ b[1] \in Tokens /\ b[1] \notin {"CR", "LF"}
      /\ Len(l) = 0 => b[1] \in {"CR", "LF"}
  <2>1. 1 \in 1..(Len(l) + Len(newline))
        BY <1>4, <1>5
  <2>2. b[1] = IF 1 <= Len(l) THEN l[1] ELSE newline[1 - Len(l)]
        BY <1>8, <2>1
  <2>3. ASSUME Len(l) > 0 PROVE b[1] = l[1] /\ b[1] \in Tokens /\ b[1] \notin {"CR", "LF"}
        BY <1>4, <2>2, <2>3
  <2>4. ASSUME Len(l) = 0 PROVE b[1] \in {"CR", "LF"}
    <3>1. 1 - Len(l) = 1 /\ ~(1 <= Len(l))
          BY <2>4
    <3>2. QED BY <1>5, <2>2, <3>1
  <2>5. QED BY <2>3, <2>4
<1>10. "CR" \in Chars /\ "LF" \in Chars
       BY DEF Chars
<1>11. Starts(b, <<"LF">>) \/ Starts(b, <<"CR">>) <=> Len(l) = 0
  <2>1. /\ Starts(b, <<"LF">>) <=> b[1] = "LF"
        /\ Starts(b, <<"CR">>) <=> b[1] = "CR"
        BY <1>8, <1>10, StartsOne
  <2>2. Len(l) = 0 <=> b[1] \in {"CR", "LF"}
    <3>1. Len(l) > 0 \/ Len(l) = 0
          BY <1>4
    <3>2. QED BY <1>9, <3>1
  <2> HIDE DEF b
  <2>3. QED BY <2>1, <2>2
<1>12. Linebreak(b) = newline
       BY <1>1, <1>4, LinebreakIs
<1>13. /\ spool = Written(SubSeq(message, 1, k), newline) /\ found = SentUpTo(k)
       /\ in_header = (k <= Top) /\ found_header = (k > 0)
       /\ nl = (IF k = 0 THEN NULL ELSE newline)
       BY DEF Taken
<1>14. k + 1 <= Top => Len(l) > 0
  <2> SUFFICES ASSUME k + 1 <= Top PROVE Len(l) > 0
      OBVIOUS
  <2>1. k + 1 \in 1..Top
        BY <1>2, <1>6
  <2>2. QED BY <1>6, <1>7, <2>1 DEF l
<1>15. k = Top => Len(l) = 0
       BY <1>2, <1>6, <1>7 DEF l
<1>16. spool' = Written(SubSeq(message, 1, k + 1), newline)
  <2>1. message \in Seq(Seq(Chars)) /\ (k + 1) - 1 = k
        BY <1>1, <1>2, MessageTyped
  <2>2. Written(SubSeq(message, 1, k + 1), newline) =
          Written(SubSeq(message, 1, (k + 1) - 1), newline) \o (message[k + 1] \o newline)
        BY <1>2, <1>5, <2>1, WrittenLeads
  <2>3. QED BY <1>3, <1>13, <2>1, <2>2 DEF l
<1>17. nl' = newline
  <2>1. newline # NULL
        BY <1>1, DataAssumption
  <2>2. QED BY <1>3, <1>12, <1>13, <2>1
<1> HIDE DEF b
<1>18. in_header' = (k + 1 <= Top)
  <2>1. CASE k + 1 <= Top
    <3>1. (k + 1 <= Top) = TRUE /\ (k <= Top) = TRUE
          BY <1>2, <1>6, <2>1
    <3>2. ~Starts(b, <<"LF">>) /\ ~Starts(b, <<"CR">>)
          BY <1>4, <1>11, <1>14, <2>1
    <3>3. QED BY <1>3, <1>13, <3>1, <3>2, Zenon
  <2>2. CASE ~(k + 1 <= Top)
    <3>1. (k + 1 <= Top) = FALSE
          BY <2>2
    <3>2. CASE k = Top
      <4>1. Starts(b, <<"LF">>) \/ Starts(b, <<"CR">>)
            BY <1>11, <1>15, <3>2
      <4>2. QED BY <1>3, <3>1, <4>1, Zenon
    <3>3. CASE k # Top
      <4>1. (k <= Top) = FALSE
            BY <1>2, <1>6, <2>2, <3>3
      <4>2. QED BY <1>3, <1>13, <3>1, <4>1, Zenon
    <3>4. QED BY <3>2, <3>3
  <2>3. QED BY <2>1, <2>2
<1>19. found_header' = (k + 1 > 0)
  <2>1. (k + 1 > 0) = TRUE
        BY <1>2
  <2>2. CASE k = 0
    <3>1. Top # 0
      <4> SUFFICES ASSUME Top = 0 PROVE FALSE
          OBVIOUS
      <4>1. HeaderLines = SubSeq(message, 1, 0) /\ message \in Seq(Seq(Chars)) /\ 0 \in 0..Len(message)
            BY <1>1, HeaderShape, MessageTyped
      <4>2. HeaderLines \in Seq(Seq(Chars)) /\ Len(HeaderLines) = 0
            BY <4>1, Leading
      <4>3. QED BY <4>2, EmptySeq DEF WellFormed
    <3>2. 1 \in 1..Top /\ k + 1 <= Top
          BY <1>6, <2>2, <3>1
    <3>3. HeaderLines[1] = l
          BY <1>6, <2>2, <3>2 DEF l
    <3>4. b[1] \in Colons
          BY <1>9, <1>14, <3>2, <3>3 DEF WellFormed
    <3>5. 1 \in DOMAIN b
          BY <1>8, LenProperties
    <3>6. ToSet(b) \cap Colons # {}
          BY <3>4, <3>5 DEF ToSet
    <3>7. QED BY <1>3, <2>1, <3>6, Zenon
  <2>3. CASE k # 0
    <3>1. (k > 0) = TRUE
          BY <1>2, <2>3
    <3>2. QED BY <1>3, <1>13, <2>1, <3>1, Zenon
  <2>4. QED BY <2>2, <2>3
<1>20. found' = SentUpTo(k + 1)
  <2>1. FoundIn(b) = {h \in ToSet(Required) : k + 1 <= Top /\ l[1] = h}
    <3>1. \A h \in ToSet(Required) : Starts(b, <<h>>) <=> b[1] = h
          BY <1>8, RequiredNames, StartsOne
    <3>2. CASE k <= Top
      <4>1. in_header
            BY <1>13, <3>2
      <4>2. \A h \in ToSet(Required) : b[1] = h <=> k + 1 <= Top /\ l[1] = h
        <5>1. CASE k + 1 <= Top
              BY <1>9, <1>14, <5>1
        <5>2. CASE k = Top
              BY <1>2, <1>6, <1>9, <1>15, <5>2, RequiredNames
        <5>3. QED BY <1>2, <1>6, <3>2, <5>1, <5>2
      <4>3. QED BY <3>1, <4>1, <4>2 DEF FoundIn
    <3>3. CASE ~(k <= Top)
      <4>1. ~in_header
            BY <1>13, <3>3
      <4>2. ~(k + 1 <= Top)
            BY <1>2, <1>6, <3>3
      <4>3. QED BY <4>1, <4>2 DEF FoundIn
    <3>4. QED BY <3>2, <3>3
  <2>2. ASSUME NEW h
        PROVE  (\E i \in 1..(k + 1) : i <= Top /\ message[i][1] = h) <=>
                 \/ \E i \in 1..k : i <= Top /\ message[i][1] = h
                 \/ k + 1 <= Top /\ l[1] = h
        BY <1>2 DEF l
  <2>3. QED BY <1>3, <1>13, <2>1, <2>2 DEF SentUpTo
<1>21. QED BY <1>16, <1>17, <1>18, <1>19, <1>20

LEMMA TakeLineContent == TypeInv /\ ContentInv /\ TakeLine => ContentInv'
<1> SUFFICES ASSUME TypeInv, ContentInv, TakeLine PROVE ContentInv'
    OBVIOUS
<1>1. /\ message' = message /\ newline' = newline /\ peer' = peer /\ pc' = "line"
      /\ taken' = taken /\ buffered' = buffered /\ buf' = <<>>
      BY DEF TakeLine, reader
<1>2. /\ WellFormed' = WellFormed /\ Fits' = Fits /\ Len(message)' = Len(message) /\ Top' = Top
      /\ \A k : SentUpTo(k)' = SentUpTo(k) /\ Line(k)' = Line(k) /\ Start(k)' = Start(k)
      BY <1>1, SentStays
<1> SUFFICES ASSUME peer = "there", WellFormed, Fits
             PROVE  \E k \in 0..Len(message) : Taken(k)' /\ InLine(k)'
    BY <1>1, <1>2 DEF ContentInv
<1>3. pc = "line" /\ LineRead /\ ~IsEnd
      BY DEF TakeLine, HaveLine, TypeInv
<1>4. PICK k \in 0..Len(message) : Taken(k) /\ InLine(k)
      BY <1>3 DEF ContentInv
<1>5. buf = Line(k + 1)
      BY <1>3, <1>4, LineIsRead
<1>6. message \in Messages /\ newline \in Newlines /\ Len(message) \in Nat
      BY MessageTyped DEF TypeInv
<1>7. k # Len(message)
  <2> SUFFICES ASSUME k = Len(message) PROVE IsEnd
      BY <1>3
  <2>1. k + 1 \notin DOMAIN message
        BY <1>6, MessageTyped
  <2>2. buf = <<".">> \o newline
        BY <1>5, <2>1 DEF Line
  <2>3. buf \in Seq(Chars)
        BY DEF TypeInv
  <2>4. QED BY <1>6, <2>2, <2>3, EndLine DEF IsEnd
<1>8. k < Len(message) /\ k + 1 \in 1..Len(message) /\ k + 1 \in 0..Len(message)
      BY <1>6, <1>7
<1>9. Unstuffed(buf) = message[k + 1] \o newline
      BY <1>5, <1>6, <1>8, StuffedLine
<1>10. /\ spool' = Written(SubSeq(message, 1, k + 1), newline)
       /\ found' = SentUpTo(k + 1) /\ in_header' = (k + 1 <= Top)
       /\ found_header' = (k + 1 > 0) /\ nl' = newline
       BY <1>4, <1>8, <1>9, TakeOne
<1>11. Taken(k + 1)'
  <2>1. k + 1 # 0
        BY <1>8
  <2>2. QED BY <1>1, <1>2, <1>10, <2>1 DEF Taken
<1>12. InLine(k + 1)'
  <2>1. k + 1 \in 1..(Len(message) + 1) /\ (k + 1) + 1 \in 1..(Len(message) + 1)
        BY <1>6, <1>8
  <2>2. Start((k + 1) + 1) = Start(k + 1) + Len(Line(k + 1))
        BY <1>6, <1>8, StreamLine
  <2>3. Line((k + 1) + 1) \in Seq(Chars) /\ Len(Line((k + 1) + 1)) \in Nat /\ Start((k + 1) + 1) \in Nat
        BY <1>6, <2>1, LineTyped, StreamLine
  <2>4. taken - buffered = Start(k + 1) + Len(Line(k + 1))
        BY <1>4, <1>5 DEF InLine
  <2>5. taken' - buffered' = Start((k + 1) + 1) + 0 /\ Len(buf') = 0
        BY <1>1, <2>2, <2>3, <2>4
  <2>6. \A j \in 1..0 : buf'[j] = Line((k + 1) + 1)[j]
        OBVIOUS
  <2>7. QED BY <1>2, <2>3, <2>5, <2>6 DEF InLine
<1>13. QED BY <1>8, <1>11, <1>12

(***************************************************************************)
(* Headers of files.                                                       *)
(***************************************************************************)

\* A line with its end that is not empty.
FileLine(t) ==
  /\ t \in Seq(Chars) /\ Len(t) \in Nat /\ Len(t) > 0
  /\ t[1] \notin {"CR", "LF"} /\ t[Len(t)] = "LF"
  /\ \A j \in 1..(Len(t) - 1) : t[j] # "LF"

LEMMA LineWithEnd ==
  ASSUME NEW l \in Seq(Chars), l # <<>>, \A j \in 1..Len(l) : l[j] \notin {"CR", "LF"},
         NEW end \in Newlines
  PROVE  FileLine(l \o end) /\ (l \o end)[1] = l[1]
<1> DEFINE t == l \o end
           m == Len(l)
<1>0. m \in Nat /\ m > 0
      BY EmptySeq
<1>1. /\ end \in Seq(Chars) /\ Len(end) \in {1, 2}
      /\ Len(end) = 1 => end[1] = "LF"
      /\ Len(end) = 2 => end[1] = "CR" /\ end[2] = "LF"
      BY Ends
<1>2. /\ t \in Seq(Chars) /\ Len(t) = m + Len(end)
      /\ \A j \in 1..(m + Len(end)) : t[j] = IF j <= m THEN l[j] ELSE end[j - m]
      BY <1>1, ConcatProperties
<1>3. \A j \in 1..m : t[j] = l[j]
      BY <1>0, <1>1, <1>2
<1>4. t[m + 1] = end[1]
  <2>1. m + 1 \in 1..(m + Len(end)) /\ ~(m + 1 <= m) /\ (m + 1) - m = 1
        BY <1>0, <1>1
  <2>2. QED BY <1>2, <2>1
<1>5. Len(end) = 2 => t[m + 2] = end[2]
  <2> SUFFICES ASSUME Len(end) = 2 PROVE t[m + 2] = end[2]
      OBVIOUS
  <2>1. m + 2 \in 1..(m + Len(end)) /\ ~(m + 2 <= m) /\ (m + 2) - m = 2
        BY <1>0
  <2>2. QED BY <1>2, <2>1
<1> HIDE DEF t
<1>6. \A j \in 1..m : t[j] \notin {"CR", "LF"}
      BY <1>3
<1> HIDE DEF m
<1>7. Len(t) \in Nat /\ Len(t) > 0 /\ t[1] = l[1] /\ t[1] \notin {"CR", "LF"}
  <2>1. 1 \in 1..m
        BY <1>0
  <2>2. QED BY <1>0, <1>1, <1>2, <1>3, <1>6, <2>1
<1>8. CASE Len(end) = 1
  <2>1. Len(t) = m + 1 /\ \A j \in 1..(Len(t) - 1) : j \in 1..m
        BY <1>0, <1>2, <1>8
  <2>2. QED BY <1>1, <1>2, <1>4, <1>6, <1>7, <1>8, <2>1 DEF FileLine, t
<1>9. CASE Len(end) = 2
  <2>1. Len(t) = m + 2 /\ \A j \in 1..(Len(t) - 1) : j \in 1..m \/ j = m + 1
        BY <1>0, <1>2, <1>9
  <2>2. QED BY <1>1, <1>2, <1>4, <1>5, <1>6, <1>7, <1>9, <2>1 DEF FileLine, t
<1>10. QED BY <1>1, <1>8, <1>9

LEMMA Associative ==
  ASSUME NEW s \in Seq(Chars), NEW t \in Seq(Chars), NEW u \in Seq(Chars)
  PROVE  (s \o t) \o u = s \o (t \o u)
BY ConcatAssociative

\* A sequence and another one behind it.
LEMMA Behind ==
  ASSUME NEW h \in Seq(Chars), NEW t \in Seq(Chars)
  PROVE  /\ h \o t \in Seq(Chars) /\ Len(h) \in Nat /\ Len(t) \in Nat
         /\ Len(h \o t) = Len(h) + Len(t) /\ DOMAIN (h \o t) = 1..(Len(h) + Len(t))
         /\ DOMAIN h = 1..Len(h)
         /\ \A j \in 1..Len(h) : (h \o t)[j] = h[j]
         /\ \A j \in 1..Len(t) : (h \o t)[Len(h) + j] = t[j]
<1> DEFINE f == h \o t
<1>1. Len(h) \in Nat /\ Len(t) \in Nat /\ DOMAIN h = 1..Len(h)
      BY LenProperties
<1>2. /\ f \in Seq(Chars) /\ Len(f) = Len(h) + Len(t)
      /\ \A j \in 1..(Len(h) + Len(t)) : f[j] = IF j <= Len(h) THEN h[j] ELSE t[j - Len(h)]
      BY ConcatProperties
<1>3. DOMAIN f = 1..Len(f)
      BY <1>2, LenProperties
<1> HIDE DEF f
<1>4. \A j \in 1..Len(h) : f[j] = h[j]
      BY <1>1, <1>2
<1>5. \A j \in 1..Len(t) : f[Len(h) + j] = t[j]
  <2> TAKE j \in 1..Len(t)
  <2>1. /\ Len(h) + j \in 1..(Len(h) + Len(t)) /\ ~(Len(h) + j <= Len(h))
        /\ (Len(h) + j) - Len(h) = j
        BY <1>1
  <2>2. QED BY <1>2, <2>1
<1>6. QED BY <1>1, <1>2, <1>3, <1>4, <1>5 DEF f

\* Behind whole lines, an empty line is not among them.
LEMMA NoBlankBefore ==
  ASSUME NEW h \in Seq(Chars), Closed(h), NEW t \in Seq(Chars),
         NEW j \in BlankLines(h \o t)
  PROVE  j \in 1..(Len(h) + Len(t)) /\ j > Len(h)
<1> DEFINE f == h \o t
           m == Len(h)
<1>1. /\ m \in Nat /\ Len(t) \in Nat /\ Len(f) = m + Len(t) /\ DOMAIN f = 1..(m + Len(t))
      /\ DOMAIN h = 1..m /\ \A i \in 1..m : f[i] = h[i]
      BY Behind
<1> HIDE DEF f, m
<1>2. /\ j \in DOMAIN f /\ (j = 1 \/ f[j - 1] = "LF")
      /\ f[j] = "LF" \/ (f[j] = "CR" /\ j < Len(f) /\ f[j + 1] = "LF")
      BY DEF BlankLines, f
<1>3. ASSUME j <= m PROVE FALSE
  <2>1. j \in 1..m /\ h[j] = f[j] /\ m > 0
        BY <1>1, <1>2, <1>3
  <2>2. j = 1 \/ h[j - 1] = "LF"
    <3>1. j # 1 => j - 1 \in 1..m
          BY <1>1, <2>1
    <3>2. QED BY <1>1, <1>2, <3>1
  <2>3. h[m] = "LF"
    <3>1. h # <<>>
          BY <2>1, EmptySeq DEF m
    <3>2. QED BY <3>1 DEF Closed, m
  <2>4. h[j] = "LF" \/ (h[j] = "CR" /\ j < m /\ h[j + 1] = "LF")
    <3>1. CASE j = m
          BY <1>2, <2>1, <2>3, <3>1
    <3>2. CASE j # m
      <4>1. j + 1 \in 1..m /\ j < m
            BY <1>1, <2>1, <3>2
      <4>2. QED BY <1>1, <1>2, <2>1, <4>1
    <3>3. QED BY <3>1, <3>2
  <2>5. j \in BlankLines(h)
        BY <1>1, <2>1, <2>2, <2>4 DEF BlankLines, m
  <2>6. QED BY <2>5 DEF Closed
<1>4. QED BY <1>1, <1>2, <1>3 DEF m

\* A file of a header, an empty line and a body.
LEMMA HeaderOf ==
  ASSUME NEW h \in Seq(Chars), Closed(h), NEW end \in Newlines, NEW b \in Seq(Chars)
  PROVE  HeaderPart(h \o (end \o b)) = h /\ SkipHeader(h \o (end \o b)) = b
<1> DEFINE t == end \o b
           f == h \o t
           m == Len(h)
           e == Len(end)
<1>1. /\ end \in Seq(Chars) /\ e \in {1, 2}
      /\ e = 1 => end[1] = "LF"
      /\ e = 2 => end[1] = "CR" /\ end[2] = "LF"
      BY Ends
<1>2. /\ t \in Seq(Chars) /\ Len(t) = e + Len(b) /\ Len(b) \in Nat
      /\ \A j \in 1..e : t[j] = end[j]
      /\ \A j \in 1..Len(b) : t[e + j] = b[j]
      BY <1>1, Behind
<1> HIDE DEF t
<1>3. /\ f \in Seq(Chars) /\ m \in Nat /\ Len(t) \in Nat /\ Len(f) = m + Len(t)
      /\ DOMAIN f = 1..(m + Len(t))
      /\ \A j \in 1..m : f[j] = h[j]
      /\ \A j \in 1..Len(t) : f[m + j] = t[j]
      BY <1>2, Behind
<1> HIDE DEF f, m, e
<1>4. m + 1 \in BlankLines(f) /\ f[m + 1] = (IF e = 1 THEN "LF" ELSE "CR")
  <2>1. m + 1 \in DOMAIN f
        BY <1>1, <1>2, <1>3
  <2>2. m + 1 = 1 \/ f[(m + 1) - 1] = "LF"
    <3>1. CASE m = 0
          BY <3>1
    <3>2. CASE m # 0
      <4>1. h # <<>> /\ m \in 1..m /\ (m + 1) - 1 = m
            BY <1>3, <3>2, EmptySeq DEF m
      <4>2. h[m] = "LF"
            BY <4>1 DEF Closed, m
      <4>3. QED BY <1>3, <4>1, <4>2
    <3>3. QED BY <3>1, <3>2
  <2>3. f[m + 1] = end[1]
    <3>1. 1 \in 1..e /\ 1 \in 1..Len(t)
          BY <1>1, <1>2
    <3>2. QED BY <1>2, <1>3, <3>1
  <2>4. CASE e = 1
    <3>1. f[m + 1] = "LF"
          BY <1>1, <2>3, <2>4
    <3>2. QED BY <2>1, <2>2, <2>4, <3>1 DEF BlankLines
  <2>5. CASE e = 2
    <3>1. 2 \in 1..e /\ 2 \in 1..Len(t) /\ (m + 1) + 1 = m + 2 /\ m + 1 < Len(f)
          BY <1>2, <1>3, <2>5
    <3>2. f[m + 2] = end[2]
          BY <1>2, <1>3, <3>1
    <3>3. f[m + 1] = "CR" /\ f[(m + 1) + 1] = "LF"
          BY <1>1, <2>3, <2>5, <3>1, <3>2
    <3>4. QED BY <2>1, <2>2, <2>5, <3>1, <3>3 DEF BlankLines
  <2>6. QED BY <1>1, <2>4, <2>5
<1>5. FirstBlank(f) = m + 1
  <2>1. /\ FirstBlank(f) \in BlankLines(f) /\ FirstBlank(f) \in 1..Len(f)
        /\ FirstBlank(f) <= m + 1
        BY <1>3, <1>4, FirstBlankIs
  <2>2. FirstBlank(f) > m
        BY <1>2, <2>1, NoBlankBefore DEF f, m
  <2>3. QED BY <1>3, <2>1, <2>2
<1>6. HeaderPart(f) = SubSeq(f, 1, m)
  <2>1. (m + 1) - 1 = m
        BY <1>3
  <2>2. QED BY <1>4, <1>5, <2>1 DEF HeaderPart
<1>7. SkipHeader(f) = SubSeq(f, m + 1 + e, Len(f))
  <2>1. (IF f[m + 1] = "LF" THEN 1 ELSE 2) = e
        BY <1>1, <1>4
  <2>2. SkipHeader(f) = SubSeq(f, (m + 1) + (IF f[m + 1] = "LF" THEN 1 ELSE 2), Len(f))
        BY <1>4, <1>5 DEF SkipHeader
  <2>3. QED BY <2>1, <2>2
<1>8. SubSeq(f, 1, m) = h
  <2>1. m \in 0..Len(f)
        BY <1>3
  <2>2. /\ SubSeq(f, 1, m) \in Seq(Chars) /\ Len(SubSeq(f, 1, m)) = m
        /\ \A i \in 1..m : SubSeq(f, 1, m)[i] = f[i]
        BY <1>3, <2>1, Leading
  <2>3. \A i \in 1..m : SubSeq(f, 1, m)[i] = h[i]
        BY <1>3, <2>2
  <2>4. QED BY <2>2, <2>3, SeqEqual DEF m
<1>9. SubSeq(f, m + 1 + e, Len(f)) = b
  <2> DEFINE a == m + 1 + e
             p == SubSeq(f, a, Len(f))
  <2>1. /\ a \in Nat /\ a > 0 /\ Len(f) \in Nat /\ Len(f) <= Len(f) /\ a <= Len(f) + 1
        /\ Len(f) - a + 1 = Len(b)
        BY <1>1, <1>2, <1>3
  <2>2. /\ p \in Seq(Chars) /\ Len(p) = Len(f) - a + 1
        /\ \A j \in 1..(Len(f) - a + 1) : p[j] = f[a + j - 1]
        BY <1>3, <2>1, Part
  <2>3. \A j \in 1..Len(b) : f[a + j - 1] = b[j]
    <3> TAKE j \in 1..Len(b)
    <3>1. a + j - 1 = m + (e + j) /\ e + j \in 1..Len(t)
          BY <1>1, <1>2, <1>3
    <3>2. QED BY <1>2, <1>3, <3>1
  <2> HIDE DEF a, p
  <2>4. Len(p) = Len(b) /\ \A j \in 1..Len(b) : p[j] = b[j]
        BY <2>1, <2>2, <2>3
  <2>5. QED BY <2>2, <2>4, SeqEqual DEF p, a
<1>10. QED BY <1>6, <1>7, <1>8, <1>9 DEF f, t

LEMMA HeaderAll ==
  ASSUME NEW h, Closed(h)
  PROVE  HeaderPart(h) = h /\ SkipHeader(h) = <<>>
BY DEF Closed, HeaderPart, SkipHeader

\* One more line.
LEMMA ClosedAppend ==
  ASSUME NEW h \in Seq(Chars), Closed(h), NEW t, FileLine(t)
  PROVE  Closed(h \o t) /\ LineStarts(h \o t) = LineStarts(h) \cup {Len(h) + 1}
<1> DEFINE f == h \o t
           m == Len(h)
<1>0. /\ t \in Seq(Chars) /\ Len(t) \in Nat /\ Len(t) > 0
      /\ t[1] \notin {"CR", "LF"} /\ t[Len(t)] = "LF"
      /\ \A j \in 1..(Len(t) - 1) : t[j] # "LF"
      BY DEF FileLine
<1>1. /\ f \in Seq(Chars) /\ m \in Nat /\ Len(f) = m + Len(t) /\ DOMAIN f = 1..(m + Len(t))
      /\ DOMAIN h = 1..m
      /\ \A j \in 1..m : f[j] = h[j]
      /\ \A j \in 1..Len(t) : f[m + j] = t[j]
      BY <1>0, Behind
<1>h. m # 0 => h[m] = "LF"
  <2>1. m # 0 => h # <<>>
        BY EmptySeq
  <2>2. QED BY <2>1 DEF Closed
<1> HIDE DEF f, m
<1>2. \A j \in (m + 1)..(m + Len(t) - 1) : f[j] # "LF"
  <2> TAKE j \in (m + 1)..(m + Len(t) - 1)
  <2>1. j - m \in 1..(Len(t) - 1) /\ j - m \in 1..Len(t) /\ m + (j - m) = j
        BY <1>0, <1>1
  <2>2. f[m + (j - m)] = t[j - m] /\ t[j - m] # "LF"
        BY <1>0, <1>1, <2>1
  <2>3. QED BY <2>1, <2>2
<1>3. f[m + 1] = t[1] /\ f[m + Len(t)] = "LF"
  <2>1. 1 \in 1..Len(t) /\ Len(t) \in 1..Len(t)
        BY <1>0
  <2>2. QED BY <1>0, <1>1, <2>1
<1>4. BlankLines(f) = {}
  <2> SUFFICES ASSUME NEW j \in BlankLines(f) PROVE FALSE
      OBVIOUS
  <2>1. j \in 1..(m + Len(t)) /\ j > m
        BY <1>0, NoBlankBefore DEF f, m
  <2>2. (j = 1 \/ f[j - 1] = "LF") /\ f[j] \in {"CR", "LF"}
        BY DEF BlankLines
  <2>3. j # m + 1
        BY <1>0, <1>3, <2>2
  <2>4. j - 1 \in (m + 1)..(m + Len(t) - 1) /\ j # 1
        BY <1>0, <1>1, <2>1, <2>3
  <2>5. QED BY <1>2, <2>2, <2>4
<1>5. Closed(f)
      BY <1>1, <1>3, <1>4 DEF Closed
<1>6. ASSUME NEW i PROVE i \in LineStarts(f) <=> i \in LineStarts(h) \/ i = m + 1
  <2>1. i \in LineStarts(f) <=> i \in 1..(m + Len(t)) /\ (i = 1 \/ f[i - 1] = "LF")
        BY <1>1 DEF LineStarts
  <2>2. i \in LineStarts(h) <=> i \in 1..m /\ (i = 1 \/ h[i - 1] = "LF")
        BY <1>1 DEF LineStarts
  <2>3. CASE i \in 1..m
    <3>1. i # 1 => i - 1 \in 1..m
          BY <1>1, <2>3
    <3>2. i \in 1..(m + Len(t)) /\ i # m + 1
          BY <1>0, <1>1, <2>3
    <3>3. QED BY <1>1, <2>1, <2>2, <2>3, <3>1, <3>2
  <2>4. CASE i = m + 1
    <3>1. i \in 1..(m + Len(t)) /\ i - 1 = m
          BY <1>0, <1>1, <2>4
    <3>2. i # 1 => m \in 1..m /\ m # 0
          BY <1>1, <2>4
    <3>3. i # 1 => f[i - 1] = "LF"
          BY <1>1, <1>h, <3>1, <3>2
    <3>4. QED BY <2>1, <2>4, <3>1, <3>3
  <2>5. CASE i \notin 1..m /\ i # m + 1
    <3>1. i \in 1..(m + Len(t)) => i - 1 \in (m + 1)..(m + Len(t) - 1) /\ i # 1
          BY <1>0, <1>1, <2>5
    <3>2. QED BY <1>2, <2>1, <2>2, <2>5, <3>1
  <2>6. QED BY <2>3, <2>4, <2>5
<1>7. QED BY <1>5, <1>6 DEF f, m

\* How often a header is there then.
LEMMA CountAppend ==
  ASSUME NEW h \in Seq(Chars), Closed(h), NEW t, FileLine(t), NEW c
  PROVE  Count(h, c) \in Nat /\ Count(h \o t, c) = Count(h, c) + (IF t[1] = c THEN 1 ELSE 0)
<1> DEFINE f == h \o t
           m == Len(h)
           S == {i \in LineStarts(h) : h[i] = c}
           T == {i \in LineStarts(f) : f[i] = c}
<1>0. t \in Seq(Chars) /\ Len(t) \in Nat /\ Len(t) > 0
      BY DEF FileLine
<1>1. /\ m \in Nat /\ DOMAIN h = 1..m /\ \A j \in 1..m : f[j] = h[j]
      /\ \A j \in 1..Len(t) : f[m + j] = t[j]
      BY <1>0, Behind
<1>2. LineStarts(f) = LineStarts(h) \cup {m + 1}
      BY ClosedAppend
<1>3. LineStarts(h) \subseteq 1..m
      BY <1>1 DEF LineStarts
<1>4. f[m + 1] = t[1]
  <2>1. 1 \in 1..Len(t)
        BY <1>0
  <2>2. QED BY <1>1, <2>1
<1> HIDE DEF f, m
<1>5. IsFiniteSet(S)
  <2>1. IsFiniteSet(1..m)
        BY <1>1, FS_Interval
  <2>2. S \subseteq 1..m
        BY <1>3
  <2>3. QED BY <2>1, <2>2, FS_Subset
<1>6. Cardinality(S) \in Nat
      BY <1>5, FS_CardinalityType
<1>7. m + 1 \notin S /\ \A i \in LineStarts(h) : f[i] = h[i]
      BY <1>1, <1>3
<1>8. CASE t[1] = c
  <2>1. T = S \cup {m + 1}
        BY <1>2, <1>4, <1>7, <1>8
  <2> HIDE DEF S, T
  <2>2. Cardinality(T) = Cardinality(S) + 1
        BY <1>5, <1>7, <2>1, FS_AddElement
  <2>3. QED BY <1>6, <1>8, <2>2 DEF Count, S, T, f
<1>9. CASE t[1] # c
  <2>1. T = S
        BY <1>2, <1>4, <1>7, <1>9
  <2> HIDE DEF S, T
  <2>2. Count(h, c) = Cardinality(S) /\ Count(h \o t, c) = Cardinality(T)
        BY DEF Count, S, T, f
  <2>3. QED BY <1>6, <1>9, <2>1, <2>2
<1>10. QED BY <1>8, <1>9

\* A file without lines.
LEMMA NoLines == <<>> \in Seq(Chars) /\ Closed(<<>>) /\ \A c : Count(<<>>, c) = 0
<1>1. <<>> \in Seq(Chars) /\ DOMAIN <<>> = {} /\ Len(<<>>) = 0
      OBVIOUS
<1>2. BlankLines(<<>>) = {} /\ LineStarts(<<>>) = {}
      BY <1>1 DEF BlankLines, LineStarts
<1>3. \A c : Count(<<>>, c) = 0
  <2> TAKE c
  <2>1. {i \in LineStarts(<<>>) : <<>>[i] = c} = {}
        BY <1>2
  <2>2. QED BY <2>1, FS_EmptySet DEF Count
<1>4. QED BY <1>1, <1>2, <1>3 DEF Closed

\* A part is still there when something is put before or behind.
LEMMA HasAround ==
  ASSUME NEW a \in Seq(Chars), NEW b \in Seq(Chars)
  PROVE  /\ Has(a \o b, b)
         /\ \A t \in Seq(Chars) : Has(a, t) => Has(a \o b, t)
<1> DEFINE f == a \o b
           m == Len(a)
<1>1. /\ f \in Seq(Chars) /\ m \in Nat /\ Len(b) \in Nat /\ Len(f) = m + Len(b)
      /\ \A j \in 1..m : f[j] = a[j]
      /\ \A j \in 1..Len(b) : f[m + j] = b[j]
      BY Behind
<1> HIDE DEF f, m
<1>2. Has(f, b)
  <2>1. m + 1 \in 1..(Len(f) - Len(b) + 1) /\ \A j \in 1..Len(b) : (m + 1) + j - 1 = m + j
        BY <1>1
  <2>2. \A j \in 1..Len(b) : f[(m + 1) + j - 1] = b[j]
        BY <1>1, <2>1
  <2>3. QED BY <1>1, <2>1, <2>2, HasIs
<1>3. ASSUME NEW t \in Seq(Chars), Has(a, t) PROVE Has(f, t)
  <2>1. PICK i \in 1..(m - Len(t) + 1) : \A j \in 1..Len(t) : a[i + j - 1] = t[j]
        BY <1>3, HasIs DEF m
  <2>2. Len(t) \in Nat
        BY LenProperties
  <2>3. i \in 1..(Len(f) - Len(t) + 1) /\ \A j \in 1..Len(t) : i + j - 1 \in 1..m
    <3>1. i \in Int /\ 1 <= i /\ i <= m - Len(t) + 1
          BY <1>1, <2>1, <2>2
    <3>2. i <= Len(f) - Len(t) + 1 /\ Len(f) - Len(t) + 1 \in Int
          BY <1>1, <2>2, <3>1
    <3>3. ASSUME NEW j \in 1..Len(t) PROVE i + j - 1 \in 1..m
          BY <1>1, <2>2, <3>1
    <3>4. QED BY <3>1, <3>2, <3>3
  <2>4. \A j \in 1..Len(t) : f[i + j - 1] = t[j]
        BY <1>1, <2>1, <2>3
  <2>5. QED BY <1>1, <2>3, <2>4, HasIs
<1>4. QED BY <1>2, <1>3 DEF f

\* Lines that are written behind others: what is in front stays, and each header is there as often
\* as in both.
LEMMA WrittenBehind ==
  ASSUME NEW a \in Seq(Chars), Closed(a), NEW lines \in Seq(Seq(Chars)), NEW end \in Newlines,
         \A i \in 1..Len(lines) :
           lines[i] # <<>> /\ \A j \in 1..Len(lines[i]) : lines[i][j] \notin {"CR", "LF"},
         \A c : Count(a, c) \in Nat
  PROVE  LET w == Written(lines, end)
         IN  /\ w \in Seq(Chars) /\ Closed(a \o w)
             /\ \A c : /\ Count(w, c) \in Nat /\ Count(a \o w, c) = Count(a, c) + Count(w, c)
                       /\ Count(w, c) = 0 <=> \A i \in 1..Len(lines) : lines[i][1] # c
<1> DEFINE P(k) == Written(SubSeq(lines, 1, k), end)
           n == Len(lines)
           L(i) == lines[i] \o end
           Ok(k) == /\ P(k) \in Seq(Chars) /\ Closed(P(k)) /\ Closed(a \o P(k))
                    /\ \A c : /\ Count(P(k), c) \in Nat
                              /\ Count(a \o P(k), c) = Count(a, c) + Count(P(k), c)
                              /\ Count(P(k), c) = 0 <=> \A i \in 1..k : lines[i][1] # c
           S == {k \in Nat : k <= n => Ok(k)}
<1>0. n \in Nat /\ end \in Seq(Chars) /\ \A i \in 1..n : lines[i] \in Seq(Chars)
      BY Ends, LenProperties, ElementOfSeq
<1>1. P(0) = <<>> /\ P(n) = Written(lines, end) /\ \A k \in 1..n : P(k) = P(k - 1) \o L(k)
  <2>1. /\ Written(SubSeq(lines, 1, 0), end) = <<>>
        /\ Written(SubSeq(lines, 1, Len(lines)), end) = Written(lines, end)
        /\ \A k \in 1..Len(lines) :
             Written(SubSeq(lines, 1, k), end) =
               Written(SubSeq(lines, 1, k - 1), end) \o (lines[k] \o end)
        BY <1>0, WrittenLeads
  <2>2. QED BY <2>1, Zenon
<1>2. \A k \in 1..n : FileLine(L(k)) /\ L(k)[1] = lines[k][1]
      BY <1>0, LineWithEnd
<1> HIDE DEF P, n, L
<1>3. 0 \in S
  <2>1. a \o <<>> = a
        BY ConcatEmptySeq
  <2>2. Ok(0)
    <3>1. P(0) \in Seq(Chars) /\ Closed(P(0)) /\ Closed(a \o P(0))
          BY <1>1, <2>1, NoLines
    <3>2. ASSUME NEW c
          PROVE  /\ Count(P(0), c) \in Nat /\ Count(a \o P(0), c) = Count(a, c) + Count(P(0), c)
                 /\ Count(P(0), c) = 0 <=> \A i \in 1..0 : lines[i][1] # c
      <4>0. Count(<<>>, c) = 0
            BY NoLines
      <4>e. P(0) = <<>>
            BY <1>1
      <4>1. Count(P(0), c) = 0 /\ a \o P(0) = a /\ Count(a, c) \in Nat
        <5>1. Count(P(0), c) = 0
              BY <4>0, <4>e, Zenon
        <5>2. a \o P(0) = a
              BY <2>1, <4>e, Zenon
        <5>3. Count(a, c) \in Nat
              OBVIOUS
        <5>4. QED BY <5>1, <5>2, <5>3
      <4>2. Count(a, c) + 0 = Count(a, c)
            BY <4>1
      <4>3. \A i \in 1..0 : lines[i][1] # c
            OBVIOUS
      <4>4. Count(P(0), c) \in Nat
            BY <4>1
      <4>5. Count(a \o P(0), c) = Count(a, c) + Count(P(0), c)
            BY <4>1, <4>2, Zenon
      <4>6. Count(P(0), c) = 0 <=> \A i \in 1..0 : lines[i][1] # c
            BY <4>1, <4>3, Zenon
      <4>7. QED BY <4>4, <4>5, <4>6
    <3>3. QED BY <3>1, <3>2
  <2> HIDE DEF Ok
  <2>3. QED BY <2>2
<1>4. ASSUME NEW k \in Nat, k \in S PROVE k + 1 \in S
  <2> SUFFICES ASSUME k + 1 <= n PROVE Ok(k + 1)
      OBVIOUS
  <2>1. Ok(k)
        BY <1>0, <1>4
  <2>2. k + 1 \in 1..n /\ (k + 1) - 1 = k
        BY <1>0
  <2> DEFINE t == L(k + 1)
             p == P(k)
  <2>3. P(k + 1) = p \o t /\ FileLine(t) /\ t[1] = lines[k + 1][1] /\ t \in Seq(Chars)
        BY <1>1, <1>2, <2>2 DEF FileLine
  <2>p. p = P(k)
        OBVIOUS
  <2> HIDE DEF t, p
  <2>4. p \in Seq(Chars) /\ Closed(p) /\ Closed(a \o p) /\ a \o p \in Seq(Chars)
        BY <2>1, <2>p, Behind
  <2>5. a \o P(k + 1) = (a \o p) \o t
    <3>1. (a \o p) \o t = a \o (p \o t)
          BY <2>3, <2>4, Associative
    <3>2. QED BY <2>3, <3>1
  <2>6. P(k + 1) \in Seq(Chars) /\ Closed(P(k + 1)) /\ Closed(a \o P(k + 1))
    <3>1. p \o t \in Seq(Chars)
          BY <2>3, <2>4, Behind
    <3>2. Closed(p \o t)
          BY <2>3, <2>4, ClosedAppend
    <3>3. Closed((a \o p) \o t)
          BY <2>3, <2>4, ClosedAppend
    <3>4. QED BY <2>3, <2>5, <3>1, <3>2, <3>3
  <2>7. ASSUME NEW c
        PROVE  /\ Count(P(k + 1), c) \in Nat
               /\ Count(a \o P(k + 1), c) = Count(a, c) + Count(P(k + 1), c)
               /\ Count(P(k + 1), c) = 0 <=> \A i \in 1..(k + 1) : lines[i][1] # c
    <3> DEFINE d == IF t[1] = c THEN 1 ELSE 0
    <3>1. Count(P(k + 1), c) = Count(p, c) + d
      <4>1. Count(p \o t, c) = Count(p, c) + d
            BY <2>3, <2>4, CountAppend
      <4>2. QED BY <2>3, <4>1
    <3>2. Count(a \o P(k + 1), c) = Count(a \o p, c) + d
      <4> DEFINE q == a \o p
      <4>1. q \in Seq(Chars) /\ Closed(q)
            BY <2>4
      <4>q. q = a \o p
            OBVIOUS
      <4> HIDE DEF q
      <4>t. FileLine(t)
            BY <2>3
      <4>2. Count(q \o t, c) = Count(q, c) + (IF t[1] = c THEN 1 ELSE 0)
            BY <4>1, <4>t, CountAppend
      <4>3. QED BY <2>5, <4>2, <4>q
    <3>3. /\ Count(p, c) \in Nat /\ Count(a, c) \in Nat
          /\ Count(a \o p, c) = Count(a, c) + Count(p, c)
          /\ Count(p, c) = 0 <=> \A i \in 1..k : lines[i][1] # c
          BY <2>1, <2>p
    <3>4. (\A i \in 1..(k + 1) : lines[i][1] # c) <=>
            (\A i \in 1..k : lines[i][1] # c) /\ t[1] # c
      <4>1. \A i \in 1..(k + 1) : i \in 1..k \/ i = k + 1
            OBVIOUS
      <4>2. k + 1 \in 1..(k + 1) /\ \A i \in 1..k : i \in 1..(k + 1)
            OBVIOUS
      <4>3. QED BY <2>3, <4>1, <4>2
    <3>5. d \in {0, 1} /\ (d = 0 <=> t[1] # c)
          OBVIOUS
    <3> HIDE DEF d
    <3>6. Count(P(k + 1), c) \in Nat /\ (Count(P(k + 1), c) = 0 <=> Count(p, c) = 0 /\ d = 0)
          BY <3>1, <3>3, <3>5
    <3>7. Count(a \o P(k + 1), c) = Count(a, c) + Count(P(k + 1), c)
          BY <3>1, <3>2, <3>3, <3>5
    <3>8. QED BY <3>3, <3>4, <3>5, <3>6, <3>7
  <2>8. QED BY <2>6, <2>7
<1> HIDE DEF S
<1>5. \A k \in Nat : k \in S
      BY <1>3, <1>4, AllNaturals
<1>6. Ok(n)
  <2> HIDE DEF Ok
  <2>1. n \in S /\ n <= n
        BY <1>0, <1>5
  <2>2. QED BY <2>1 DEF S
<1>7. QED BY <1>1, <1>6 DEF n

\* The lines of a file in two parts.
LEMMA WrittenSplit ==
  ASSUME NEW lines \in Seq(Seq(Chars)), NEW end \in Seq(Chars), NEW a \in 0..Len(lines)
  PROVE  Written(lines, end) =
           Written(SubSeq(lines, 1, a), end) \o Written(SubSeq(lines, a + 1, Len(lines)), end)
<1> DEFINE n == Len(lines)
           D == SubSeq(lines, a + 1, n)
           P(k) == Written(SubSeq(lines, 1, k), end)
           Q(k) == Written(SubSeq(D, 1, k), end)
<1>0. n \in Nat /\ a \in Nat /\ \A i \in 1..n : lines[i] \in Seq(Chars)
      BY LenProperties, ElementOfSeq
<1>1. /\ D \in Seq(Seq(Chars)) /\ Len(D) = n - a
      /\ \A j \in 1..(n - a) : D[j] = lines[a + j]
  <2>1. /\ n - a \in Nat /\ D = [j \in 1..(n - a) |-> lines[a + j]]
        BY <1>0
  <2>2. \A j \in 1..(n - a) : lines[a + j] \in Seq(Chars)
        BY <1>0
  <2>3. [j \in 1..(n - a) |-> lines[a + j]] \in [1..(n - a) -> Seq(Chars)]
        BY <2>2
  <2> HIDE DEF D
  <2>4. QED BY <2>1, <2>3
<1>2. P(n) = Written(lines, end) /\ \A k \in 1..n : P(k) = P(k - 1) \o (lines[k] \o end)
  <2>1. /\ Written(SubSeq(lines, 1, Len(lines)), end) = Written(lines, end)
        /\ \A k \in 1..Len(lines) :
             Written(SubSeq(lines, 1, k), end) =
               Written(SubSeq(lines, 1, k - 1), end) \o (lines[k] \o end)
        BY WrittenLeads
  <2>2. QED BY <2>1, Zenon
<1> HIDE DEF D
<1>3. /\ Q(0) = <<>> /\ Q(Len(D)) = Written(D, end)
      /\ \A k \in 1..Len(D) : Q(k) = Q(k - 1) \o (D[k] \o end)
  <2>1. /\ Written(SubSeq(D, 1, 0), end) = <<>>
        /\ Written(SubSeq(D, 1, Len(D)), end) = Written(D, end)
        /\ \A k \in 1..Len(D) :
             Written(SubSeq(D, 1, k), end) = Written(SubSeq(D, 1, k - 1), end) \o (D[k] \o end)
        BY <1>1, WrittenLeads
  <2>2. QED BY <2>1, Zenon
<1>4. P(a) \in Seq(Chars) /\ \A k \in 0..Len(D) : Q(k) \in Seq(Chars)
  <2>1. SubSeq(lines, 1, a) \in Seq(Seq(Chars))
        BY Leading
  <2>2. \A k \in 0..Len(D) : SubSeq(D, 1, k) \in Seq(Seq(Chars))
        BY <1>1, Leading
  <2>3. QED BY <2>1, <2>2, WrittenLeads
<1>5. \A k \in 1..Len(D) : D[k] \o end \in Seq(Chars) /\ D[k] = lines[a + k]
  <2> TAKE k \in 1..Len(D)
  <2>1. D[k] \in Seq(Chars) /\ D[k] = lines[a + k]
        BY <1>1, ElementOfSeq
  <2>2. QED BY <2>1, ConcatProperties
<1> HIDE DEF P, Q, n
<1> DEFINE S == {k \in Nat : k <= Len(D) => P(a + k) = P(a) \o Q(k)}
<1>6. 0 \in S
  <2>1. P(a) \o <<>> = P(a) /\ a + 0 = a
        BY <1>0, <1>4, ConcatEmptySeq
  <2>2. QED BY <1>3, <2>1
<1>7. ASSUME NEW k \in Nat, k \in S PROVE k + 1 \in S
  <2> SUFFICES ASSUME k + 1 <= Len(D) PROVE P(a + (k + 1)) = P(a) \o Q(k + 1)
      OBVIOUS
  <2>1. /\ Len(D) \in Nat /\ k + 1 \in 1..Len(D) /\ k \in 0..Len(D) /\ (k + 1) - 1 = k
        /\ a + (k + 1) \in 1..n /\ (a + (k + 1)) - 1 = a + k /\ k <= Len(D)
        BY <1>0, <1>1
  <2>2. P(a + (k + 1)) = P(a + k) \o (lines[a + (k + 1)] \o end)
        BY <1>2, <2>1
  <2>3. Q(k + 1) = Q(k) \o (D[k + 1] \o end) /\ D[k + 1] = lines[a + (k + 1)]
        BY <1>3, <1>5, <2>1
  <2>4. P(a + k) = P(a) \o Q(k)
        BY <1>7, <2>1
  <2>5. (P(a) \o Q(k)) \o (D[k + 1] \o end) = P(a) \o (Q(k) \o (D[k + 1] \o end))
    <3>1. P(a) \in Seq(Chars) /\ Q(k) \in Seq(Chars) /\ D[k + 1] \o end \in Seq(Chars)
          BY <1>4, <1>5, <2>1
    <3>2. QED BY <3>1, Associative
  <2>6. QED BY <2>2, <2>3, <2>4, <2>5
<1> HIDE DEF S
<1>8. \A k \in Nat : k \in S
      BY <1>6, <1>7, AllNaturals
<1>9. P(a + Len(D)) = P(a) \o Q(Len(D))
  <2>1. Len(D) \in Nat
        BY <1>0, <1>1
  <2>2. QED BY <1>8, <2>1 DEF S
<1>10. a + Len(D) = n
       BY <1>0, <1>1
<1>11. QED BY <1>2, <1>3, <1>9, <1>10 DEF P, D, n

(***************************************************************************)
(* The headers that are added, and the file that is delivered.             *)
(***************************************************************************)

\* What is added has each required header once that was not found, and no other.
LEMMA AddedCounts ==
  ASSUME newline \in Newlines
  PROVE  /\ Added(newline) \in Seq(Chars) /\ Closed(Added(newline))
         /\ \A c : Count(Added(newline), c) \in Nat
         /\ \A i \in 1..Len(Required) :
              Count(Added(newline), Required[i]) = IF Required[i] \in found THEN 0 ELSE 1
<1> DEFINE s == [i \in DOMAIN Required |-> AddedLine(i, newline)]
           n == Len(Required)
           Q(k) == FlattenSeq(SubSeq(s, 1, k))
           Ok(k) == /\ Q(k) \in Seq(Chars) /\ Closed(Q(k))
                    /\ \A c : Count(Q(k), c) \in Nat
                    /\ \A i \in 1..n :
                         Count(Q(k), Required[i]) = IF i <= k /\ Required[i] \notin found THEN 1 ELSE 0
           S == {k \in Nat : k <= n => Ok(k)}
<1>0. newline \in Seq(Chars)
      BY Ends
<1>1. /\ n \in Nat /\ DOMAIN Required = 1..n /\ s \in Seq(Seq(Chars))
      /\ \A i \in 1..n : Required[i] \in Tokens /\ Required[i] \in Chars
      /\ Added(newline) = FlattenSeq(s)
      BY <1>0, AddedTyped
<1>2. Len(s) = n /\ \A i \in 1..n : s[i] = AddedLine(i, newline)
      BY <1>1
<1> HIDE DEF s
<1>3. /\ Q(0) = <<>> /\ Q(n) = Added(newline)
      /\ \A k \in 1..n : Q(k) = Q(k - 1) \o s[k]
  <2>1. /\ FlattenSeq(SubSeq(s, 1, 0)) = <<>>
        /\ FlattenSeq(SubSeq(s, 1, Len(s))) = FlattenSeq(s)
        /\ \A k \in 1..Len(s) : FlattenSeq(SubSeq(s, 1, k)) = FlattenSeq(SubSeq(s, 1, k - 1)) \o s[k]
        BY <1>1, FlattenLeads
  <2>2. Len(s) = n
        BY <1>2
  <2> HIDE DEF n
  <2>3. QED BY <1>1, <2>1, <2>2
<1>4. ASSUME NEW i \in 1..n, Required[i] \notin found
      PROVE  FileLine(s[i]) /\ s[i][1] = Required[i]
  <2> DEFINE l == <<Required[i], Text>>
  <2>1. Text \in Tokens /\ Required[i] \in Tokens /\ Tokens \cap {"CR", "LF"} = {}
        BY <1>1, TokensAssumption
  <2>2. Text \in Chars /\ Required[i] \in Chars
        BY <2>1 DEF Chars
  <2>3. l \in Seq(Chars) /\ Len(l) = 2 /\ l[1] = Required[i] /\ l[2] = Text /\ l # <<>>
        BY <2>2
  <2> HIDE DEF l
  <2>4. \A j \in 1..Len(l) : l[j] \notin {"CR", "LF"}
    <3>1. \A j \in 1..2 : j = 1 \/ j = 2
          OBVIOUS
    <3>2. QED BY <2>1, <2>3, <3>1
  <2>5. FileLine(l \o newline) /\ (l \o newline)[1] = l[1]
        BY <2>3, <2>4, LineWithEnd
  <2>6. s[i] = l \o newline
        BY <1>2, <1>4 DEF AddedLine, l
  <2>7. QED BY <2>3, <2>5, <2>6
<1>d. \A i, j \in 1..n : Required[i] = Required[j] => i = j
      BY <1>1, TokensAssumption
<1> HIDE DEF Q, n
<1>5. 0 \in S
  <2>1. Ok(0)
    <3>1. Q(0) \in Seq(Chars) /\ Closed(Q(0))
          BY <1>3, NoLines
    <3>2. \A c : Count(Q(0), c) = 0
      <4>1. Q(0) = <<>>
            BY <1>3
      <4>2. QED BY <4>1, NoLines, Zenon
    <3>3. \A i \in 1..n : ~(i <= 0)
          BY <1>1
    <3>4. QED BY <3>1, <3>2, <3>3
  <2> HIDE DEF Ok
  <2>2. QED BY <2>1
<1>6. ASSUME NEW k \in Nat, k \in S PROVE k + 1 \in S
  <2> SUFFICES ASSUME k + 1 <= n PROVE Ok(k + 1)
      OBVIOUS
  <2>1. Ok(k)
        BY <1>1, <1>6
  <2>2. k + 1 \in 1..n /\ (k + 1) - 1 = k
        BY <1>1
  <2>3. Q(k + 1) = Q(k) \o s[k + 1]
        BY <1>3, <2>2
  <2>4. /\ Q(k) \in Seq(Chars) /\ Closed(Q(k)) /\ \A c : Count(Q(k), c) \in Nat
        /\ \A i \in 1..n :
             Count(Q(k), Required[i]) = IF i <= k /\ Required[i] \notin found THEN 1 ELSE 0
        BY <2>1
  <2>5. CASE Required[k + 1] \in found
    <3>1. s[k + 1] = <<>>
          BY <1>2, <2>2, <2>5 DEF AddedLine
    <3>2. Q(k + 1) = Q(k)
          BY <2>3, <2>4, <3>1, ConcatEmptySeq
    <3>3. \A i \in 1..n : i <= k + 1 /\ Required[i] \notin found <=> i <= k /\ Required[i] \notin found
      <4> TAKE i \in 1..n
      <4>1. i \in Nat /\ (i <= k + 1 <=> i <= k \/ i = k + 1)
            BY <1>1
      <4>2. QED BY <2>5, <4>1
    <3> DEFINE q == Q(k + 1)
    <3>4. q = Q(k)
          BY <3>2
    <3> HIDE DEF q
    <3>5. /\ q \in Seq(Chars) /\ Closed(q) /\ \A c : Count(q, c) \in Nat
          /\ \A i \in 1..n :
               Count(q, Required[i]) = IF i <= k /\ Required[i] \notin found THEN 1 ELSE 0
          BY <2>4, <3>4, Zenon
    <3>6. \A i \in 1..n :
            Count(q, Required[i]) = IF i <= k + 1 /\ Required[i] \notin found THEN 1 ELSE 0
          BY <3>3, <3>5
    <3>7. QED BY <3>5, <3>6 DEF q
  <2>6. CASE Required[k + 1] \notin found
    <3> DEFINE p == Q(k)
               t == s[k + 1]
               q == Q(k + 1)
    <3>1. FileLine(t) /\ t[1] = Required[k + 1]
          BY <1>4, <2>2, <2>6
    <3>2. q = p \o t /\ p \in Seq(Chars) /\ Closed(p)
          BY <2>3, <2>4
    <3>3. /\ \A c : Count(p, c) \in Nat
          /\ \A i \in 1..n :
               Count(p, Required[i]) = IF i <= k /\ Required[i] \notin found THEN 1 ELSE 0
          BY <2>4
    <3> HIDE DEF p, t, q
    <3>4. t \in Seq(Chars)
          BY <3>1 DEF FileLine
    <3>5. p \o t \in Seq(Chars)
          BY <3>2, <3>4, Behind
    <3>6. Closed(p \o t)
          BY <3>1, <3>2, ClosedAppend
    <3>7. \A c : Count(p \o t, c) = Count(p, c) + (IF t[1] = c THEN 1 ELSE 0)
          BY <3>1, <3>2, CountAppend
    <3>8. \A c : Count(q, c) = Count(p, c) + (IF t[1] = c THEN 1 ELSE 0)
          BY <3>2, <3>7
    <3>9. \A c : Count(q, c) \in Nat
          BY <3>3, <3>8
    <3>10. ASSUME NEW i \in 1..n
           PROVE  Count(q, Required[i]) = IF i <= k + 1 /\ Required[i] \notin found THEN 1 ELSE 0
      <4>1. i \in Nat
            BY <1>1
      <4>2. CASE i = k + 1
        <5>1. ~(i <= k) /\ i <= k + 1 /\ t[1] = Required[i]
              BY <3>1, <4>2
        <5>2. Count(p, Required[i]) = 0
              BY <3>3, <5>1
        <5>3. Count(q, Required[i]) = 0 + 1
              BY <3>8, <5>1, <5>2
        <5>4. QED BY <2>6, <4>2, <5>1, <5>3
      <4>3. CASE i # k + 1
        <5>1. (i <= k <=> i <= k + 1) /\ t[1] # Required[i]
              BY <1>d, <2>2, <3>1, <4>1, <4>3
        <5>2. Count(q, Required[i]) = Count(p, Required[i]) + 0 /\ Count(p, Required[i]) \in Nat
              BY <3>3, <3>8, <5>1
        <5>3. QED BY <3>3, <5>1, <5>2
      <4>4. QED BY <4>2, <4>3
    <3>11. q \in Seq(Chars) /\ Closed(q)
           BY <3>2, <3>5, <3>6
    <3>12. QED BY <3>9, <3>10, <3>11 DEF q
  <2>7. QED BY <2>5, <2>6
<1> HIDE DEF S, Ok
<1>7. \A k \in Nat : k \in S
      BY <1>5, <1>6, AllNaturals
<1>8. Ok(n)
  <2>1. n \in S /\ n <= n
        BY <1>1, <1>7
  <2>2. QED BY <2>1 DEF S
<1>9. /\ Q(n) \in Seq(Chars) /\ Closed(Q(n)) /\ \A c : Count(Q(n), c) \in Nat
      /\ \A i \in 1..n :
           Count(Q(n), Required[i]) = IF i <= n /\ Required[i] \notin found THEN 1 ELSE 0
      BY <1>8 DEF Ok
<1>10. Q(n) = Added(newline)
       BY <1>3
<1>11. \A i \in 1..n : i <= n
       BY <1>1
<1> DEFINE q == Q(n)
<1>12. /\ q \in Seq(Chars) /\ Closed(q) /\ \A c : Count(q, c) \in Nat
       /\ \A i \in 1..n :
            Count(q, Required[i]) = IF i <= n /\ Required[i] \notin found THEN 1 ELSE 0
       BY <1>9
<1> HIDE DEF q
<1>13. \A i \in 1..n : Count(q, Required[i]) = IF Required[i] \in found THEN 0 ELSE 1
       BY <1>11, <1>12
<1>14. q = Added(newline)
       BY <1>10 DEF q
<1>15. QED BY <1>12, <1>13, <1>14 DEF n

\* The message in the spool file: its header, and behind an empty line its body.
LEMMA MessageInFile ==
  ASSUME message \in Messages, newline \in Newlines
  PROVE  LET hd == Written(HeaderLines, newline)
             bd == Written(BodyLines, newline)
             w  == Written(SubSeq(message, 1, Len(message)), newline)
         IN  /\ hd \in Seq(Chars) /\ bd \in Seq(Chars)
             /\ HeaderLines \in Seq(Seq(Chars)) /\ Len(HeaderLines) = Top
             /\ \A i \in 1..Top :
                  /\ HeaderLines[i] = message[i] /\ HeaderLines[i] # <<>>
                  /\ \A j \in 1..Len(HeaderLines[i]) : HeaderLines[i][j] \notin {"CR", "LF"}
             /\ w = hd \o (newline \o bd) \/ (w = hd /\ bd = <<>>)
<1> DEFINE n == Len(message)
           hd == Written(HeaderLines, newline)
           bd == Written(BodyLines, newline)
           w  == Written(SubSeq(message, 1, n), newline)
<1>1. /\ message \in Seq(Seq(Chars)) /\ n \in Nat /\ newline \in Seq(Chars)
      /\ \A i \in 1..n : \A j \in 1..Len(message[i]) : message[i][j] \notin {"CR", "LF"}
      BY MessageTyped, Ends
<1>2. /\ Top \in 0..n /\ HeaderLines = SubSeq(message, 1, Top)
      /\ \A i \in 1..Top : message[i] # <<>> /\ HeaderLines[i] = message[i]
      /\ Top < n => message[Top + 1] = <<>>
      /\ BodyLines = SubSeq(message, Top + 2, n)
      BY HeaderShape
<1>3. HeaderLines \in Seq(Seq(Chars)) /\ Len(HeaderLines) = Top
      BY <1>1, <1>2, Leading
<1>4. ASSUME NEW i \in 1..Top
      PROVE  /\ HeaderLines[i] = message[i] /\ HeaderLines[i] # <<>>
             /\ \A j \in 1..Len(HeaderLines[i]) : HeaderLines[i][j] \notin {"CR", "LF"}
  <2>1. i \in 1..n
        BY <1>1, <1>2
  <2>2. QED BY <1>1, <1>2, <2>1
<1>5. hd \in Seq(Chars)
      BY <1>1, <1>3, WrittenLeads
<1>6. w = Written(message, newline)
      BY <1>1, WrittenLeads
<1>7. CASE Top < n
  <2>1. Top + 1 \in 0..n /\ Top + 1 \in 1..n /\ (Top + 1) - 1 = Top /\ (Top + 1) + 1 = Top + 2
        BY <1>1, <1>2, <1>7
  <2>2. Written(message, newline) =
          Written(SubSeq(message, 1, Top + 1), newline)
            \o Written(SubSeq(message, (Top + 1) + 1, n), newline)
        BY <1>1, <2>1, WrittenSplit
  <2>3. Written(SubSeq(message, 1, Top + 1), newline) =
          Written(SubSeq(message, 1, (Top + 1) - 1), newline) \o (message[Top + 1] \o newline)
        BY <1>1, <2>1, WrittenLeads
  <2>4. message[Top + 1] \o newline = newline
    <3>1. message[Top + 1] = <<>>
          BY <1>2, <1>7
    <3>2. <<>> \o newline = newline
          BY <1>1, ConcatEmptySeq
    <3>3. QED BY <3>1, <3>2, Zenon
  <2>5. Written(SubSeq(message, 1, Top + 1), newline) = hd \o newline
        BY <1>2, <2>1, <2>3, <2>4
  <2>6. Written(message, newline) = (hd \o newline) \o bd
    <3>1. bd = Written(SubSeq(message, (Top + 1) + 1, n), newline)
          BY <1>2, <2>1
    <3> HIDE DEF bd, hd
    <3>2. QED BY <2>2, <2>5, <3>1, Zenon
  <2>7. bd \in Seq(Chars)
    <3> DEFINE m == n - (Top + 1)
    <3>1. m \in Nat /\ BodyLines = [j \in 1..m |-> message[Top + 1 + j]]
      <4>1. m \in Nat
            BY <1>1, <1>2, <2>1
      <4>2. SubSeq(message, Top + 2, n) = [j \in 1..m |-> message[Top + 1 + j]]
            BY <1>1, <1>2, <2>1
      <4>3. QED BY <1>2, <4>1, <4>2
    <3>2. \A j \in 1..m : message[Top + 1 + j] \in Seq(Chars)
      <4> TAKE j \in 1..m
      <4>1. Top + 1 + j \in 1..n
            BY <1>1, <1>2, <2>1
      <4>2. QED BY <1>1, <4>1, ElementOfSeq
    <3>3. [j \in 1..m |-> message[Top + 1 + j]] \in [1..m -> Seq(Chars)]
          BY <3>2
    <3> HIDE DEF m
    <3>4. BodyLines \in Seq(Seq(Chars))
          BY <3>1, <3>3
    <3>5. QED BY <1>1, <3>4, WrittenLeads
  <2> HIDE DEF hd, bd, w
  <2>8. (hd \o newline) \o bd = hd \o (newline \o bd)
        BY <1>1, <1>5, <2>7, Associative
  <2>9. w = hd \o (newline \o bd)
        BY <1>6, <2>6, <2>8
  <2>10. QED BY <1>3, <1>4, <1>5, <2>7, <2>9 DEF hd, bd, w
<1>8. CASE Top = n
  <2>1. w = hd
        BY <1>2, <1>8
  <2>2. BodyLines = <<>>
        BY <1>1, <1>2, <1>8
  <2>3. bd = <<>>
    <3>1. <<>> \in Seq(Seq(Chars)) /\ Len(<<>>) = 0 /\ SubSeq(<<>>, 1, 0) = <<>>
          OBVIOUS
    <3>2. Written(SubSeq(<<>>, 1, 0), newline) = <<>>
          BY <1>1, <3>1, WrittenLeads
    <3>3. Written(<<>>, newline) = <<>>
          BY <3>1, <3>2, Zenon
    <3>4. QED BY <2>2, <3>3, Zenon
  <2> HIDE DEF hd, bd, w
  <2>4. bd \in Seq(Chars)
        BY <2>3, NoLines
  <2>5. QED BY <1>3, <1>4, <1>5, <2>1, <2>3, <2>4 DEF hd, bd, w
<1>9. Top < n \/ Top = n
      BY <1>1, <1>2
<1>10. QED BY <1>7, <1>8, <1>9, Zenon

\* The file with what is put in front of the message is whole.
LEMMA WholeInFront ==
  ASSUME TypeInv, WellFormed, Taken(Len(message)), NEW a \in Seq(Chars), Closed(a),
         \A c : Count(a, c) \in Nat,
         \A i \in 1..Len(Required) :
           Count(a, Required[i]) = IF Required[i] \in found THEN 0 ELSE 1
  PROVE  Whole(a \o spool)
<1> DEFINE hd == Written(HeaderLines, newline)
           bd == Written(BodyLines, newline)
           f  == a \o spool
<1>1. message \in Messages /\ newline \in Newlines /\ Len(message) \in Nat
      BY MessageTyped DEF TypeInv
<1>2. /\ hd \in Seq(Chars) /\ bd \in Seq(Chars)
      /\ HeaderLines \in Seq(Seq(Chars)) /\ Len(HeaderLines) = Top
      /\ \A i \in 1..Top :
           /\ HeaderLines[i] = message[i] /\ HeaderLines[i] # <<>>
           /\ \A j \in 1..Len(HeaderLines[i]) : HeaderLines[i][j] \notin {"CR", "LF"}
      /\ \/ Written(SubSeq(message, 1, Len(message)), newline) = hd \o (newline \o bd)
         \/ Written(SubSeq(message, 1, Len(message)), newline) = hd /\ bd = <<>>
      BY <1>1, MessageInFile
<1>3. spool = hd \o (newline \o bd) \/ (spool = hd /\ bd = <<>>)
      BY <1>2 DEF Taken
<1>4. /\ Closed(a \o hd)
      /\ \A c : /\ Count(hd, c) \in Nat /\ Count(a \o hd, c) = Count(a, c) + Count(hd, c)
                /\ Count(hd, c) = 0 <=> \A i \in 1..Top : HeaderLines[i][1] # c
  <2>1. /\ HeaderLines \in Seq(Seq(Chars)) /\ newline \in Newlines
        /\ \A i \in 1..Len(HeaderLines) :
             /\ HeaderLines[i] # <<>>
             /\ \A j \in 1..Len(HeaderLines[i]) : HeaderLines[i][j] \notin {"CR", "LF"}
        BY <1>1, <1>2
  <2>2. /\ Closed(a \o Written(HeaderLines, newline))
        /\ \A c : /\ Count(Written(HeaderLines, newline), c) \in Nat
                  /\ Count(a \o Written(HeaderLines, newline), c) =
                       Count(a, c) + Count(Written(HeaderLines, newline), c)
                  /\ Count(Written(HeaderLines, newline), c) = 0 <=>
                       \A i \in 1..Len(HeaderLines) : HeaderLines[i][1] # c
        BY <2>1, WrittenBehind
  <2>3. Len(HeaderLines) = Top
        BY <1>2
  <2>4. QED BY <2>2, <2>3, Zenon
<1>e. newline \in Seq(Chars)
      BY <1>1, Ends
<1> HIDE DEF hd, bd, f
<1>5. a \o hd \in Seq(Chars) /\ newline \o bd \in Seq(Chars)
      BY <1>2, <1>e, Behind
<1>6. HeaderPart(f) = a \o hd /\ SkipHeader(f) = bd
  <2>1. CASE spool = hd \o (newline \o bd)
    <3>1. (a \o hd) \o (newline \o bd) = a \o (hd \o (newline \o bd))
          BY <1>2, <1>5, Associative
    <3>2. f = (a \o hd) \o (newline \o bd)
          BY <2>1, <3>1 DEF f
    <3>3. /\ HeaderPart((a \o hd) \o (newline \o bd)) = a \o hd
          /\ SkipHeader((a \o hd) \o (newline \o bd)) = bd
      <4> DEFINE h == a \o hd
      <4>1. h \in Seq(Chars) /\ Closed(h) /\ newline \in Newlines /\ bd \in Seq(Chars)
            BY <1>1, <1>2, <1>4, <1>5
      <4> HIDE DEF h
      <4>2. HeaderPart(h \o (newline \o bd)) = h /\ SkipHeader(h \o (newline \o bd)) = bd
            BY <4>1, HeaderOf
      <4>3. QED BY <4>2 DEF h
    <3>4. QED BY <3>2, <3>3, Zenon
  <2>2. CASE spool = hd /\ bd = <<>>
    <3>1. HeaderPart(a \o hd) = a \o hd /\ SkipHeader(a \o hd) = <<>>
          BY <1>4, HeaderAll
    <3>2. f = a \o hd
          BY <2>2 DEF f
    <3>3. QED BY <2>2, <3>1, <3>2, Zenon
  <2>3. QED BY <1>3, <2>1, <2>2
<1>7. ASSUME NEW i \in DOMAIN Required
      PROVE  Count(a \o hd, Required[i]) = Wanted(Required[i])
  <2> DEFINE c == Required[i]
             x == Count(hd, c)
  <2>1. DOMAIN Required = 1..Len(Required)
        BY <1>e, AddedTyped
  <2>2. Wanted(c) = IF x = 0 THEN 1 ELSE x
        BY DEF Wanted, hd
  <2>3. x \in Nat /\ Count(a \o hd, c) = Count(a, c) + x
        BY <1>4
  <2>4. Count(a, c) = IF c \in found THEN 0 ELSE 1
        BY <2>1
  <2>5. x = 0 <=> \A k \in 1..Top : HeaderLines[k][1] # c
        BY <1>4
  <2>6. c \in ToSet(Required)
        BY DEF ToSet
  <2>7. found = SentUpTo(Len(message)) /\ Top \in 0..Len(message)
        BY <1>1, HeaderShape DEF Taken
  <2> HIDE DEF c, x
  <2>8. c \in found <=> \E k \in 1..Len(message) : k <= Top /\ message[k][1] = c
        BY <2>6, <2>7 DEF SentUpTo
  <2>9. (\E k \in 1..Len(message) : k <= Top /\ message[k][1] = c) <=>
          \E k \in 1..Top : HeaderLines[k][1] = c
    <3>1. \A k : k \in 1..Top <=> k \in 1..Len(message) /\ k <= Top
          BY <1>1, <2>7
    <3>2. \A k \in 1..Top : HeaderLines[k] = message[k]
          BY <1>2
    <3>3. QED BY <3>1, <3>2
  <2>10. c \in found <=> x # 0
         BY <2>5, <2>8, <2>9
  <2>11. Count(a \o hd, c) = IF x = 0 THEN 1 ELSE x
    <3>1. CASE x = 0
          BY <2>3, <2>4, <2>10, <3>1
    <3>2. CASE x # 0
          BY <2>3, <2>4, <2>10, <3>2
    <3>3. QED BY <3>1, <3>2
  <2>12. QED BY <2>2, <2>11 DEF c
<1>8. Has(a \o hd, hd)
      BY <1>2, HasAround
<1>9. Whole(f)
  <2>1. Closed(HeaderPart(f))
        BY <1>4, <1>6, Zenon
  <2>2. SkipHeader(f) = Written(BodyLines, newline)
        BY <1>6 DEF bd
  <2>3. \A i \in DOMAIN Required : Count(HeaderPart(f), Required[i]) = Wanted(Required[i])
        BY <1>6, <1>7, Zenon
  <2>4. Has(HeaderPart(f), hd)
        BY <1>6, <1>8, Zenon
  <2>5. QED BY <2>1, <2>2, <2>3, <2>4 DEF Whole, hd
<1>10. QED BY <1>9 DEF f

\* A header that a module adds leaves the file whole.
LEMMA WholeWithHeader ==
  ASSUME TypeInv, WellFormed, Whole(spool), NEW end \in Newlines
  PROVE  Whole((((HeaderPart(spool) \o <<"X-Module:", Text>>) \o end) \o end) \o SkipHeader(spool))
<1> DEFINE h == HeaderPart(spool)
           l == <<"X-Module:", Text>>
           t == l \o end
           b == SkipHeader(spool)
           f == (((h \o l) \o end) \o end) \o b
<1>1. h \in Seq(Chars) /\ b \in Seq(Chars) /\ end \in Seq(Chars)
      BY PartsTyped, Ends DEF TypeInv
<1>2. /\ Closed(h) /\ b = Written(BodyLines, newline)
      /\ \A i \in DOMAIN Required : Count(h, Required[i]) = Wanted(Required[i])
      /\ Has(h, Written(HeaderLines, newline))
      BY DEF Whole
<1>3. l \in Seq(Chars) /\ Len(l) = 2 /\ l[1] = "X-Module:" /\ l[2] = Text /\ l # <<>>
  <2>1. "X-Module:" \in Chars /\ Text \in Chars
        BY TokensAssumption DEF Chars
  <2>2. QED BY <2>1
<1>4. "X-Module:" \notin {"CR", "LF"} /\ Text \notin {"CR", "LF"}
      BY TokensAssumption
<1> HIDE DEF h, l, b
<1>5. FileLine(t) /\ t[1] = "X-Module:"
  <2>1. \A j \in 1..Len(l) : l[j] \notin {"CR", "LF"}
    <3>1. \A j \in 1..2 : j = 1 \/ j = 2
          OBVIOUS
    <3>2. QED BY <1>3, <1>4, <3>1
  <2>2. FileLine(l \o end) /\ (l \o end)[1] = l[1]
        BY <1>3, <2>1, LineWithEnd
  <2>3. QED BY <1>3, <2>2
<1>6. t \in Seq(Chars)
      BY <1>1, <1>3, Behind
<1>7. f = (h \o t) \o (end \o b)
  <2>1. (h \o l) \o end = h \o t
        BY <1>1, <1>3, Associative
  <2> HIDE DEF t
  <2>2. h \o t \in Seq(Chars)
        BY <1>1, <1>6, Behind
  <2>3. ((h \o t) \o end) \o b = (h \o t) \o (end \o b)
        BY <1>1, <2>2, Associative
  <2>4. QED BY <2>1, <2>3, Zenon
<1> HIDE DEF t, f
<1>8. h \o t \in Seq(Chars) /\ Closed(h \o t)
      BY <1>1, <1>2, <1>5, <1>6, ClosedAppend, Behind
<1>9. HeaderPart(f) = h \o t /\ SkipHeader(f) = b
  <2> DEFINE q == h \o t
  <2>1. q \in Seq(Chars) /\ Closed(q)
        BY <1>8
  <2>2. f = q \o (end \o b)
        BY <1>7
  <2> HIDE DEF q
  <2>3. HeaderPart(q \o (end \o b)) = q /\ SkipHeader(q \o (end \o b)) = b
        BY <1>1, <2>1, HeaderOf
  <2>4. HeaderPart(f) = q /\ SkipHeader(f) = b
        BY <2>2, <2>3, Zenon
  <2>5. QED BY <2>4 DEF q
<1>10. ASSUME NEW i \in DOMAIN Required
       PROVE  Count(h \o t, Required[i]) = Wanted(Required[i])
  <2>1. Required[i] # t[1]
    <3>1. Required[i] \in ToSet(Required)
          BY DEF ToSet
    <3>2. QED BY <1>5, <3>1, RequiredNames
  <2>2. /\ Count(h, Required[i]) \in Nat
        /\ Count(h \o t, Required[i]) = Count(h, Required[i]) + (IF t[1] = Required[i] THEN 1 ELSE 0)
        BY <1>1, <1>2, <1>5, CountAppend
  <2>3. Count(h, Required[i]) = Wanted(Required[i])
        BY <1>2
  <2>4. QED BY <2>1, <2>2, <2>3
<1>11. Has(h \o t, Written(HeaderLines, newline))
  <2>1. Written(HeaderLines, newline) \in Seq(Chars)
    <3>1. message \in Messages /\ newline \in Newlines
          BY DEF TypeInv
    <3>2. QED BY <3>1, MessageInFile
  <2>2. QED BY <1>1, <1>2, <1>6, <2>1, HasAround
<1>12. Whole(f)
  <2>1. Closed(HeaderPart(f)) /\ SkipHeader(f) = Written(BodyLines, newline)
        BY <1>2, <1>8, <1>9, Zenon
  <2>2. \A i \in DOMAIN Required : Count(HeaderPart(f), Required[i]) = Wanted(Required[i])
        BY <1>9, <1>10, Zenon
  <2>3. Has(HeaderPart(f), Written(HeaderLines, newline))
        BY <1>9, <1>11, Zenon
  <2>4. QED BY <2>1, <2>2, <2>3 DEF Whole
<1>13. QED BY <1>12 DEF f, h, l, b

(***************************************************************************)
(* The content is kept to the end.                                         *)
(***************************************************************************)
LEMMA PromiseStays ==
  ASSUME message' = message, newline' = newline
  PROVE  /\ WellFormed' = WellFormed /\ Fits' = Fits
         /\ HeaderLines' = HeaderLines /\ BodyLines' = BodyLines /\ \A c : Wanted(c)' = Wanted(c)
<1>1. HeaderLines' = HeaderLines
      BY DEF HeaderLines, Blanks
<1>2. QED BY <1>1, SentStays DEF BodyLines, Wanted

LEMMA AppendHeadersContent == TypeInv /\ ContentInv /\ AppendHeaders => ContentInv'
<1> SUFFICES ASSUME TypeInv, ContentInv, AppendHeaders PROVE ContentInv'
    OBVIOUS
<1> DEFINE end == IF nl = NULL THEN <<"(null)">> ELSE nl
<1>1. /\ message' = message /\ newline' = newline /\ peer' = peer /\ pc = "headers" /\ pc' = "queue"
      /\ spool' = IF ToSet(Required) \subseteq found THEN spool
                  ELSE (Added(end) \o (IF found_header THEN <<>> ELSE end)) \o spool
      BY DEF AppendHeaders, reader
<1>2. /\ WellFormed' = WellFormed /\ Fits' = Fits /\ HeaderLines' = HeaderLines
      /\ BodyLines' = BodyLines /\ \A c : Wanted(c)' = Wanted(c)
      BY <1>1, PromiseStays
<1> SUFFICES ASSUME peer = "there", WellFormed, Fits PROVE Whole(spool)'
    BY <1>1, <1>2 DEF ContentInv
<1>3. Taken(Len(message))
      BY <1>1 DEF ContentInv
<1>4. message \in Messages /\ newline \in Newlines /\ Len(message) \in Nat
      BY MessageTyped DEF TypeInv
<1>5. Len(message) > 0
  <2> SUFFICES ASSUME Len(message) = 0 PROVE FALSE
      BY <1>4
  <2>1. /\ Top \in 0..Len(message) /\ HeaderLines = SubSeq(message, 1, Top)
        /\ message \in Seq(Seq(Chars))
        BY <1>4, HeaderShape, MessageTyped
  <2>2. HeaderLines \in Seq(Seq(Chars)) /\ Len(HeaderLines) = 0
        BY <2>1, Leading
  <2>3. QED BY <2>2, EmptySeq DEF WellFormed
<1>6. found_header = TRUE
  <2>1. found_header = (Len(message) > 0)
        BY <1>3 DEF Taken
  <2>2. (Len(message) > 0) = TRUE
        BY <1>5
  <2>3. QED BY <2>1, <2>2, Zenon
<1>7. end = newline
  <2>1. newline # NULL /\ nl = newline
        BY <1>3, <1>4, <1>5, DataAssumption DEF Taken
  <2>2. QED BY <2>1
<1> DEFINE a == IF ToSet(Required) \subseteq found THEN <<>> ELSE Added(newline)
<1>8. /\ a \in Seq(Chars) /\ Closed(a) /\ \A c : Count(a, c) \in Nat
      /\ \A i \in 1..Len(Required) :
           Count(a, Required[i]) = IF Required[i] \in found THEN 0 ELSE 1
  <2>1. CASE ToSet(Required) \subseteq found
    <3>1. a = <<>>
          BY <2>1
    <3>2. \A i \in 1..Len(Required) : Required[i] \in found
      <4>1. newline \in Seq(Chars)
            BY <1>4, Ends
      <4>2. DOMAIN Required = 1..Len(Required)
            BY <4>1, AddedTyped
      <4>3. QED BY <2>1, <4>2 DEF ToSet
    <3> HIDE DEF a
    <3>3. \A c : Count(a, c) = 0
          BY <3>1, NoLines, Zenon
    <3>4. QED BY <3>1, <3>2, <3>3, NoLines
  <2>2. CASE ~(ToSet(Required) \subseteq found)
    <3>1. a = Added(newline)
          BY <2>2
    <3> HIDE DEF a
    <3>2. /\ Added(newline) \in Seq(Chars) /\ Closed(Added(newline))
          /\ \A c : Count(Added(newline), c) \in Nat
          /\ \A i \in 1..Len(Required) :
               Count(Added(newline), Required[i]) = IF Required[i] \in found THEN 0 ELSE 1
          BY <1>4, AddedCounts
    <3>3. QED BY <3>1, <3>2, Zenon
  <2>3. QED BY <2>1, <2>2
<1>9. spool' = a \o spool
  <2>0. spool \in Seq(Chars) /\ Added(newline) \in Seq(Chars)
    <3>1. Added(newline) \in Seq(Chars)
          BY <1>4, AddedCounts
    <3>2. QED BY <3>1 DEF TypeInv
  <2>1. CASE ToSet(Required) \subseteq found
        BY <1>1, <2>0, <2>1, ConcatEmptySeq
  <2>2. CASE ~(ToSet(Required) \subseteq found)
    <3>1. spool' = (Added(end) \o (IF found_header THEN <<>> ELSE end)) \o spool
          BY <1>1, <2>2
    <3>2. (IF found_header THEN <<>> ELSE end) = <<>>
          BY <1>6
    <3> HIDE DEF end
    <3>3. spool' = (Added(newline) \o <<>>) \o spool
          BY <1>7, <3>1, <3>2, Zenon
    <3>4. Added(newline) \o <<>> = Added(newline)
          BY <2>0, ConcatEmptySeq
    <3>5. a = Added(newline)
          BY <2>2
    <3> HIDE DEF a
    <3>6. QED BY <3>3, <3>4, <3>5, Zenon
  <2>3. QED BY <2>1, <2>2
<1> HIDE DEF a, end
<1>10. Whole(a \o spool)
       BY <1>3, <1>8, WholeInFront
<1>11. QED BY <1>1, <1>2, <1>9, <1>10 DEF Whole

LEMMA FlushDirtyContent == TypeInv /\ ContentInv /\ FlushDirty => ContentInv'
<1> SUFFICES ASSUME TypeInv, ContentInv, FlushDirty PROVE ContentInv'
    OBVIOUS
<1>1. /\ message' = message /\ newline' = newline /\ peer' = peer /\ pc = "queue" /\ pc' = "deliver"
      BY DEF FlushDirty, reader
<1>2. /\ WellFormed' = WellFormed /\ Fits' = Fits /\ HeaderLines' = HeaderLines
      /\ BodyLines' = BodyLines /\ \A c : Wanted(c)' = Wanted(c)
      BY <1>1, PromiseStays
<1> SUFFICES ASSUME peer = "there", WellFormed, Fits PROVE Whole(spool)'
    BY <1>1, <1>2 DEF ContentInv
<1>3. Whole(spool)
      BY <1>1 DEF ContentInv
<1>4. PICK end \in Newlines :
        spool' = (((HeaderPart(spool) \o <<"X-Module:", Text>>) \o end) \o end) \o SkipHeader(spool)
      BY DEF FlushDirty
<1> DEFINE f == (((HeaderPart(spool) \o <<"X-Module:", Text>>) \o end) \o end) \o SkipHeader(spool)
<1>5. Whole(f)
      BY <1>3, WholeWithHeader
<1>6. spool' = f
      BY <1>4
<1> HIDE DEF f
<1>7. QED BY <1>1, <1>2, <1>5, <1>6 DEF Whole

LEMMA QueueContent ==
  TypeInv /\ ContentInv /\ (NotDirty \/ DeliverToFile) => ContentInv'
<1> SUFFICES ASSUME TypeInv, ContentInv, NotDirty \/ DeliverToFile PROVE ContentInv'
    OBVIOUS
<1>1. /\ message' = message /\ newline' = newline /\ peer' = peer /\ spool' = spool
      /\ pc \in {"queue", "deliver"} /\ pc' \in {"deliver", "done"}
      /\ pc' = "done" => out' = spool
      BY DEF NotDirty, DeliverToFile, reader
<1>2. /\ WellFormed' = WellFormed /\ Fits' = Fits /\ HeaderLines' = HeaderLines
      /\ BodyLines' = BodyLines /\ \A c : Wanted(c)' = Wanted(c)
      BY <1>1, PromiseStays
<1>3. Whole(spool) => Whole(spool)'
      BY <1>1, <1>2 DEF Whole
<1>4. QED BY <1>1, <1>2, <1>3 DEF ContentInv

LEMMA StutterContent == TypeInv /\ ContentInv /\ UNCHANGED vars => ContentInv'
<1> SUFFICES ASSUME TypeInv, ContentInv, UNCHANGED vars PROVE ContentInv'
    OBVIOUS
<1>1. /\ message' = message /\ newline' = newline /\ peer' = peer /\ spool' = spool
      /\ taken' = taken /\ buffered' = buffered /\ buf' = buf /\ found' = found
      /\ in_header' = in_header /\ found_header' = found_header /\ nl' = nl
      /\ pc' = pc /\ out' = out
      BY DEF vars, reader, flags
<1>2. /\ WellFormed' = WellFormed /\ Fits' = Fits /\ HeaderLines' = HeaderLines
      /\ BodyLines' = BodyLines /\ \A c : Wanted(c)' = Wanted(c)
      BY <1>1, PromiseStays
<1>3. /\ Len(message)' = Len(message) /\ Top' = Top
      /\ \A k : SentUpTo(k)' = SentUpTo(k) /\ Line(k)' = Line(k) /\ Start(k)' = Start(k)
      BY <1>1, SentStays
<1>4. Whole(spool)' <=> Whole(spool)
      BY <1>1, <1>2 DEF Whole
<1>5. \A k : (Taken(k)' <=> Taken(k)) /\ (InLine(k)' <=> InLine(k))
      BY <1>1, <1>3 DEF Taken, InLine
<1>6. QED BY <1>1, <1>2, <1>3, <1>4, <1>5 DEF ContentInv

LEMMA ContentStep == TypeInv /\ ContentInv /\ [Next]_vars => ContentInv'
BY FillContent, NextCharContent, GoneContent, EndOfDataContent, TakeLineContent,
   AppendHeadersContent, FlushDirtyContent, QueueContent, StutterContent DEF Next

LEMMA DataInvHolds == Spec => []DataInv
<1>1. Init => DataInv
      BY InitTypes, InitContent DEF DataInv
<1>2. DataInv /\ [Next]_vars => DataInv'
      BY TypesStep, ContentStep DEF DataInv
<1>3. QED BY <1>1, <1>2, PTL DEF Spec

\* The body that the nexthop gets is the one the client sent, however it is cut into pieces by
\* read(), and whatever headers are added or edited (smf_smtpd_process_data,
\* smf_message_write_skip_header).
THEOREM BodyIsKept == Spec => []BodyKept
<1>1. DataInv => BodyKept
      BY DEF DataInv, ContentInv, Whole, BodyKept, Received
<1>2. QED BY <1>1, DataInvHolds, PTL

\* A required header is added once if the client sent none and never else, and no header line
\* gets lost (smf_smtpd_append_missing_headers, smf_modules_flush_dirty).
THEOREM HeadersAreOnce == Spec => []HeadersOnce
<1>1. DataInv => HeadersOnce
      BY DEF DataInv, ContentInv, Whole, Wanted, HeadersOnce, Received
<1>2. QED BY <1>1, DataInvHolds, PTL
=============================================================================
