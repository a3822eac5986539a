------------------------- MODULE RevisionLogProofs -------------------------
(***************************************************************************)
(* What holds of RevisionLog for any number of revisions, failures and      *)
(* stops.                                                                   *)
(*                                                                         *)
(* The invariant LInv has two parts that do not depend on each other.  While *)
(* no write has failed, the file is the lines of revisions 1, 2, 3 and so   *)
(* on, only the last of them perhaps cut short, and an open store has read  *)
(* all of them: the recovery therefore neither loses nor adds a revision.   *)
(* With fsync, and whatever failed, the newline of every acknowledged       *)
(* revision lies in the synced part of the file, where neither a power loss *)
(* nor a recovery takes it away.                                            *)
(***************************************************************************)
EXTENDS RevisionLog, Counting, SequenceTheorems

-----------------------------------------------------------------------------
(* The inductive invariant.                                                 *)

\* The lines of revisions 1, 2, 3 and so on, the last of them perhaps cut short.
InOrder(tokens) ==
  \A q \in 0..Len(tokens) :
    3 * q + 1 <= Len(tokens) =>
      \E r \in Revision :
        /\ r.seq = q + 1
        /\ tokens[3 * q + 1] = HeadOf(r)
        /\ 3 * q + 2 <= Len(tokens) => tokens[3 * q + 2] = RestOf(r)
        /\ 3 * q + 3 <= Len(tokens) => tokens[3 * q + 3] = Newline

\* No line is cut short.
WholeLines(tokens) == \E q \in 0..Len(tokens) : Len(tokens) = 3 * q

SeqsUpTo(tokens, n) ==
  \A i \in 1..Len(tokens) : tokens[i] # Newline => tokens[i].rev.seq <= n

IssuedFirst ==
  /\ SeqsUpTo(file, issued)
  /\ SeqsUpTo(buffer, issued)
  /\ \A i \in 1..Len(memory) : memory[i].seq <= issued

ClosedIsEmpty == ~ serving => buffer = <<>> /\ memory = <<>> /\ pending = {}

FileFollowsMemory ==
  failures = 0 =>
    /\ buffer = <<>>
    /\ InOrder(file)
    /\ serving => memory = RevisionsIn(file) /\ WholeLines(file)

\* The end of an acknowledged revision's line is on the disk.
OnDisk(r) ==
  \E i \in 1..Len(file) : i < synced /\ file[i] = RestOf(r) /\ file[i + 1] = Newline

AckedOnDisk == Fsync => \A a \in 1..Len(acked) : OnDisk(acked[a])

LInv ==
  /\ TypeOK
  /\ IssuedFirst
  /\ ClosedIsEmpty
  /\ FileFollowsMemory
  /\ AckedOnDisk

-----------------------------------------------------------------------------
(* Numbers and sequences.                                                   *)

\* A bounded set of numbers that is not empty has a greatest one, which MaxOf finds.
LEMMA GreatestExists ==
  ASSUME NEW b \in Nat, NEW S, S \subseteq 0..b, S # {}
  PROVE  MaxOf(S) \in S /\ \A y \in S : y <= MaxOf(S)
<1> DEFINE distances == {x \in 0..b : b - x \in S}
<1>1. distances \subseteq Nat /\ distances # {}
  <2>1. PICK y \in S : TRUE
    OBVIOUS
  <2>2. y \in 0..b /\ b - y \in 0..b /\ b - (b - y) = y
    OBVIOUS
  <2>3. b - y \in distances
    BY <2>2
  <2> QED
    BY <2>3
<1>2. PICK x \in distances : \A y \in distances : x <= y
  <2> HIDE DEF distances
  <2> QED
    BY <1>1, LeastExists
<1>3. b - x \in S /\ x \in 0..b
  OBVIOUS
<1>4. ASSUME NEW y \in S
      PROVE  y <= b - x
  <2>1. y \in 0..b /\ b - y \in 0..b /\ b - (b - y) = y
    OBVIOUS
  <2>2. x <= b - y
    BY <1>2, <2>1
  <2> QED
    BY <1>3, <2>1, <2>2
<1>5. \E m \in S : \A y \in S : y <= m
  BY <1>3, <1>4
<1> QED
  BY <1>5 DEF MaxOf

\* Every number is the position in a line of some third of the file.
LEMMA InThrees ==
  ASSUME NEW n \in Nat
  PROVE  \E q \in Nat : \E x \in 0..2 : n = 3 * q + x
<1> DEFINE S == {m \in Nat : \E q \in Nat : \E x \in 0..2 : m = 3 * q + x}
<1>1. 0 \in S
  <2>1. 0 = 3 * 0 + 0
    OBVIOUS
  <2> QED
    BY <2>1
<1>2. ASSUME NEW m \in Nat, m \in S
      PROVE  m + 1 \in S
  <2>1. PICK q \in Nat, x \in 0..2 : m = 3 * q + x
    BY <1>2
  <2>2. CASE x = 2
    <3>1. m + 1 = 3 * q + 3 /\ q + 1 \in Nat /\ 0 \in 0..2
      BY <2>1, <2>2
    <3>2. 3 * (q + 1) + 0 = 3 * q + 3
      OBVIOUS
    <3>3. m + 1 = 3 * (q + 1) + 0 /\ m + 1 \in Nat
      BY <3>1, <3>2
    <3> QED
      BY <3>1, <3>3
  <2>3. CASE x # 2
    <3>1. m + 1 = 3 * q + (x + 1) /\ x + 1 \in 0..2
      BY <2>1, <2>3
    <3> QED
      BY <3>1
  <2> QED
    BY <2>2, <2>3
<1> HIDE DEF S
<1>3. Nat \subseteq S
  BY <1>1, <1>2, Induction
<1> QED
  BY <1>3 DEF S

\* A beginning of a sequence and the rest of it.
LEMMA PrefixSuffix ==
  ASSUME NEW T, NEW s \in Seq(T), NEW n \in 0..Len(s)
  PROVE  /\ Prefix(s, n) \in Seq(T)
         /\ Len(Prefix(s, n)) = n
         /\ \A i \in 1..n : Prefix(s, n)[i] = s[i]
         /\ Suffix(s, n) \in Seq(T)
         /\ Len(Suffix(s, n)) = Len(s) - n
         /\ \A i \in 1..(Len(s) - n) : Suffix(s, n)[i] = s[n + i]
         /\ s = Prefix(s, n) \o Suffix(s, n)
<1>1. Len(s) \in Nat /\ n \in Nat /\ \A i \in 1..Len(s) : s[i] \in T
  OBVIOUS
<1>2. /\ SubSeq(s, 1, n) \in Seq(T)
      /\ Len(SubSeq(s, 1, n)) = n
      /\ \A i \in 1..n : SubSeq(s, 1, n)[i] = s[i]
  OBVIOUS
<1>3. /\ SubSeq(s, n + 1, Len(s)) \in Seq(T)
      /\ Len(SubSeq(s, n + 1, Len(s))) = Len(s) - n
      /\ \A i \in 1..(Len(s) - n) : SubSeq(s, n + 1, Len(s))[i] = s[n + i]
  BY <1>1
<1>4. SubSeq(s, 1, n) \o SubSeq(s, n + 1, Len(s)) = s
  <2> DEFINE a == SubSeq(s, 1, n)
             z == SubSeq(s, n + 1, Len(s))
  <2> HIDE DEF a, z
  <2>1. a \in Seq(T) /\ z \in Seq(T) /\ Len(a) = n /\ Len(z) = Len(s) - n
    BY <1>2, <1>3 DEF a, z
  <2>2. /\ a \o z \in Seq(T)
        /\ Len(a \o z) = Len(s)
        /\ \A i \in 1..Len(s) : (a \o z)[i] = IF i <= n THEN a[i] ELSE z[i - n]
    BY <1>1, <2>1, ConcatProperties
  <2>3. ASSUME NEW i \in 1..Len(s)
        PROVE  (a \o z)[i] = s[i]
    <3>1. CASE i <= n
      BY <1>1, <1>2, <2>2, <3>1 DEF a
    <3>2. CASE ~ (i <= n)
      <4>1. i - n \in 1..(Len(s) - n) /\ n + (i - n) = i
        BY <1>1, <3>2
      <4>2. z[i - n] = s[n + (i - n)]
        BY <1>3, <4>1 DEF z
      <4> QED
        BY <2>2, <3>2, <4>1, <4>2
    <3> QED
      BY <3>1, <3>2
  <2>4. a \o z = s
    BY <2>2, <2>3, SeqEqual
  <2> QED
    BY <2>4 DEF a, z
<1> QED
  BY <1>2, <1>3, <1>4 DEF Prefix, Suffix

-----------------------------------------------------------------------------
(* Tokens.                                                                  *)

\* The three kinds of tokens are different.
LEMMA TokenKinds ==
  /\ Newline \in Token /\ Newline.part = "newline"
  /\ \A r \in Revision :
       /\ HeadOf(r) \in Token /\ HeadOf(r).part = "head" /\ HeadOf(r).rev = r
       /\ RestOf(r) \in Token /\ RestOf(r).part = "rest" /\ RestOf(r).rev = r
       /\ HeadOf(r) # Newline /\ RestOf(r) # Newline /\ RestOf(r) # HeadOf(r)
  /\ \A t \in Token :
       /\ t.part = "head" => t.rev \in Revision /\ t = HeadOf(t.rev)
       /\ t.part = "rest" => t.rev \in Revision /\ t = RestOf(t.rev)
       /\ t.part \in {"head", "rest", "newline"}
       /\ t # Newline => t.part \in {"head", "rest"} /\ t.rev \in Revision
<1>1. Newline \in Token /\ Newline.part = "newline"
  BY DEF Token, Newline
<1>2. ASSUME NEW r \in Revision
      PROVE  /\ HeadOf(r) \in Token /\ HeadOf(r).part = "head" /\ HeadOf(r).rev = r
             /\ RestOf(r) \in Token /\ RestOf(r).part = "rest" /\ RestOf(r).rev = r
  BY DEF Token, HeadOf, RestOf
<1>3. ASSUME NEW r \in Revision
      PROVE  HeadOf(r) # Newline /\ RestOf(r) # Newline /\ RestOf(r) # HeadOf(r)
  BY <1>1, <1>2
<1>4. ASSUME NEW t \in Token
      PROVE  t = Newline \/ \E r \in Revision : t = HeadOf(r) \/ t = RestOf(r)
  BY DEF Token
<1>5. ASSUME NEW t \in Token
      PROVE  /\ t.part = "head" => t.rev \in Revision /\ t = HeadOf(t.rev)
             /\ t.part = "rest" => t.rev \in Revision /\ t = RestOf(t.rev)
             /\ t.part \in {"head", "rest", "newline"}
             /\ t # Newline => t.part \in {"head", "rest"} /\ t.rev \in Revision
  <2>1. CASE t = Newline
    BY <1>1, <2>1
  <2>2. CASE \E r \in Revision : t = HeadOf(r)
    BY <1>2, <2>2
  <2>3. CASE \E r \in Revision : t = RestOf(r)
    BY <1>2, <2>3
  <2> QED
    BY <1>4, <2>1, <2>2, <2>3
<1> QED
  BY <1>1, <1>2, <1>3, <1>5

\* The line of a revision.
LEMMA LineOf ==
  ASSUME NEW r \in Revision
  PROVE  /\ Line(r) \in Seq(Token)
         /\ Len(Line(r)) = 3
         /\ Line(r)[1] = HeadOf(r) /\ Line(r)[2] = RestOf(r) /\ Line(r)[3] = Newline
<1>1. HeadOf(r) \in Token /\ RestOf(r) \in Token /\ Newline \in Token
  BY TokenKinds
<1> QED
  BY <1>1 DEF Line

-----------------------------------------------------------------------------
(* The revisions in a file.                                                 *)

\* What one more token adds to the revisions read so far.
Reading(read, token) == IF token.part = "rest" THEN Append(read, token.rev) ELSE read

\* It is a sequence of revisions again.
LEMMA ReadingType ==
  ASSUME NEW read \in Seq(Revision), NEW token \in Token
  PROVE  Reading(read, token) \in Seq(Revision)
BY TokenKinds DEF Reading

\* The recursion that RevisionsInFirst is defined by has a solution, one step per token.
LEMMA RevisionsTake ==
  ASSUME NEW tokens \in Seq(Token), NEW n \in 0..Len(tokens)
  PROVE  \E f \in [0..n -> Seq(Revision)] :
           /\ f[0] = <<>>
           /\ \A m \in 1..n : f[m] = Reading(f[m - 1], tokens[m])
           /\ RevisionsInFirst(tokens, n) = f[n]
<1> DEFINE next == [p \in (1..n) \X Seq(Revision) |-> Reading(p[2], tokens[p[1]])]
           Body(f) == [m \in 0..n |->
                         IF m = 0 THEN <<>>
                           ELSE IF tokens[m].part = "rest" THEN Append(f[m - 1], tokens[m].rev)
                           ELSE f[m - 1]]
           read == CHOOSE f : f = Body(f)
<1>1. next \in [(1..n) \X Seq(Revision) -> Seq(Revision)]
  <2>1. ASSUME NEW p \in (1..n) \X Seq(Revision)
        PROVE  Reading(p[2], tokens[p[1]]) \in Seq(Revision)
    <3>1. tokens[p[1]] \in Token /\ p[2] \in Seq(Revision)
      OBVIOUS
    <3> QED
      BY <3>1, ReadingType
  <2> QED
    BY <2>1
<1>2. <<>> \in Seq(Revision)
  OBVIOUS
<1>3. n \in Nat
  OBVIOUS
<1> HIDE DEF Body, read
<1>4. PICK g \in [0..n -> Seq(Revision)] : Steps(g, n, <<>>, next)
  <2> DEFINE A == Seq(Revision)
  <2> HIDE DEF next, A
  <2>1. next \in [(1..n) \X A -> A] /\ <<>> \in A
    BY <1>1, <1>2 DEF A
  <2>2. \E f \in [0..n -> A] : Steps(f, n, <<>>, next)
    BY <1>3, <2>1, StepsExist
  <2> QED
    BY <2>2 DEF A
<1>5. ASSUME NEW m \in 1..n
      PROVE  g[m] = Reading(g[m - 1], tokens[m])
  <2>1. g[m - 1] \in Seq(Revision) /\ <<m, g[m - 1]>> \in (1..n) \X Seq(Revision)
    OBVIOUS
  <2>2. g[m] = next[<<m, g[m - 1]>>]
    BY <1>4 DEF Steps
  <2> QED
    BY <2>1, <2>2
<1>6. g[0] = <<>>
  BY <1>4 DEF Steps
<1>7. ASSUME NEW f
      PROVE  Body(f)[0] = <<>> /\ \A m \in 1..n : Body(f)[m] = Reading(f[m - 1], tokens[m])
  <2>1. Body(f)[0] = <<>>
    BY <1>3 DEF Body
  <2>2. ASSUME NEW m \in 1..n
        PROVE  Body(f)[m] = Reading(f[m - 1], tokens[m])
    <3>1. m \in 0..n /\ m # 0
      OBVIOUS
    <3> QED
      BY <3>1 DEF Body, Reading
  <2> QED
    BY <2>1, <2>2
<1>8. g = Body(g)
  <2>1. Body(g) = [m \in 0..n |-> Body(g)[m]]
    BY DEF Body
  <2>2. g = [m \in 0..n |-> g[m]]
    OBVIOUS
  <2>3. ASSUME NEW m \in 0..n
        PROVE  Body(g)[m] = g[m]
    <3>1. CASE m = 0
      BY <1>6, <1>7, <3>1
    <3>2. CASE m \in 1..n
      BY <1>5, <1>7, <3>2
    <3> QED
      BY <3>1, <3>2
  <2> QED
    BY <2>1, <2>2, <2>3
<1>9. read = Body(read)
  BY <1>8 DEF read
<1>10. read[0] = <<>> /\ \A m \in 1..n : read[m] = Reading(read[m - 1], tokens[m])
  BY <1>7, <1>9
<1>11. 0..n \subseteq {m \in 0..n : read[m] \in Seq(Revision)}
  <2> DEFINE S == {m \in 0..n : read[m] \in Seq(Revision)}
  <2>1. 0 \in S
    <3>1. read[0] = <<>> /\ 0 \in 0..n
      BY <1>3, <1>10
    <3> QED
      BY <1>2, <3>1
  <2>2. ASSUME NEW m \in 1..n, m - 1 \in S
        PROVE  m \in S
    <3>1. read[m - 1] \in Seq(Revision) /\ tokens[m] \in Token
      BY <2>2
    <3>2. Reading(read[m - 1], tokens[m]) \in Seq(Revision)
      BY <3>1, ReadingType
    <3>3. read[m] \in Seq(Revision)
      BY <1>10, <3>2
    <3> QED
      BY <3>3
  <2> HIDE DEF S
  <2>3. 0..n \subseteq S
    BY <1>3, <2>1, <2>2, InductionUpTo
  <2> QED
    BY <2>3 DEF S
<1>12. read \in [0..n -> Seq(Revision)]
  <2>1. Body(read) = [m \in 0..n |-> Body(read)[m]]
    BY DEF Body
  <2>2. read = [m \in 0..n |-> read[m]]
    BY <1>9, <2>1
  <2> QED
    BY <1>11, <2>2
<1>13. RevisionsInFirst(tokens, n) = read[n]
  BY DEF RevisionsInFirst, read, Body
<1> QED
  BY <1>10, <1>12, <1>13

\* The revisions of the first n tokens are those of the first n - 1 and of the nth.
LEMMA RevisionsStep ==
  ASSUME NEW tokens \in Seq(Token), NEW n \in 0..Len(tokens)
  PROVE  /\ RevisionsInFirst(tokens, n) \in Seq(Revision)
         /\ n = 0 => RevisionsInFirst(tokens, n) = <<>>
         /\ n # 0 => RevisionsInFirst(tokens, n)
                       = Reading(RevisionsInFirst(tokens, n - 1), tokens[n])
<1>1. PICK f \in [0..n -> Seq(Revision)] :
        /\ f[0] = <<>>
        /\ \A m \in 1..n : f[m] = Reading(f[m - 1], tokens[m])
        /\ RevisionsInFirst(tokens, n) = f[n]
  BY RevisionsTake
<1>2. n \in Nat /\ n \in 0..n
  OBVIOUS
<1>3. ASSUME n # 0
      PROVE  RevisionsInFirst(tokens, n) = Reading(RevisionsInFirst(tokens, n - 1), tokens[n])
  <2>1. n \in 1..n /\ n - 1 \in 0..Len(tokens) /\ n - 1 \in Nat
    BY <1>3
  <2>2. PICK g \in [0..(n - 1) -> Seq(Revision)] :
          /\ g[0] = <<>>
          /\ \A m \in 1..(n - 1) : g[m] = Reading(g[m - 1], tokens[m])
          /\ RevisionsInFirst(tokens, n - 1) = g[n - 1]
    BY <2>1, RevisionsTake
  <2> DEFINE S == {m \in 0..(n - 1) : f[m] = g[m]}
  <2>3. 0 \in S
    BY <1>1, <2>1, <2>2
  <2>4. ASSUME NEW m \in 1..(n - 1), m - 1 \in S
        PROVE  m \in S
    <3>1. f[m - 1] = g[m - 1] /\ m \in 1..n /\ m \in 0..(n - 1)
      BY <2>1, <2>4
    <3>2. f[m] = Reading(f[m - 1], tokens[m]) /\ g[m] = Reading(g[m - 1], tokens[m])
      BY <1>1, <2>2, <3>1
    <3> QED
      BY <3>1, <3>2
  <2> HIDE DEF S
  <2>5. n - 1 \in S
    <3>1. 0..(n - 1) \subseteq S
      BY <2>1, <2>3, <2>4, InductionUpTo
    <3> QED
      BY <2>1, <3>1
  <2> QED
    BY <1>1, <2>1, <2>2, <2>5 DEF S
<1> QED
  BY <1>1, <1>2, <1>3

\* They depend on these tokens only.
LEMMA RevisionsAgree ==
  ASSUME NEW s \in Seq(Token), NEW t \in Seq(Token), NEW n \in Nat,
         n <= Len(s), n <= Len(t), \A i \in 1..n : s[i] = t[i]
  PROVE  RevisionsInFirst(s, n) = RevisionsInFirst(t, n)
<1> DEFINE S == {m \in 0..n : RevisionsInFirst(s, m) = RevisionsInFirst(t, m)}
<1>1. 0 \in S
  <2>1. 0 \in 0..Len(s) /\ 0 \in 0..Len(t) /\ 0 \in 0..n
    OBVIOUS
  <2>2. RevisionsInFirst(s, 0) = <<>> /\ RevisionsInFirst(t, 0) = <<>>
    BY <2>1, RevisionsStep
  <2> QED
    BY <2>1, <2>2
<1>2. ASSUME NEW m \in 1..n, m - 1 \in S
      PROVE  m \in S
  <2>1. m \in 0..Len(s) /\ m \in 0..Len(t) /\ m # 0 /\ m \in 0..n
    OBVIOUS
  <2>2. /\ RevisionsInFirst(s, m) = Reading(RevisionsInFirst(s, m - 1), s[m])
        /\ RevisionsInFirst(t, m) = Reading(RevisionsInFirst(t, m - 1), t[m])
    BY <2>1, RevisionsStep
  <2>3. RevisionsInFirst(s, m - 1) = RevisionsInFirst(t, m - 1)
    BY <1>2
  <2> QED
    BY <2>1, <2>2, <2>3
<1> HIDE DEF S
<1>3. 0..n \subseteq S
  BY <1>1, <1>2, InductionUpTo
<1>4. n \in S
  BY <1>3
<1> QED
  BY <1>4 DEF S

\* The revisions of a beginning of the file.
LEMMA RevisionsOfPrefix ==
  ASSUME NEW tokens \in Seq(Token), NEW n \in 0..Len(tokens)
  PROVE  /\ RevisionsIn(Prefix(tokens, n)) = RevisionsInFirst(tokens, n)
         /\ RevisionsIn(tokens) \in Seq(Revision)
         /\ RevisionsIn(Prefix(tokens, n)) \in Seq(Revision)
<1> DEFINE first == Prefix(tokens, n)
<1> HIDE DEF first
<1>1. /\ first \in Seq(Token) /\ Len(first) = n
      /\ \A i \in 1..n : first[i] = tokens[i]
  BY PrefixSuffix DEF first
<1>2. n \in Nat /\ n <= Len(tokens) /\ n <= Len(first)
  BY <1>1
<1>3. RevisionsInFirst(first, n) = RevisionsInFirst(tokens, n)
  BY <1>1, <1>2, RevisionsAgree
<1>4. RevisionsIn(first) = RevisionsInFirst(tokens, n)
  BY <1>1, <1>3 DEF RevisionsIn
<1>5. RevisionsInFirst(tokens, n) \in Seq(Revision)
  BY RevisionsStep
<1>6. RevisionsIn(tokens) \in Seq(Revision)
  <2>1. Len(tokens) \in 0..Len(tokens)
    OBVIOUS
  <2> QED
    BY <2>1, RevisionsStep DEF RevisionsIn
<1> QED
  BY <1>4, <1>5, <1>6 DEF first

\* What a token adds, it adds at the end.
LEMMA ReadingConcat ==
  ASSUME NEW a \in Seq(Revision), NEW z \in Seq(Revision), NEW token \in Token
  PROVE  Reading(a \o z, token) = a \o Reading(z, token)
<1>1. CASE token.part = "rest"
  <2>1. token.rev \in Revision
    BY <1>1, TokenKinds
  <2> DEFINE e == <<token.rev>>
  <2>2. e \in Seq(Revision) /\ a \o z \in Seq(Revision)
    BY <2>1
  <2>3. Append(a \o z, token.rev) = (a \o z) \o e /\ Append(z, token.rev) = z \o e
    BY <2>1, <2>2, AppendIsConcat
  <2> HIDE DEF e
  <2>4. (a \o z) \o e = a \o (z \o e)
    BY <2>2, ConcatAssociative
  <2> QED
    BY <1>1, <2>3, <2>4 DEF Reading
<1>2. CASE token.part # "rest"
  BY <1>2 DEF Reading
<1> QED
  BY <1>1, <1>2

\* The revisions of a concatenation are those of the one and then those of the other.
LEMMA RevisionsConcat ==
  ASSUME NEW s \in Seq(Token), NEW t \in Seq(Token)
  PROVE  RevisionsIn(s \o t) = RevisionsIn(s) \o RevisionsIn(t)
<1> DEFINE all == s \o t
           l == Len(s)
           n == Len(t)
<1>1. /\ all \in Seq(Token) /\ Len(all) = l + n /\ l \in Nat /\ n \in Nat
      /\ \A i \in 1..(l + n) : all[i] = IF i <= l THEN s[i] ELSE t[i - l]
  BY ConcatProperties
<1> HIDE DEF all
<1> DEFINE S == {m \in 0..n : RevisionsInFirst(all, l + m)
                                = RevisionsInFirst(s, l) \o RevisionsInFirst(t, m)}
<1>2. RevisionsInFirst(s, l) \in Seq(Revision)
  <2>1. l \in 0..Len(s)
    BY <1>1
  <2> QED
    BY <2>1, RevisionsStep
<1>3. 0 \in S
  <2>1. 0 \in 0..n /\ l + 0 = l /\ l <= Len(all) /\ l <= Len(s)
    BY <1>1
  <2>2. RevisionsInFirst(t, 0) = <<>>
    BY <2>1, RevisionsStep
  <2>3. \A i \in 1..l : all[i] = s[i]
    BY <1>1
  <2>4. RevisionsInFirst(all, l) = RevisionsInFirst(s, l)
    BY <1>1, <2>1, <2>3, RevisionsAgree
  <2>5. RevisionsInFirst(s, l) \o <<>> = RevisionsInFirst(s, l)
    BY <1>2, ConcatEmptySeq
  <2> QED
    BY <2>1, <2>2, <2>4, <2>5
<1>4. ASSUME NEW m \in 1..n, m - 1 \in S
      PROVE  m \in S
  <2>1. /\ m \in 0..n /\ m # 0 /\ m - 1 \in 0..n
        /\ l + m \in 0..Len(all) /\ l + m # 0 /\ (l + m) - 1 = l + (m - 1)
    BY <1>1
  <2>2. all[l + m] = t[m] /\ t[m] \in Token
    <3>1. l + m \in 1..(l + n) /\ ~ (l + m <= l) /\ (l + m) - l = m
      BY <1>1
    <3> QED
      BY <1>1, <3>1
  <2>3. RevisionsInFirst(all, l + m) = Reading(RevisionsInFirst(all, l + (m - 1)), t[m])
    <3>1. RevisionsInFirst(all, l + m) = Reading(RevisionsInFirst(all, (l + m) - 1), all[l + m])
      BY <1>1, <2>1, RevisionsStep
    <3> QED
      BY <2>1, <2>2, <3>1
  <2>4. /\ RevisionsInFirst(t, m) = Reading(RevisionsInFirst(t, m - 1), t[m])
        /\ RevisionsInFirst(t, m - 1) \in Seq(Revision)
    BY <2>1, RevisionsStep
  <2>5. RevisionsInFirst(all, l + (m - 1)) = RevisionsInFirst(s, l) \o RevisionsInFirst(t, m - 1)
    BY <1>4
  <2>6. RevisionsInFirst(all, l + m) = RevisionsInFirst(s, l) \o RevisionsInFirst(t, m)
    BY <1>2, <2>2, <2>3, <2>4, <2>5, ReadingConcat
  <2> QED
    BY <2>1, <2>6
<1> HIDE DEF S
<1>5. n \in S
  <2>1. 0..n \subseteq S
    BY <1>1, <1>3, <1>4, InductionUpTo
  <2> QED
    BY <1>1, <2>1
<1>6. RevisionsInFirst(all, l + n) = RevisionsInFirst(s, l) \o RevisionsInFirst(t, n)
  BY <1>5 DEF S
<1> QED
  BY <1>1, <1>6 DEF RevisionsIn, all

\* No tokens, no revisions.
LEMMA RevisionsOfNothing == RevisionsIn(<<>>) = <<>>
<1>1. <<>> \in Seq(Token) /\ Len(<<>>) = 0 /\ 0 \in 0..Len(<<>>)
  OBVIOUS
<1>2. RevisionsInFirst(<<>>, 0) = <<>>
  BY <1>1, RevisionsStep
<1> QED
  BY <1>1, <1>2 DEF RevisionsIn

\* One more token.
LEMMA RevisionsAppend ==
  ASSUME NEW tokens \in Seq(Token), NEW token \in Token
  PROVE  RevisionsIn(Append(tokens, token)) = Reading(RevisionsIn(tokens), token)
<1> DEFINE n == Len(tokens)
           longer == Append(tokens, token)
<1>1. /\ longer \in Seq(Token) /\ Len(longer) = n + 1 /\ n \in Nat
      /\ longer[n + 1] = token
      /\ \A i \in 1..n : longer[i] = tokens[i]
  OBVIOUS
<1> HIDE DEF longer
<1>2. n + 1 \in 0..Len(longer) /\ n + 1 # 0 /\ (n + 1) - 1 = n /\ n <= Len(longer)
  BY <1>1
<1>3. RevisionsInFirst(longer, n + 1) = Reading(RevisionsInFirst(longer, n), token)
  <2>1. RevisionsInFirst(longer, n + 1)
          = Reading(RevisionsInFirst(longer, (n + 1) - 1), longer[n + 1])
    BY <1>1, <1>2, RevisionsStep
  <2> QED
    BY <1>1, <1>2, <2>1
<1>4. RevisionsInFirst(longer, n) = RevisionsInFirst(tokens, n)
  BY <1>1, <1>2, RevisionsAgree
<1> QED
  BY <1>1, <1>3, <1>4 DEF RevisionsIn, longer

\* The line of a revision holds it, and so does its beginning as soon as the JSON text
\* is complete.
LEMMA RevisionsOfLine ==
  ASSUME NEW r \in Revision, NEW n \in 0..3
  PROVE  /\ n < 2 => RevisionsIn(Prefix(Line(r), n)) = <<>>
         /\ n >= 2 => RevisionsIn(Prefix(Line(r), n)) = <<r>>
         /\ RevisionsIn(Line(r)) = <<r>>
<1> DEFINE line == Line(r)
<1>1. /\ line \in Seq(Token) /\ Len(line) = 3
      /\ line[1] = HeadOf(r) /\ line[2] = RestOf(r) /\ line[3] = Newline
  BY LineOf
<1> HIDE DEF line
<1>2. /\ line[1].part = "head" /\ line[2].part = "rest" /\ line[2].rev = r
      /\ line[3].part = "newline"
  BY <1>1, TokenKinds
<1>3. 0 \in 0..Len(line) /\ 1 \in 0..Len(line) /\ 2 \in 0..Len(line) /\ 3 \in 0..Len(line)
  BY <1>1
<1>4. RevisionsInFirst(line, 0) = <<>>
  BY <1>1, <1>3, RevisionsStep
<1>5. RevisionsInFirst(line, 1) = <<>>
  <2>1. RevisionsInFirst(line, 1) = Reading(RevisionsInFirst(line, 1 - 1), line[1])
    BY <1>1, <1>3, RevisionsStep
  <2> QED
    BY <1>2, <1>4, <2>1 DEF Reading
<1>6. RevisionsInFirst(line, 2) = <<r>>
  <2>1. RevisionsInFirst(line, 2) = Reading(RevisionsInFirst(line, 2 - 1), line[2])
    BY <1>1, <1>3, RevisionsStep
  <2>2. RevisionsInFirst(line, 2) = Append(<<>>, r)
    <3>1. 2 - 1 = 1
      OBVIOUS
    <3>2. Reading(<<>>, line[2]) = Append(<<>>, r)
      BY <1>2 DEF Reading
    <3> QED
      BY <1>5, <2>1, <3>1, <3>2
  <2>3. Append(<<>>, r) = <<r>>
    <3>1. <<>> \in Seq(Revision) /\ <<r>> \in Seq(Revision)
      OBVIOUS
    <3>2. Append(<<>>, r) = <<>> \o <<r>>
      BY <3>1, AppendIsConcat
    <3> QED
      BY <3>1, <3>2, ConcatEmptySeq
  <2> QED
    BY <2>2, <2>3
<1>7. RevisionsInFirst(line, 3) = <<r>>
  <2>1. RevisionsInFirst(line, 3) = Reading(RevisionsInFirst(line, 3 - 1), line[3])
    BY <1>1, <1>3, RevisionsStep
  <2> QED
    BY <1>2, <1>6, <2>1 DEF Reading
<1>8. RevisionsIn(Prefix(line, n)) = RevisionsInFirst(line, n)
  BY <1>1, RevisionsOfPrefix
<1>9. RevisionsIn(line) = <<r>>
  BY <1>1, <1>7 DEF RevisionsIn
<1>10. n = 0 \/ n = 1 \/ n = 2 \/ n = 3
  OBVIOUS
<1>11. n < 2 => n = 0 \/ n = 1
  OBVIOUS
<1>12. n >= 2 => n = 2 \/ n = 3
  OBVIOUS
<1> QED
  BY <1>4, <1>5, <1>6, <1>7, <1>8, <1>9, <1>11, <1>12 DEF line

\* Each complete JSON text is read, and nothing else is.
LEMMA RevisionsFound ==
  ASSUME NEW tokens \in Seq(Token)
  PROVE  /\ \A i \in 1..Len(tokens) :
              tokens[i].part = "rest" => Holds(RevisionsIn(tokens), tokens[i].rev)
         /\ \A j \in 1..Len(RevisionsIn(tokens)) :
              \E i \in 1..Len(tokens) :
                tokens[i].part = "rest" /\ RevisionsIn(tokens)[j] = tokens[i].rev
<1> DEFINE R(m) == RevisionsInFirst(tokens, m)
           Found(m) ==
             /\ \A i \in 1..m : tokens[i].part = "rest" =>
                  \E j \in 1..Len(R(m)) : R(m)[j] = tokens[i].rev
             /\ \A j \in 1..Len(R(m)) :
                  \E i \in 1..m : tokens[i].part = "rest" /\ R(m)[j] = tokens[i].rev
           n == Len(tokens)
           S == {m \in 0..n : Found(m)}
<1>1. n \in Nat
  OBVIOUS
<1>2. 0 \in S
  <2>1. 0 \in 0..Len(tokens)
    BY <1>1
  <2>2. R(0) = <<>>
    BY <2>1, RevisionsStep
  <2>3. Found(0)
    BY <2>2
  <2> HIDE DEF Found
  <2> QED
    BY <2>1, <2>3
<1>3. ASSUME NEW m \in 1..n, m - 1 \in S
      PROVE  m \in S
  <2>1. m \in 0..Len(tokens) /\ m # 0 /\ m - 1 \in 0..Len(tokens) /\ tokens[m] \in Token
    OBVIOUS
  <2> DEFINE old == R(m - 1)
             new == R(m)
             token == tokens[m]
  <2>2. new = Reading(old, token) /\ old \in Seq(Revision)
    BY <2>1, RevisionsStep
  <2>3. /\ \A i \in 1..(m - 1) : tokens[i].part = "rest" =>
             \E j \in 1..Len(old) : old[j] = tokens[i].rev
        /\ \A j \in 1..Len(old) :
             \E i \in 1..(m - 1) : tokens[i].part = "rest" /\ old[j] = tokens[i].rev
    BY <1>3
  <2> HIDE DEF old, new, R
  <2>4. ASSUME /\ \A i \in 1..m : tokens[i].part = "rest" =>
                    \E j \in 1..Len(new) : new[j] = tokens[i].rev
               /\ \A j \in 1..Len(new) :
                    \E i \in 1..m : tokens[i].part = "rest" /\ new[j] = tokens[i].rev
        PROVE  m \in S
    BY <2>1, <2>4 DEF new
  <2>5. CASE token.part = "rest"
    <3> DEFINE r == token.rev
    <3>1. r \in Revision /\ new = Append(old, r)
      BY <2>1, <2>2, <2>5, TokenKinds DEF Reading
    <3> DEFINE c == Len(old)
    <3>2. /\ c \in Nat /\ Len(new) = c + 1 /\ new[c + 1] = r
          /\ \A j \in 1..c : new[j] = old[j]
      BY <2>2, <3>1, AppendProperties
    <3>3. ASSUME NEW i \in 1..m, tokens[i].part = "rest"
          PROVE  \E j \in 1..Len(new) : new[j] = tokens[i].rev
      <4>1. CASE i = m
        BY <3>2, <4>1
      <4>2. CASE i # m
        <5>1. i \in 1..(m - 1)
          BY <4>2
        <5>2. PICK j \in 1..c : old[j] = tokens[i].rev
          BY <2>3, <3>3, <5>1
        <5> QED
          BY <3>2, <5>2
      <4> QED
        BY <4>1, <4>2
    <3>4. ASSUME NEW j \in 1..Len(new)
          PROVE  \E i \in 1..m : tokens[i].part = "rest" /\ new[j] = tokens[i].rev
      <4>1. CASE j = c + 1
        BY <2>1, <2>5, <3>2, <4>1
      <4>2. CASE j # c + 1
        <5>1. j \in 1..c
          BY <3>2, <4>2
        <5>2. PICK i \in 1..(m - 1) : tokens[i].part = "rest" /\ old[j] = tokens[i].rev
          BY <2>3, <5>1
        <5>3. i \in 1..m
          OBVIOUS
        <5> QED
          BY <3>2, <5>1, <5>2, <5>3
      <4> QED
        BY <4>1, <4>2
    <3> QED
      BY <2>4, <3>3, <3>4
  <2>6. CASE token.part # "rest"
    <3>1. new = old
      BY <2>2, <2>6 DEF Reading
    <3>2. ASSUME NEW i \in 1..m, tokens[i].part = "rest"
          PROVE  \E j \in 1..Len(new) : new[j] = tokens[i].rev
      <4>1. i \in 1..(m - 1)
        BY <2>6, <3>2
      <4> QED
        BY <2>3, <3>1, <3>2, <4>1
    <3>3. ASSUME NEW j \in 1..Len(new)
          PROVE  \E i \in 1..m : tokens[i].part = "rest" /\ new[j] = tokens[i].rev
      <4>1. PICK i \in 1..(m - 1) : tokens[i].part = "rest" /\ old[j] = tokens[i].rev
        BY <2>3, <3>1
      <4>2. i \in 1..m
        OBVIOUS
      <4> QED
        BY <3>1, <4>1, <4>2
    <3> QED
      BY <2>4, <3>2, <3>3
  <2> QED
    BY <2>5, <2>6
<1> HIDE DEF S
<1>4. n \in S
  <2>1. 0..n \subseteq S
    BY <1>1, <1>2, <1>3, InductionUpTo
  <2> QED
    BY <1>1, <2>1
<1>5. Found(n)
  BY <1>4 DEF S
<1> QED
  BY <1>5 DEF RevisionsIn, Holds

-----------------------------------------------------------------------------
(* Files whose lines are in order.                                          *)

\* The line that a token of such a file belongs to.
LEMMA InOrderLine ==
  ASSUME NEW tokens \in Seq(Token), InOrder(tokens), NEW q \in Nat,
         3 * q + 1 <= Len(tokens)
  PROVE  \E r \in Revision :
           /\ r.seq = q + 1
           /\ tokens[3 * q + 1] = HeadOf(r)
           /\ 3 * q + 2 <= Len(tokens) => tokens[3 * q + 2] = RestOf(r)
           /\ 3 * q + 3 <= Len(tokens) => tokens[3 * q + 3] = Newline
<1>1. q \in 0..Len(tokens)
  OBVIOUS
<1> QED
  BY <1>1 DEF InOrder

\* A beginning of such a file is one.
LEMMA InOrderPrefix ==
  ASSUME NEW tokens \in Seq(Token), InOrder(tokens), NEW n \in 0..Len(tokens)
  PROVE  InOrder(Prefix(tokens, n))
<1> DEFINE first == Prefix(tokens, n)
<1>1. /\ first \in Seq(Token) /\ Len(first) = n /\ n \in Nat /\ n <= Len(tokens)
      /\ Len(tokens) \in Nat
      /\ \A i \in 1..n : first[i] = tokens[i]
  <2>1. /\ first \in Seq(Token) /\ Len(first) = n
        /\ \A i \in 1..n : first[i] = tokens[i]
    BY PrefixSuffix
  <2>2. n \in Nat /\ n <= Len(tokens) /\ Len(tokens) \in Nat
    OBVIOUS
  <2> QED
    BY <2>1, <2>2
<1> HIDE DEF first
<1>2. ASSUME NEW q \in 0..Len(first), 3 * q + 1 <= Len(first)
      PROVE  \E r \in Revision :
               /\ r.seq = q + 1
               /\ first[3 * q + 1] = HeadOf(r)
               /\ 3 * q + 2 <= Len(first) => first[3 * q + 2] = RestOf(r)
               /\ 3 * q + 3 <= Len(first) => first[3 * q + 3] = Newline
  <2>1. q \in Nat /\ 3 * q + 1 <= Len(tokens)
    BY <1>1, <1>2
  <2>2. PICK r \in Revision :
           /\ r.seq = q + 1
           /\ tokens[3 * q + 1] = HeadOf(r)
           /\ 3 * q + 2 <= Len(tokens) => tokens[3 * q + 2] = RestOf(r)
           /\ 3 * q + 3 <= Len(tokens) => tokens[3 * q + 3] = Newline
    BY <2>1, InOrderLine
  <2>3. first[3 * q + 1] = HeadOf(r)
    <3>1. 3 * q + 1 \in 1..n
      BY <1>1, <1>2, <2>1
    <3> QED
      BY <1>1, <2>2, <3>1
  <2>4. ASSUME 3 * q + 2 <= Len(first)
        PROVE  first[3 * q + 2] = RestOf(r)
    <3>1. 3 * q + 2 \in 1..n /\ 3 * q + 2 <= Len(tokens)
      BY <1>1, <2>1, <2>4
    <3> QED
      BY <1>1, <2>2, <3>1
  <2>5. ASSUME 3 * q + 3 <= Len(first)
        PROVE  first[3 * q + 3] = Newline
    <3>1. 3 * q + 3 \in 1..n /\ 3 * q + 3 <= Len(tokens)
      BY <1>1, <2>1, <2>5
    <3> QED
      BY <1>1, <2>2, <3>1
  <2> QED
    BY <2>2, <2>3, <2>4, <2>5
<1>3. InOrder(first)
  BY <1>2 DEF InOrder
<1> QED
  BY <1>3 DEF first

\* The next revision's line, or the beginning of it, can follow.
LEMMA InOrderExtended ==
  ASSUME NEW tokens \in Seq(Token), InOrder(tokens), NEW q \in Nat, Len(tokens) = 3 * q,
         NEW r \in Revision, r.seq = q + 1, NEW n \in 0..3
  PROVE  /\ InOrder(tokens \o Prefix(Line(r), n))
         /\ n = 3 => WholeLines(tokens \o Prefix(Line(r), n))
<1> DEFINE part == Prefix(Line(r), n)
           all == tokens \o part
<1>1. /\ part \in Seq(Token) /\ Len(part) = n /\ n \in Nat
      /\ \A i \in 1..n : part[i] = Line(r)[i]
  <2> DEFINE line == Line(r)
  <2>1. line \in Seq(Token) /\ Len(line) = 3
    BY LineOf
  <2> HIDE DEF line
  <2>2. n \in 0..Len(line) /\ n \in Nat
    BY <2>1
  <2>3. /\ Prefix(line, n) \in Seq(Token) /\ Len(Prefix(line, n)) = n
        /\ \A i \in 1..n : Prefix(line, n)[i] = line[i]
    BY <2>1, <2>2, PrefixSuffix
  <2> QED
    BY <2>2, <2>3 DEF line
<1> HIDE DEF part
<1>2. /\ all \in Seq(Token) /\ Len(all) = 3 * q + n
      /\ \A i \in 1..(3 * q + n) : all[i] = IF i <= 3 * q THEN tokens[i] ELSE part[i - 3 * q]
  <2>1. /\ all \in Seq(Token) /\ Len(all) = Len(tokens) + Len(part)
        /\ \A i \in 1..(Len(tokens) + Len(part)) :
             all[i] = IF i <= Len(tokens) THEN tokens[i] ELSE part[i - Len(tokens)]
    BY <1>1, ConcatProperties
  <2> HIDE DEF all
  <2> QED
    BY <1>1, <2>1
<1> HIDE DEF all
<1>3. ASSUME NEW x \in 1..n
      PROVE  all[3 * q + x] = Line(r)[x]
  <2>1. 3 * q + x \in 1..(3 * q + n) /\ ~ (3 * q + x <= 3 * q) /\ (3 * q + x) - 3 * q = x
    BY <1>1
  <2> QED
    BY <1>1, <1>2, <2>1
<1>4. \A i \in 1..(3 * q) : all[i] = tokens[i]
  BY <1>1, <1>2
<1>5. ASSUME NEW p \in 0..Len(all), 3 * p + 1 <= Len(all)
      PROVE  \E s \in Revision :
               /\ s.seq = p + 1
               /\ all[3 * p + 1] = HeadOf(s)
               /\ 3 * p + 2 <= Len(all) => all[3 * p + 2] = RestOf(s)
               /\ 3 * p + 3 <= Len(all) => all[3 * p + 3] = Newline
  <2>1. p \in Nat /\ p <= q
    BY <1>1, <1>2, <1>5
  <2>2. CASE p < q
    <3>1. 3 * p + 1 \in 1..(3 * q) /\ 3 * p + 2 \in 1..(3 * q) /\ 3 * p + 3 \in 1..(3 * q)
      BY <2>1, <2>2
    <3>2. 3 * p + 1 <= Len(tokens) /\ 3 * p + 2 <= Len(tokens) /\ 3 * p + 3 <= Len(tokens)
      BY <3>1
    <3>3. PICK s \in Revision :
            /\ s.seq = p + 1
            /\ tokens[3 * p + 1] = HeadOf(s)
            /\ 3 * p + 2 <= Len(tokens) => tokens[3 * p + 2] = RestOf(s)
            /\ 3 * p + 3 <= Len(tokens) => tokens[3 * p + 3] = Newline
      BY <2>1, <3>2, InOrderLine
    <3> QED
      BY <1>4, <3>1, <3>2, <3>3
  <2>3. CASE p = q
    <3>1. Line(r)[1] = HeadOf(r) /\ Line(r)[2] = RestOf(r) /\ Line(r)[3] = Newline
      BY LineOf
    <3>2. 3 * q + 1 <= 3 * q + n
      BY <1>2, <1>5, <2>3
    <3>3. 1 \in 1..n
      BY <1>1, <3>2
    <3>4. 3 * q + 2 <= 3 * q + n => 2 \in 1..n
      BY <1>1
    <3>5. 3 * q + 3 <= 3 * q + n => 3 \in 1..n
      BY <1>1
    <3>6. all[3 * q + 1] = HeadOf(r)
      BY <1>3, <3>1, <3>3
    <3>7. 3 * q + 2 <= Len(all) => all[3 * q + 2] = RestOf(r)
      BY <1>2, <1>3, <3>1, <3>4
    <3>8. 3 * q + 3 <= Len(all) => all[3 * q + 3] = Newline
      BY <1>2, <1>3, <3>1, <3>5
    <3> QED
      BY <2>3, <3>6, <3>7, <3>8
  <2> QED
    BY <2>1, <2>2, <2>3
<1>6. InOrder(all)
  BY <1>5 DEF InOrder
<1>7. ASSUME n = 3
      PROVE  WholeLines(all)
  <2>1. q + 1 \in 0..Len(all) /\ Len(all) = 3 * (q + 1)
    BY <1>2, <1>7
  <2> QED
    BY <2>1 DEF WholeLines
<1> QED
  BY <1>6, <1>7 DEF all, part

\* The revision at each place has the seq of its place.
LEMMA SeqsInOrder ==
  ASSUME NEW tokens \in Seq(Token), InOrder(tokens), NEW n \in 0..Len(tokens)
  PROVE  \E c \in Nat :
           /\ Len(RevisionsInFirst(tokens, n)) = c
           /\ 3 * c <= n + 1 /\ n < 3 * c + 2
           /\ \A k \in 1..c : RevisionsInFirst(tokens, n)[k].seq = k
<1> DEFINE R(m) == RevisionsInFirst(tokens, m)
           Counts(m, c) ==
             /\ Len(R(m)) = c
             /\ 3 * c <= m + 1 /\ m < 3 * c + 2
             /\ \A k \in 1..c : R(m)[k].seq = k
           S == {m \in 0..n : \E c \in Nat : Counts(m, c)}
<1>1. n \in Nat
  OBVIOUS
<1>2. 0 \in S
  <2>1. 0 \in 0..Len(tokens) /\ 0 \in 0..n
    BY <1>1
  <2>2. R(0) = <<>>
    BY <2>1, RevisionsStep
  <2>3. Counts(0, 0)
    BY <2>2
  <2> HIDE DEF Counts
  <2> QED
    BY <2>1, <2>3
<1>3. ASSUME NEW m \in 1..n, m - 1 \in S
      PROVE  m \in S
  <2>1. m \in 0..Len(tokens) /\ m # 0 /\ m - 1 \in 0..Len(tokens) /\ m \in 0..n /\ m \in Nat
    OBVIOUS
  <2> DEFINE old == R(m - 1)
             new == R(m)
  <2>2. new = Reading(old, tokens[m]) /\ old \in Seq(Revision)
    BY <2>1, RevisionsStep
  <2>3. PICK c \in Nat : /\ Len(old) = c
                         /\ 3 * c <= m /\ m - 1 < 3 * c + 2
                         /\ \A k \in 1..c : old[k].seq = k
    <3>1. PICK c \in Nat : Counts(m - 1, c)
      BY <1>3
    <3>2. (m - 1) + 1 = m
      BY <2>1
    <3> QED
      BY <3>1, <3>2
  <2> HIDE DEF old, new, R
  <2>4. ASSUME NEW d \in Nat, Len(new) = d, 3 * d <= m + 1, m < 3 * d + 2,
               \A k \in 1..d : new[k].seq = k
        PROVE  m \in S
    BY <2>1, <2>4 DEF new
  <2>5. PICK q \in Nat, x \in 0..2 : m = 3 * q + x
    BY <2>1, InThrees
  <2>6. CASE x = 0
    <3>1. q - 1 \in Nat /\ m = 3 * (q - 1) + 3
      BY <2>1, <2>5, <2>6
    <3>2. 3 * (q - 1) + 3 <= Len(tokens) /\ 3 * (q - 1) + 1 <= Len(tokens)
      BY <2>1, <3>1
    <3>3. tokens[m] = Newline
      BY <3>1, <3>2, InOrderLine
    <3>4. new = old
      BY <2>2, <3>3, TokenKinds DEF Reading
    <3>5. 3 * c <= m + 1 /\ m < 3 * c + 2
      BY <2>1, <2>3, <2>5, <2>6
    <3> QED
      BY <2>3, <2>4, <3>4, <3>5
  <2>7. CASE x = 1
    <3>1. 3 * q + 1 <= Len(tokens)
      BY <2>1, <2>5, <2>7
    <3>2. \E r \in Revision : tokens[m] = HeadOf(r)
      BY <2>5, <2>7, <3>1, InOrderLine
    <3>3. new = old
      BY <2>2, <3>2, TokenKinds DEF Reading
    <3>4. 3 * c <= m + 1 /\ m < 3 * c + 2
      BY <2>1, <2>3, <2>5, <2>7
    <3> QED
      BY <2>3, <2>4, <3>3, <3>4
  <2>8. CASE x = 2
    <3>1. 3 * q + 2 <= Len(tokens) /\ 3 * q + 1 <= Len(tokens)
      BY <2>1, <2>5, <2>8
    <3>2. PICK r \in Revision : r.seq = q + 1 /\ tokens[m] = RestOf(r)
      BY <2>5, <2>8, <3>1, InOrderLine
    <3>3. new = Append(old, r)
      BY <2>2, <3>2, TokenKinds DEF Reading
    <3>4. /\ Len(new) = c + 1 /\ new[c + 1] = r
          /\ \A j \in 1..c : new[j] = old[j]
      BY <2>2, <2>3, <3>3, AppendProperties
    <3>5. c = q
      BY <2>1, <2>3, <2>5, <2>8
    <3>6. \A k \in 1..(c + 1) : new[k].seq = k
      <4>1. ASSUME NEW k \in 1..(c + 1)
            PROVE  new[k].seq = k
        <5>1. CASE k = c + 1
          BY <3>2, <3>4, <3>5, <5>1
        <5>2. CASE k # c + 1
          <6>1. k \in 1..c
            BY <5>2
          <6> QED
            BY <2>3, <3>4, <6>1
        <5> QED
          BY <5>1, <5>2
      <4> QED
        BY <4>1
    <3>7. c + 1 \in Nat /\ 3 * (c + 1) <= m + 1 /\ m < 3 * (c + 1) + 2
      BY <2>1, <2>5, <2>8, <3>5
    <3> QED
      BY <2>4, <3>4, <3>6, <3>7
  <2> QED
    BY <2>6, <2>7, <2>8
<1> HIDE DEF S
<1>4. n \in S
  <2>1. 0..n \subseteq S
    BY <1>1, <1>2, <1>3, InductionUpTo
  <2> QED
    BY <1>1, <2>1
<1> QED
  BY <1>4 DEF S

\* A file in order without a torn line can be read.
LEMMA ReadableInOrder ==
  ASSUME NEW tokens \in Seq(Token), InOrder(tokens), WholeLines(tokens)
  PROVE  Readable(tokens)
<1>1. PICK c \in 0..Len(tokens) : Len(tokens) = 3 * c
  BY DEF WholeLines
<1>2. ASSUME NEW i \in 1..Len(tokens)
      PROVE  \/ tokens[i] = Newline
             \/ /\ tokens[i].part = "head"
                /\ StartsLine(tokens, i)
                /\ i < Len(tokens)
                /\ tokens[i + 1] = RestOf(tokens[i].rev)
             \/ /\ tokens[i].part = "rest"
                /\ EndsLine(tokens, i)
                /\ i > 1
                /\ tokens[i - 1] = HeadOf(tokens[i].rev)
  <2>1. i \in Nat /\ i # 0 /\ i <= 3 * c /\ c \in Nat
    BY <1>1
  <2>2. PICK q \in Nat, x \in 0..2 : i = 3 * q + x
    BY <2>1, InThrees
  <2>3. CASE x = 0
    <3>1. q - 1 \in Nat /\ i = 3 * (q - 1) + 3
      BY <2>1, <2>2, <2>3
    <3>2. 3 * (q - 1) + 3 <= Len(tokens) /\ 3 * (q - 1) + 1 <= Len(tokens)
      BY <1>1, <2>1, <3>1
    <3>3. tokens[i] = Newline
      BY <3>1, <3>2, InOrderLine
    <3> QED
      BY <3>3
  <2>4. CASE x # 0
    <3>1. /\ 3 * q + 1 <= Len(tokens) /\ 3 * q + 2 <= Len(tokens) /\ 3 * q + 3 <= Len(tokens)
          /\ 3 * q + 1 \in Nat
      BY <1>1, <2>1, <2>2, <2>4
    <3>2. PICK r \in Revision :
             /\ tokens[3 * q + 1] = HeadOf(r)
             /\ tokens[3 * q + 2] = RestOf(r)
             /\ tokens[3 * q + 3] = Newline
      BY <3>1, InOrderLine
    <3>3. CASE x = 1
      <4>1. i = 3 * q + 1 /\ i < Len(tokens) /\ i + 1 = 3 * q + 2 /\ i - 1 = 3 * q
        BY <2>1, <2>2, <3>1, <3>3
      <4>2. tokens[i].part = "head" /\ tokens[i].rev = r
        BY <3>2, <4>1, TokenKinds
      <4>3. tokens[i + 1] = RestOf(tokens[i].rev)
        BY <3>2, <4>1, <4>2
      <4>4. StartsLine(tokens, i)
        <5>1. CASE q = 0
          BY <4>1, <5>1 DEF StartsLine
        <5>2. CASE q # 0
          <6>1. q - 1 \in Nat /\ 3 * (q - 1) + 3 = i - 1
            BY <4>1, <5>2
          <6>2. 3 * (q - 1) + 3 <= Len(tokens) /\ 3 * (q - 1) + 1 <= Len(tokens)
            BY <3>1, <4>1, <6>1
          <6>3. tokens[i - 1] = Newline
            BY <6>1, <6>2, InOrderLine
          <6> QED
            BY <6>3 DEF StartsLine
        <5> QED
          BY <5>1, <5>2
      <4> QED
        BY <4>1, <4>2, <4>3, <4>4
    <3>4. CASE x = 2
      <4>1. i = 3 * q + 2 /\ i > 1 /\ i + 1 = 3 * q + 3 /\ i - 1 = 3 * q + 1
        BY <2>1, <2>2, <3>1, <3>4
      <4>2. tokens[i].part = "rest" /\ tokens[i].rev = r
        BY <3>2, <4>1, TokenKinds
      <4>3. tokens[i - 1] = HeadOf(tokens[i].rev)
        BY <3>2, <4>1, <4>2
      <4>4. EndsLine(tokens, i)
        BY <3>2, <4>1 DEF EndsLine
      <4> QED
        BY <4>1, <4>2, <4>3, <4>4
    <3> QED
      BY <2>4, <3>3, <3>4
  <2> QED
    BY <2>3, <2>4
<1> QED
  BY <1>2 DEF Readable

\* The end of the last terminated line.
LEMMA LastNewlineIs ==
  ASSUME NEW tokens \in Seq(Token)
  PROVE  /\ LastNewline(tokens) \in 0..Len(tokens)
         /\ LastNewline(tokens) = 0 \/ tokens[LastNewline(tokens)] = Newline
         /\ \A i \in 1..Len(tokens) : tokens[i] = Newline => i <= LastNewline(tokens)
<1> DEFINE ends == {0} \cup {i \in 1..Len(tokens) : tokens[i] = Newline}
<1>1. ends \subseteq 0..Len(tokens) /\ ends # {} /\ Len(tokens) \in Nat
  OBVIOUS
<1>2. MaxOf(ends) \in ends /\ \A y \in ends : y <= MaxOf(ends)
  <2> HIDE DEF ends
  <2> QED
    BY <1>1, GreatestExists
<1>3. LastNewline(tokens) = MaxOf(ends)
  BY DEF LastNewline
<1> QED
  BY <1>1, <1>2, <1>3

\* The recovery adds a newline, cuts a torn line off, or leaves the file alone; what
\* ends in a newline stays.
LEMMA RecoveryKeepsLines ==
  ASSUME NEW tokens \in Seq(Token)
  PROVE  /\ RecoveredTail(tokens) \in Seq(Token)
         /\ \/ RecoveredTail(tokens) = tokens
            \/ RecoveredTail(tokens) = Append(tokens, Newline)
            \/ RecoveredTail(tokens) = Prefix(tokens, LastNewline(tokens))
         /\ \A i \in 1..Len(RecoveredTail(tokens)) :
              \/ RecoveredTail(tokens)[i] = Newline
              \/ i \in 1..Len(tokens) /\ RecoveredTail(tokens)[i] = tokens[i]
         /\ \A i \in 1..Len(tokens) :
              i < Len(tokens) /\ tokens[i + 1] = Newline =>
                /\ i < Len(RecoveredTail(tokens))
                /\ RecoveredTail(tokens)[i] = tokens[i]
                /\ RecoveredTail(tokens)[i + 1] = Newline
<1> DEFINE kept == RecoveredTail(tokens)
           last == LastNewline(tokens)
           n == Len(tokens)
<1>1. kept = tokens \/ kept = Append(tokens, Newline) \/ kept = Prefix(tokens, last)
  BY DEF RecoveredTail
<1>2. last \in 0..n /\ \A i \in 1..n : tokens[i] = Newline => i <= last
  BY LastNewlineIs
<1> HIDE DEF kept, last
<1>3. n \in Nat
  OBVIOUS
<1>4. CASE kept = tokens
  BY <1>4 DEF kept, last
<1>5. CASE kept = Append(tokens, Newline)
  <2>1. Newline \in Token
    BY TokenKinds
  <2>2. /\ kept \in Seq(Token) /\ Len(kept) = n + 1 /\ kept[n + 1] = Newline
        /\ \A i \in 1..n : kept[i] = tokens[i]
    BY <1>5, <2>1, AppendProperties
  <2>3. ASSUME NEW i \in 1..Len(kept)
        PROVE  kept[i] = Newline \/ (i \in 1..n /\ kept[i] = tokens[i])
    <3>1. CASE i = n + 1
      BY <2>2, <3>1
    <3>2. CASE i # n + 1
      <4>1. i \in 1..n
        BY <1>3, <2>2, <3>2
      <4> QED
        BY <2>2, <4>1
    <3> QED
      BY <3>1, <3>2
  <2>4. ASSUME NEW i \in 1..n, i < n, tokens[i + 1] = Newline
        PROVE  i < Len(kept) /\ kept[i] = tokens[i] /\ kept[i + 1] = Newline
    <3>1. i + 1 \in 1..n /\ i < n + 1
      BY <1>3, <2>4
    <3> QED
      BY <2>2, <2>4, <3>1
  <2> QED
    BY <1>1, <2>2, <2>3, <2>4 DEF kept, last
<1>6. CASE kept = Prefix(tokens, last)
  <2>1. /\ kept \in Seq(Token) /\ Len(kept) = last
        /\ \A i \in 1..last : kept[i] = tokens[i]
    BY <1>2, <1>6, PrefixSuffix
  <2>2. ASSUME NEW i \in 1..Len(kept)
        PROVE  i \in 1..n /\ kept[i] = tokens[i]
    BY <1>2, <1>3, <2>1
  <2>3. ASSUME NEW i \in 1..n, i < n, tokens[i + 1] = Newline
        PROVE  i < Len(kept) /\ kept[i] = tokens[i] /\ kept[i + 1] = Newline
    <3>1. i + 1 \in 1..n
      BY <1>3, <2>3
    <3>2. i + 1 <= last
      BY <1>2, <2>3, <3>1
    <3>3. i \in 1..last /\ i + 1 \in 1..last /\ i < last
      BY <1>2, <1>3, <3>2
    <3> QED
      BY <2>1, <2>3, <3>3
  <2> QED
    BY <1>1, <2>1, <2>2, <2>3 DEF kept, last
<1> QED
  BY <1>1, <1>4, <1>5, <1>6

\* The recovery of a file in order gives whole lines in order, and no revision is lost
\* or gained by it.
LEMMA RecoverInOrder ==
  ASSUME NEW tokens \in Seq(Token), InOrder(tokens)
  PROVE  /\ InOrder(RecoveredTail(tokens))
         /\ WholeLines(RecoveredTail(tokens))
         /\ RevisionsIn(RecoveredTail(tokens)) = RevisionsIn(tokens)
<1> DEFINE n == Len(tokens)
           last == LastNewline(tokens)
           kept == RecoveredTail(tokens)
<1>1. n \in Nat
  OBVIOUS
<1>2. PICK q \in Nat, x \in 0..2 : n = 3 * q + x
  BY <1>1, InThrees
<1>3. 3 * q \in Nat /\ 3 * q \in 0..n
  BY <1>1, <1>2
<1>4. ASSUME x # 0
      PROVE  \E r \in Revision :
               /\ r.seq = q + 1
               /\ tokens[3 * q + 1] = HeadOf(r)
               /\ x = 2 => tokens[3 * q + 2] = RestOf(r)
  <2>1. 3 * q + 1 <= n
    BY <1>2, <1>4
  <2>2. x = 2 => 3 * q + 2 <= n
    BY <1>2
  <2> QED
    BY <2>1, <2>2, InOrderLine
<1>5. last = 3 * q
  <2>1. /\ last \in 0..n
        /\ last = 0 \/ tokens[last] = Newline
        /\ \A i \in 1..n : tokens[i] = Newline => i <= last
    BY LastNewlineIs
  <2> HIDE DEF last
  <2>2. 3 * q <= last
    <3>1. CASE q = 0
      BY <2>1, <3>1
    <3>2. CASE q # 0
      <4>1. q - 1 \in Nat /\ 3 * (q - 1) + 3 = 3 * q
        BY <3>2
      <4>2. 3 * (q - 1) + 3 <= n /\ 3 * (q - 1) + 1 <= n /\ 3 * q \in 1..n
        BY <1>1, <1>2, <3>2, <4>1
      <4>3. tokens[3 * q] = Newline
        BY <4>1, <4>2, InOrderLine
      <4> QED
        BY <2>1, <4>2, <4>3
    <3> QED
      BY <3>1, <3>2
  <2>3. ASSUME last # 3 * q
        PROVE  FALSE
    <3>1. last = 3 * q + 1 \/ (last = 3 * q + 2 /\ x = 2)
      BY <1>2, <2>1, <2>2, <2>3
    <3>2. x # 0 /\ last # 0
      BY <1>2, <2>1, <2>2, <2>3
    <3>3. tokens[last] = Newline
      BY <2>1, <3>2
    <3> QED
      BY <1>4, <3>1, <3>2, <3>3, TokenKinds
  <2> QED
    BY <2>3
<1> DEFINE torn == Torn(tokens)
           first == Prefix(tokens, 3 * q)
<1>6. /\ torn \in Seq(Token) /\ Len(torn) = x
      /\ \A i \in 1..x : torn[i] = tokens[3 * q + i]
      /\ first \in Seq(Token) /\ Len(first) = 3 * q
      /\ \A i \in 1..(3 * q) : first[i] = tokens[i]
  <2>1. torn = Suffix(tokens, 3 * q)
    BY <1>5 DEF Torn
  <2>2. n - 3 * q = x
    BY <1>2, <1>3
  <2> HIDE DEF torn, first
  <2>3. /\ Suffix(tokens, 3 * q) \in Seq(Token)
        /\ Len(Suffix(tokens, 3 * q)) = n - 3 * q
        /\ \A i \in 1..(n - 3 * q) : Suffix(tokens, 3 * q)[i] = tokens[3 * q + i]
    BY <1>3, PrefixSuffix
  <2>4. /\ first \in Seq(Token) /\ Len(first) = 3 * q
        /\ \A i \in 1..(3 * q) : first[i] = tokens[i]
    BY <1>3, PrefixSuffix DEF first
  <2> QED
    BY <2>1, <2>2, <2>3, <2>4
<1>7. kept = IF torn = <<>> THEN tokens
               ELSE IF IsWhole(torn) THEN Append(tokens, Newline) ELSE first
  BY <1>5 DEF RecoveredTail
<1> HIDE DEF torn, first, kept, last
<1>8. CASE x = 0
  <2>1. torn = <<>>
    BY <1>6, <1>8
  <2>2. kept = tokens
    BY <1>7, <2>1
  <2>3. q \in 0..n /\ n = 3 * q
    BY <1>1, <1>2, <1>8
  <2> QED
    BY <2>2, <2>3 DEF WholeLines, kept
<1>9. CASE x = 1
  <2>1. Len(torn) = 1
    BY <1>6, <1>9
  <2>2. torn # <<>> /\ ~ IsWhole(torn)
    <3>1. torn # <<>>
      <4>1. Len(<<>>) = 0
        OBVIOUS
      <4>2. torn = <<>> => Len(torn) = 0
        BY <4>1, Zenon
      <4> QED
        BY <2>1, <4>2
    <3>2. Len(torn) # 2
      BY <2>1
    <3> QED
      BY <3>1, <3>2 DEF IsWhole
  <2>3. kept = first
    BY <1>7, <2>2
  <2>4. InOrder(first)
    BY <1>3, InOrderPrefix DEF first
  <2>5. q \in 0..Len(first) /\ Len(first) = 3 * q
    BY <1>3, <1>6
  <2>6. RevisionsIn(first) = RevisionsInFirst(tokens, 3 * q)
    BY <1>3, RevisionsOfPrefix DEF first
  <2>7. RevisionsInFirst(tokens, 3 * q + 1) = RevisionsInFirst(tokens, 3 * q)
    <3>1. 3 * q + 1 \in 0..n /\ 3 * q + 1 # 0 /\ (3 * q + 1) - 1 = 3 * q
      BY <1>1, <1>2, <1>9
    <3>2. RevisionsInFirst(tokens, 3 * q + 1)
            = Reading(RevisionsInFirst(tokens, (3 * q + 1) - 1), tokens[3 * q + 1])
      BY <3>1, RevisionsStep
    <3>3. tokens[3 * q + 1].part # "rest"
      BY <1>4, <1>9, TokenKinds
    <3> QED
      BY <3>1, <3>2, <3>3 DEF Reading
  <2>8. RevisionsIn(tokens) = RevisionsInFirst(tokens, 3 * q + 1)
    BY <1>2, <1>9 DEF RevisionsIn
  <2> QED
    BY <2>3, <2>4, <2>5, <2>6, <2>7, <2>8 DEF WholeLines, kept
<1>10. CASE x = 2
  <2>1. PICK r \in Revision :
          /\ r.seq = q + 1
          /\ tokens[3 * q + 1] = HeadOf(r)
          /\ tokens[3 * q + 2] = RestOf(r)
    BY <1>4, <1>10
  <2>2. Len(torn) = 2 /\ torn[1] = HeadOf(r) /\ torn[2] = RestOf(r)
    <3>1. 1 \in 1..x /\ 2 \in 1..x
      BY <1>10
    <3> QED
      BY <1>6, <1>10, <2>1, <3>1
  <2>3. torn # <<>> /\ IsWhole(torn)
    <3>1. torn # <<>>
      <4>1. Len(<<>>) = 0
        OBVIOUS
      <4>2. torn = <<>> => Len(torn) = 0
        BY <4>1, Zenon
      <4> QED
        BY <2>2, <4>2
    <3>2. torn[1].part = "head" /\ torn[1].rev = r
      BY <2>2, TokenKinds
    <3>3. torn[2] = RestOf(torn[1].rev)
      BY <2>2, <3>2
    <3> QED
      BY <2>2, <3>1, <3>2, <3>3 DEF IsWhole
  <2>4. kept = Append(tokens, Newline) /\ Newline \in Token
    BY <1>7, <2>3, TokenKinds
  <2> DEFINE all == first \o Prefix(Line(r), 3)
  <2>5. InOrder(all) /\ WholeLines(all)
    <3>1. InOrder(first)
      BY <1>3, InOrderPrefix DEF first
    <3> QED
      BY <1>6, <2>1, <3>1, InOrderExtended
  <2>6. all = kept
    <3> DEFINE line == Line(r)
    <3>1. /\ line \in Seq(Token) /\ Len(line) = 3
          /\ line[1] = HeadOf(r) /\ line[2] = RestOf(r) /\ line[3] = Newline
      BY LineOf
    <3> HIDE DEF line
    <3>2. Prefix(line, 3) = line
      BY <3>1, SubSeqFull DEF Prefix
    <3>3. /\ kept \in Seq(Token) /\ Len(kept) = n + 1 /\ kept[n + 1] = Newline
          /\ \A i \in 1..n : kept[i] = tokens[i]
      BY <2>4, AppendProperties
    <3> DEFINE whole == first \o line
    <3>4. /\ whole \in Seq(Token) /\ Len(whole) = 3 * q + 3
          /\ \A i \in 1..(3 * q + 3) :
               whole[i] = IF i <= 3 * q THEN first[i] ELSE line[i - 3 * q]
      <4>1. /\ whole \in Seq(Token) /\ Len(whole) = Len(first) + Len(line)
            /\ \A i \in 1..(Len(first) + Len(line)) :
                 whole[i] = IF i <= Len(first) THEN first[i] ELSE line[i - Len(first)]
        BY <1>6, <3>1, ConcatProperties
      <4> HIDE DEF whole
      <4> QED
        BY <1>6, <3>1, <4>1
    <3> HIDE DEF whole
    <3>5. Len(whole) = Len(kept)
      BY <1>2, <1>10, <3>3, <3>4
    <3>6. ASSUME NEW i \in 1..Len(whole)
          PROVE  whole[i] = kept[i]
      <4>1. CASE i <= 3 * q
        <5>1. i \in 1..(3 * q) /\ i \in 1..n /\ i \in 1..(3 * q + 3)
          BY <1>2, <1>3, <4>1
        <5> QED
          BY <1>6, <3>3, <3>4, <4>1, <5>1
      <4>2. CASE ~ (i <= 3 * q)
        <5>1. i = 3 * q + 1 \/ i = 3 * q + 2 \/ i = 3 * q + 3
          BY <1>3, <3>4, <4>2
        <5>2. whole[i] = line[i - 3 * q]
          BY <3>4, <4>2
        <5>3. CASE i = 3 * q + 1
          <6>1. i - 3 * q = 1 /\ i \in 1..n
            BY <1>2, <1>10, <5>3
          <6> QED
            BY <2>1, <3>1, <3>3, <5>2, <5>3, <6>1
        <5>4. CASE i = 3 * q + 2
          <6>1. i - 3 * q = 2 /\ i \in 1..n
            BY <1>2, <1>10, <5>4
          <6> QED
            BY <2>1, <3>1, <3>3, <5>2, <5>4, <6>1
        <5>5. CASE i = 3 * q + 3
          <6>1. i - 3 * q = 3 /\ i = n + 1
            BY <1>2, <1>10, <5>5
          <6> QED
            BY <3>1, <3>3, <5>2, <6>1
        <5> QED
          BY <5>1, <5>3, <5>4, <5>5
      <4> QED
        BY <4>1, <4>2
    <3>7. whole = kept
      BY <3>3, <3>4, <3>5, <3>6, SeqEqual
    <3> QED
      BY <3>2, <3>7 DEF whole, line
  <2>7. RevisionsIn(kept) = RevisionsIn(tokens)
    BY <2>4, RevisionsAppend, TokenKinds DEF Reading
  <2> QED
    BY <2>5, <2>6, <2>7 DEF kept
<1> QED
  BY <1>8, <1>9, <1>10

-----------------------------------------------------------------------------
(* The seqs in a file, and what stays on the disk.                          *)

\* The seqs of a concatenation.
LEMMA SeqsOfConcat ==
  ASSUME NEW s \in Seq(Token), NEW t \in Seq(Token), NEW n, SeqsUpTo(s, n), SeqsUpTo(t, n)
  PROVE  SeqsUpTo(s \o t, n)
<1> DEFINE all == s \o t
<1>1. /\ Len(all) = Len(s) + Len(t) /\ Len(s) \in Nat /\ Len(t) \in Nat
      /\ \A i \in 1..(Len(s) + Len(t)) : all[i] = IF i <= Len(s) THEN s[i] ELSE t[i - Len(s)]
  BY ConcatProperties
<1> HIDE DEF all
<1>2. ASSUME NEW i \in 1..Len(all), all[i] # Newline
      PROVE  all[i].rev.seq <= n
  <2>1. CASE i <= Len(s)
    <3>1. i \in 1..Len(s) /\ all[i] = s[i]
      BY <1>1, <2>1
    <3> QED
      BY <1>2, <3>1 DEF SeqsUpTo
  <2>2. CASE ~ (i <= Len(s))
    <3>1. i - Len(s) \in 1..Len(t) /\ all[i] = t[i - Len(s)]
      BY <1>1, <2>2
    <3> QED
      BY <1>2, <3>1 DEF SeqsUpTo
  <2> QED
    BY <2>1, <2>2
<1> QED
  BY <1>2 DEF SeqsUpTo, all

\* The seqs of a beginning and of the rest.
LEMMA SeqsOfParts ==
  ASSUME NEW s \in Seq(Token), NEW k \in 0..Len(s), NEW n, SeqsUpTo(s, n)
  PROVE  SeqsUpTo(Prefix(s, k), n) /\ SeqsUpTo(Suffix(s, k), n)
<1> DEFINE first == Prefix(s, k)
           rest == Suffix(s, k)
<1>1. /\ Len(first) = k /\ \A i \in 1..k : first[i] = s[i]
      /\ Len(rest) = Len(s) - k /\ \A i \in 1..(Len(s) - k) : rest[i] = s[k + i]
  BY PrefixSuffix
<1>2. k \in Nat /\ Len(s) \in Nat /\ k <= Len(s)
  OBVIOUS
<1> HIDE DEF first, rest
<1>3. ASSUME NEW i \in 1..Len(first), first[i] # Newline
      PROVE  first[i].rev.seq <= n
  <2>1. i \in 1..Len(s) /\ first[i] = s[i]
    BY <1>1, <1>2
  <2> QED
    BY <1>3, <2>1 DEF SeqsUpTo
<1>4. ASSUME NEW i \in 1..Len(rest), rest[i] # Newline
      PROVE  rest[i].rev.seq <= n
  <2>1. k + i \in 1..Len(s) /\ rest[i] = s[k + i]
    BY <1>1, <1>2
  <2> QED
    BY <1>4, <2>1 DEF SeqsUpTo
<1> QED
  BY <1>3, <1>4 DEF SeqsUpTo, first, rest

\* A greater bound holds as well.
LEMMA SeqsUpToMore ==
  ASSUME NEW s \in Seq(Token), NEW n \in Nat, NEW m \in Nat, n <= m, SeqsUpTo(s, n)
  PROVE  SeqsUpTo(s, m)
<1>1. ASSUME NEW i \in 1..Len(s), s[i] # Newline
      PROVE  s[i].rev.seq <= m
  <2>1. s[i] \in Token
    OBVIOUS
  <2>2. s[i].rev \in Revision
    BY <1>1, <2>1, TokenKinds
  <2>3. s[i].rev.seq \in 1..MaxRevisions
    BY <2>2 DEF Revision
  <2>4. s[i].rev.seq <= n
    BY <1>1 DEF SeqsUpTo
  <2>5. s[i].rev.seq \in Nat
    BY <2>3, LogAssumption
  <2> QED
    BY <2>4, <2>5
<1> QED
  BY <1>1 DEF SeqsUpTo

\* The seqs of a line.
LEMMA SeqsOfLine ==
  ASSUME NEW r \in Revision, NEW n \in Nat, r.seq <= n
  PROVE  SeqsUpTo(Line(r), n)
<1> DEFINE line == Line(r)
<1>1. /\ Len(line) = 3
      /\ line[1] = HeadOf(r) /\ line[2] = RestOf(r) /\ line[3] = Newline
  BY LineOf
<1> HIDE DEF line
<1>2. ASSUME NEW i \in 1..Len(line), line[i] # Newline
      PROVE  line[i].rev = r
  <2>1. i = 1 \/ i = 2 \/ i = 3
    BY <1>1
  <2>2. CASE i = 1
    BY <1>1, <2>2, TokenKinds
  <2>3. CASE i = 2
    BY <1>1, <2>3, TokenKinds
  <2>4. CASE i = 3
    BY <1>1, <1>2, <2>4
  <2> QED
    BY <2>1, <2>2, <2>3, <2>4
<1> QED
  BY <1>2 DEF SeqsUpTo, line

\* A line whose end is on the disk stays there when the file grows, and when it is cut
\* behind it.
LEMMA OnDiskKept ==
  ASSUME TypeOK, Len(file') \in Nat, synced' \in Nat,
         \A i \in 1..Len(file) :
           i < synced /\ file[i + 1] = Newline =>
             /\ i < synced' /\ i < Len(file')
             /\ file'[i] = file[i] /\ file'[i + 1] = Newline,
         NEW r, OnDisk(r)
  PROVE  OnDisk(r)'
<1>1. PICK i \in 1..Len(file) : i < synced /\ file[i] = RestOf(r) /\ file[i + 1] = Newline
  BY DEF OnDisk
<1>2. /\ i < synced' /\ i < Len(file')
      /\ file'[i] = RestOf(r) /\ file'[i + 1] = Newline
  BY <1>1
<1>3. i \in 1..Len(file')
  BY <1>2
<1> QED
  BY <1>2, <1>3 DEF OnDisk

\* In particular when tokens are written behind it.
LEMMA OnDiskAppended ==
  ASSUME TypeOK, NEW add \in Seq(Token), file' = file \o add,
         synced' \in Nat, synced <= synced', NEW r, OnDisk(r)
  PROVE  OnDisk(r)'
<1>1. /\ file \in Seq(Token) /\ Len(file) \in Nat /\ synced \in 0..Len(file)
      /\ Len(add) \in Nat
  BY DEF TypeOK
<1>2. /\ Len(file') = Len(file) + Len(add)
      /\ \A i \in 1..(Len(file) + Len(add)) :
           file'[i] = IF i <= Len(file) THEN file[i] ELSE add[i - Len(file)]
  BY <1>1, ConcatProperties
<1>3. ASSUME NEW i \in 1..Len(file), i < synced, file[i + 1] = Newline
      PROVE  /\ i < synced' /\ i < Len(file')
             /\ file'[i] = file[i] /\ file'[i + 1] = Newline
  <2>1. i + 1 \in 1..(Len(file) + Len(add)) /\ i + 1 <= Len(file)
    BY <1>1, <1>3
  <2>2. i \in 1..(Len(file) + Len(add)) /\ i <= Len(file)
    BY <1>1
  <2>3. i < synced' /\ i < Len(file')
    BY <1>1, <1>2, <1>3
  <2> QED
    BY <1>2, <1>3, <2>1, <2>2, <2>3
<1>4. Len(file') \in Nat
  BY <1>1, <1>2
<1> QED
  BY <1>3, <1>4, OnDiskKept

-----------------------------------------------------------------------------
(* The next revision.                                                       *)

\* The seq of the head was issued; without failures it counts the revisions.
LEMMA HeadSeqIs ==
  ASSUME LInv
  PROVE  /\ HeadSeq \in 0..issued
         /\ failures = 0 /\ serving =>
              Len(file) = 3 * HeadSeq /\ Len(memory) = HeadSeq
<1>1. /\ memory \in Seq(Revision) /\ issued \in Nat /\ file \in Seq(Token)
      /\ \A i \in 1..Len(memory) : memory[i].seq <= issued
  BY LogAssumption DEF LInv, TypeOK, IssuedFirst
<1>2. \A i \in 1..Len(memory) : memory[i].seq \in Nat
  <2>1. ASSUME NEW i \in 1..Len(memory)
        PROVE  memory[i].seq \in Nat
    <3>1. memory[i] \in Revision
      BY <1>1
    <3>2. memory[i].seq \in 1..MaxRevisions
      BY <3>1 DEF Revision
    <3> QED
      BY <3>2, LogAssumption
  <2> QED
    BY <2>1
<1> DEFINE seqs == {0} \cup {memory[i].seq : i \in 1..Len(memory)}
<1>3. seqs \subseteq 0..issued /\ seqs # {}
  BY <1>1, <1>2
<1>4. HeadSeq = MaxOf(seqs)
  BY DEF HeadSeq
<1>5. MaxOf(seqs) \in seqs /\ \A y \in seqs : y <= MaxOf(seqs)
  <2> HIDE DEF seqs
  <2> QED
    BY <1>1, <1>3, GreatestExists
<1>6. HeadSeq \in 0..issued
  BY <1>3, <1>4, <1>5
<1>7. ASSUME failures = 0, serving
      PROVE  Len(file) = 3 * HeadSeq /\ Len(memory) = HeadSeq
  <2>1. InOrder(file) /\ memory = RevisionsIn(file) /\ WholeLines(file)
    BY <1>7 DEF LInv, FileFollowsMemory
  <2>2. PICK q \in 0..Len(file) : Len(file) = 3 * q
    BY <2>1 DEF WholeLines
  <2>3. Len(file) \in Nat /\ Len(file) \in 0..Len(file)
    BY <1>1
  <2>4. PICK c \in Nat :
          /\ Len(RevisionsInFirst(file, Len(file))) = c
          /\ 3 * c <= Len(file) + 1 /\ Len(file) < 3 * c + 2
          /\ \A k \in 1..c : RevisionsInFirst(file, Len(file))[k].seq = k
    BY <1>1, <2>1, <2>3, SeqsInOrder
  <2>5. Len(memory) = c /\ \A k \in 1..c : memory[k].seq = k
    BY <2>1, <2>4 DEF RevisionsIn
  <2>6. c = q
    BY <2>2, <2>3, <2>4
  <2>7. \A y \in seqs : y <= c
    BY <2>4, <2>5
  <2>8. c \in seqs
    <3>1. CASE c = 0
      BY <3>1
    <3>2. CASE c # 0
      <4>1. c \in 1..Len(memory) /\ memory[c].seq = c
        BY <2>5, <3>2
      <4> QED
        BY <4>1
    <3> QED
      BY <3>1, <3>2
  <2>9. HeadSeq = c
    <3>1. HeadSeq \in Nat /\ HeadSeq <= c /\ c <= HeadSeq
      BY <1>4, <1>5, <1>6, <2>7, <2>8
    <3> QED
      BY <3>1
  <2> QED
    BY <2>2, <2>5, <2>6, <2>9
<1> QED
  BY <1>6, <1>7

\* The revision that a commit writes.
LEMMA TheRevisionIs ==
  ASSUME LInv, NEW o \in Object \cup {NoObject}, NewRevision(o)
  PROVE  /\ TheRevision(o) \in Revision
         /\ TheRevision(o).seq = HeadSeq + 1
         /\ issued \in Nat /\ issued + 1 \in 0..MaxRevisions
         /\ SeqsUpTo(Line(TheRevision(o)), issued + 1)
         /\ Line(TheRevision(o)) \in Seq(Token)
         /\ Len(Line(TheRevision(o))) = 3
<1>1. issued \in Nat /\ issued < MaxRevisions /\ MaxRevisions \in Nat
  BY LogAssumption DEF LInv, TypeOK, NewRevision
<1>2. HeadSeq \in 0..issued
  BY HeadSeqIs
<1>3. issued + 1 \in 1..MaxRevisions /\ HeadSeq + 1 \in 1..MaxRevisions
  BY <1>1, <1>2
<1>4. TheRevision(o) \in Revision /\ TheRevision(o).seq = HeadSeq + 1
  BY <1>3 DEF TheRevision, NextSeq, Revision
<1>5. HeadSeq + 1 <= issued + 1 /\ issued + 1 \in Nat /\ issued + 1 \in 0..MaxRevisions
  BY <1>1, <1>2
<1> DEFINE r == TheRevision(o)
<1> HIDE DEF r
<1>6. r \in Revision /\ r.seq <= issued + 1
  BY <1>4, <1>5 DEF r
<1>7. SeqsUpTo(Line(r), issued + 1)
  BY <1>5, <1>6, SeqsOfLine
<1>8. Line(r) \in Seq(Token) /\ Len(Line(r)) = 3
  BY <1>6, LineOf
<1> QED
  BY <1>1, <1>4, <1>5, <1>7, <1>8 DEF r

-----------------------------------------------------------------------------
(* The invariant is kept: every kind of step.                               *)

\* What was acknowledged before stays on the disk.
LEMMA AckedStay ==
  ASSUME AckedOnDisk, acked' = acked, \A r \in Revision : OnDisk(r) => OnDisk(r)', TypeOK
  PROVE  AckedOnDisk'
<1>1. ASSUME Fsync, NEW a \in 1..Len(acked)
      PROVE  OnDisk(acked[a])'
  <2>1. acked[a] \in Revision
    BY DEF TypeOK
  <2>2. PICK r \in Revision : r = acked[a]
    BY <2>1
  <2>3. OnDisk(r)'
    BY <1>1, <2>2 DEF AckedOnDisk
  <2>4. r = acked'[a]
    BY <2>2
  <2> QED
    BY <2>3, <2>4 DEF OnDisk
<1> QED
  BY <1>1 DEF AckedOnDisk

\* The line of an acknowledged commit reaches the disk.
LEMMA CommitKeeps ==
  ASSUME LInv, NEW o \in Object \cup {NoObject}, Commit(o)
  PROVE  LInv'
<1> DEFINE r == TheRevision(o)
           add == buffer \o Line(r)
<1>1. /\ r \in Revision /\ r.seq = HeadSeq + 1 /\ issued \in Nat /\ issued + 1 \in 0..MaxRevisions
      /\ SeqsUpTo(Line(r), issued + 1) /\ Line(r) \in Seq(Token) /\ Len(Line(r)) = 3
  BY TheRevisionIs DEF Commit
<1>2. /\ file \in Seq(Token) /\ buffer \in Seq(Token) /\ memory \in Seq(Revision)
      /\ acked \in Seq(Revision) /\ synced \in 0..Len(file) /\ Len(file) \in Nat
      /\ SeqsUpTo(file, issued) /\ SeqsUpTo(buffer, issued)
  BY DEF LInv, TypeOK, IssuedFirst
<1>3. add \in Seq(Token) /\ SeqsUpTo(add, issued + 1)
  <2>1. SeqsUpTo(buffer, issued + 1)
    BY <1>1, <1>2, SeqsUpToMore
  <2> HIDE DEF r
  <2>2. SeqsUpTo(add, issued + 1)
    BY <1>1, <1>2, <2>1, SeqsOfConcat
  <2> QED
    BY <1>1, <1>2, <2>2, ConcatProperties
<1> HIDE DEF r
<1>4. /\ serving /\ serving' = serving
      /\ file' = file \o add /\ buffer' = <<>> /\ synced' = SyncedLength(file')
      /\ memory' = Append(memory, r) /\ acked' = Append(acked, r) /\ issued' = issued + 1
      /\ pending' = {} /\ objects' = objects /\ failures' = failures /\ stops' = stops
  <2>0. file \in Seq(Token) /\ buffer \in Seq(Token) /\ Line(r) \in Seq(Token)
    BY <1>1, <1>2
  <2>1. (file \o buffer) \o Line(r) = file \o (buffer \o Line(r))
    BY <2>0, ConcatAssociative
  <2>2. file' = (file \o buffer) \o Line(r)
    BY DEF Commit, r
  <2>3. file' = file \o add
    BY <2>1, <2>2
  <2>4. /\ serving /\ serving' = serving
        /\ buffer' = <<>> /\ synced' = SyncedLength(file')
        /\ memory' = Append(memory, r) /\ acked' = Append(acked, r) /\ issued' = issued + 1
        /\ pending' = {} /\ objects' = objects /\ failures' = failures /\ stops' = stops
    BY DEF Commit, NewRevision, RequestEnds, counters, r
  <2> QED
    BY <2>2, <2>3, <2>4
<1> HIDE DEF add
<1>5. file' \in Seq(Token) /\ Len(file') = Len(file) + Len(add) /\ Len(add) \in Nat
  BY <1>2, <1>3, <1>4, ConcatProperties
<1>6. synced' \in 0..Len(file') /\ synced <= synced' /\ synced' \in Nat
  BY <1>2, <1>4, <1>5 DEF SyncedLength
<1>7. TypeOK'
  <2>1. memory' \in Seq(Revision) /\ acked' \in Seq(Revision)
    BY <1>1, <1>2, <1>4, AppendProperties
  <2> QED
    BY <1>1, <1>4, <1>5, <1>6, <2>1 DEF LInv, TypeOK
<1>8. IssuedFirst'
  <2>1. SeqsUpTo(file', issued + 1)
    <3>1. SeqsUpTo(file, issued + 1)
      BY <1>1, <1>2, SeqsUpToMore
    <3> QED
      BY <1>2, <1>3, <1>4, <3>1, SeqsOfConcat
  <2>2. SeqsUpTo(<<>>, issued + 1)
    BY DEF SeqsUpTo
  <2>3. ASSUME NEW i \in 1..Len(memory')
        PROVE  memory'[i].seq <= issued + 1
    <3>1. /\ Len(memory') = Len(memory) + 1 /\ memory'[Len(memory) + 1] = r
          /\ \A j \in 1..Len(memory) : memory'[j] = memory[j]
          /\ Len(memory) \in Nat
      BY <1>1, <1>2, <1>4, AppendProperties
    <3>2. CASE i = Len(memory) + 1
      <4>1. HeadSeq \in 0..issued
        BY HeadSeqIs
      <4> QED
        BY <1>1, <3>1, <3>2, <4>1
    <3>3. CASE i # Len(memory) + 1
      <4>1. i \in 1..Len(memory) /\ memory'[i] = memory[i]
        BY <3>1, <3>3
      <4>2. memory[i].seq <= issued /\ memory[i] \in Revision
        BY <1>2, <4>1 DEF LInv, IssuedFirst
      <4>3. memory[i].seq \in 1..MaxRevisions
        BY <4>2 DEF Revision
      <4>4. memory[i].seq \in Nat
        BY <4>3, LogAssumption
      <4> QED
        BY <1>1, <4>1, <4>2, <4>4
    <3> QED
      BY <3>2, <3>3
  <2> QED
    BY <1>4, <2>1, <2>2, <2>3 DEF IssuedFirst
<1>9. ClosedIsEmpty'
  BY <1>4 DEF ClosedIsEmpty
<1>10. FileFollowsMemory'
  <2>1. ASSUME failures = 0
        PROVE  InOrder(file') /\ memory' = RevisionsIn(file') /\ WholeLines(file')
    <3>1. buffer = <<>> /\ InOrder(file) /\ memory = RevisionsIn(file) /\ WholeLines(file)
      BY <1>4, <2>1 DEF LInv, FileFollowsMemory
    <3>2. HeadSeq \in 0..issued /\ Len(file) = 3 * HeadSeq
      BY <1>4, <2>1, HeadSeqIs
    <3>3. add = Line(r)
      BY <1>1, <3>1, ConcatEmptySeq DEF add
    <3>4. Prefix(Line(r), 3) = Line(r)
      BY <1>1, SubSeqFull DEF Prefix
    <3>5. HeadSeq \in Nat /\ 3 \in 0..3
      BY <1>1, <3>2
    <3>6. InOrder(file') /\ WholeLines(file')
      <4>1. /\ InOrder(file \o Prefix(Line(r), 3))
            /\ WholeLines(file \o Prefix(Line(r), 3))
        BY <1>1, <1>2, <3>1, <3>2, <3>5, InOrderExtended
      <4> QED
        BY <1>4, <3>3, <3>4, <4>1
    <3>7. memory' = RevisionsIn(file')
      <4>1. RevisionsIn(file') = RevisionsIn(file) \o RevisionsIn(Line(r))
        BY <1>1, <1>2, <1>4, <3>3, RevisionsConcat
      <4>2. RevisionsIn(Line(r)) = <<r>>
        BY <1>1, <3>5, RevisionsOfLine
      <4>3. Append(memory, r) = memory \o <<r>>
        BY <1>1, <1>2, AppendIsConcat
      <4> QED
        BY <1>4, <3>1, <4>1, <4>2, <4>3
    <3> QED
      BY <3>6, <3>7
  <2> QED
    BY <1>4, <2>1 DEF FileFollowsMemory
<1>11. AckedOnDisk'
  <2>1. ASSUME Fsync, NEW a \in 1..Len(acked')
        PROVE  OnDisk(acked[a])'
    <3>1. /\ Len(acked') = Len(acked) + 1 /\ acked'[Len(acked) + 1] = r
          /\ \A j \in 1..Len(acked) : acked'[j] = acked[j]
          /\ Len(acked) \in Nat
      BY <1>1, <1>2, <1>4, AppendProperties
    <3>2. CASE a = Len(acked) + 1
      <4>1. file' = (file \o buffer) \o Line(r) /\ synced' = Len(file')
        BY <2>1 DEF Commit, SyncedLength, r
      <4> DEFINE before == file \o buffer
                 line == Line(r)
                 n == Len(before)
      <4>2. before \in Seq(Token) /\ n \in Nat
        BY <1>2, ConcatProperties
      <4>3. line \in Seq(Token) /\ Len(line) = 3 /\ line[2] = RestOf(r) /\ line[3] = Newline
        BY <1>1, LineOf
      <4> HIDE DEF before, line
      <4>4. /\ Len(file') = n + 3
            /\ \A i \in 1..(n + 3) : file'[i] = IF i <= n THEN before[i] ELSE line[i - n]
        <5>1. /\ Len(before \o line) = Len(before) + Len(line)
              /\ \A i \in 1..(Len(before) + Len(line)) :
                   (before \o line)[i] = IF i <= Len(before) THEN before[i]
                                           ELSE line[i - Len(before)]
          BY <4>2, <4>3, ConcatProperties
        <5>2. file' = before \o line
          BY <4>1 DEF before, line
        <5> QED
          BY <4>3, <5>1, <5>2
      <4>5. file'[n + 2] = RestOf(r) /\ file'[(n + 2) + 1] = Newline
        <5>1. /\ n + 2 \in 1..(n + 3) /\ ~ (n + 2 <= n) /\ (n + 2) - n = 2
              /\ (n + 2) + 1 \in 1..(n + 3) /\ ~ ((n + 2) + 1 <= n) /\ ((n + 2) + 1) - n = 3
          BY <4>2
        <5> QED
          BY <4>3, <4>4, <5>1
      <4>6. n + 2 \in 1..Len(file') /\ n + 2 < synced'
        BY <4>1, <4>2, <4>4
      <4> QED
        BY <3>1, <3>2, <4>5, <4>6 DEF OnDisk
    <3>3. CASE a # Len(acked) + 1
      <4>1. a \in 1..Len(acked) /\ acked'[a] = acked[a]
        BY <3>1, <3>3
      <4>2. PICK s : s = acked[a]
        OBVIOUS
      <4>3. OnDisk(s)
        BY <2>1, <4>1, <4>2 DEF LInv, AckedOnDisk
      <4>4. OnDisk(s)'
        BY <1>3, <1>4, <1>6, <4>3, OnDiskAppended DEF LInv
      <4>5. acked'[a] = s
        BY <4>1, <4>2
      <4> QED
        BY <4>4, <4>5 DEF OnDisk
    <3> QED
      BY <3>2, <3>3
  <2> QED
    BY <2>1 DEF AckedOnDisk
<1> QED
  BY <1>7, <1>8, <1>9, <1>10, <1>11 DEF LInv

\* A commit that is refused leaves some of its tokens in the file and some in the buffer.
LEMMA RefusedKeeps ==
  ASSUME LInv, NEW o \in Object \cup {NoObject}, NewRevision(o), Refused,
         NEW add \in Seq(Token), NEW left \in Seq(Token),
         SeqsUpTo(add, issued + 1), SeqsUpTo(left, issued + 1),
         file' = file \o add, buffer' = left, synced' = synced
  PROVE  LInv'
<1>1. issued \in Nat /\ issued + 1 \in 0..MaxRevisions
  BY TheRevisionIs
<1>2. /\ file \in Seq(Token) /\ memory \in Seq(Revision)
      /\ synced \in 0..Len(file) /\ Len(file) \in Nat
      /\ SeqsUpTo(file, issued)
      /\ failures \in 0..MaxFailures /\ MaxFailures \in Nat
  BY LogAssumption DEF LInv, TypeOK, IssuedFirst
<1>3. /\ serving /\ serving' = serving /\ failures' = failures + 1 /\ failures < MaxFailures
      /\ issued' = issued + 1 /\ pending' = {} /\ memory' = memory /\ objects' = objects
      /\ acked' = acked /\ stops' = stops
  BY DEF Refused, NewRevision, RequestEnds
<1>4. file' \in Seq(Token) /\ Len(file') = Len(file) + Len(add) /\ Len(add) \in Nat
  BY <1>2, ConcatProperties
<1>5. TypeOK'
  <2>1. failures' \in 0..MaxFailures /\ synced' \in 0..Len(file')
    BY <1>2, <1>3, <1>4
  <2> QED
    BY <1>1, <1>3, <1>4, <2>1 DEF LInv, TypeOK
<1>6. IssuedFirst'
  <2>1. SeqsUpTo(file, issued + 1)
    BY <1>1, <1>2, SeqsUpToMore
  <2>2. SeqsUpTo(file', issued + 1)
    BY <1>2, <2>1, SeqsOfConcat
  <2>3. ASSUME NEW i \in 1..Len(memory)
        PROVE  memory[i].seq <= issued + 1
    <3>1. memory[i].seq <= issued /\ memory[i] \in Revision
      BY <1>2 DEF LInv, IssuedFirst
    <3>2. memory[i].seq \in 1..MaxRevisions
      BY <3>1 DEF Revision
    <3>3. memory[i].seq \in Nat
      BY <3>2, LogAssumption
    <3> QED
      BY <1>1, <3>1, <3>3
  <2> QED
    BY <1>3, <2>2, <2>3 DEF IssuedFirst
<1>7. ClosedIsEmpty'
  BY <1>3 DEF ClosedIsEmpty
<1>8. FileFollowsMemory'
  <2>1. failures' # 0
    BY <1>2, <1>3
  <2> QED
    BY <2>1 DEF FileFollowsMemory
<1>9. AckedOnDisk'
  <2>1. synced' \in Nat /\ synced <= synced'
    BY <1>2
  <2>2. \A r \in Revision : OnDisk(r) => OnDisk(r)'
    BY <2>1, OnDiskAppended DEF LInv
  <2> QED
    BY <1>3, <2>2, AckedStay DEF LInv
<1> QED
  BY <1>5, <1>6, <1>7, <1>8, <1>9 DEF LInv

\* A process that ends leaves some of its tokens in the file.
LEMMA StopKeeps ==
  ASSUME LInv, Stops, NEW add \in Seq(Token), issued \in Nat, issued' \in 0..MaxRevisions,
         issued <= issued', SeqsUpTo(add, issued'),
         file' = file \o add, synced' = synced, objects' \in [Object -> ObjectState],
         failures = 0 => InOrder(file')
  PROVE  LInv'
<1>1. /\ file \in Seq(Token) /\ synced \in 0..Len(file) /\ Len(file) \in Nat
      /\ SeqsUpTo(file, issued)
      /\ stops \in 0..MaxStops /\ MaxStops \in Nat /\ MaxRevisions \in Nat
  BY LogAssumption DEF LInv, TypeOK, IssuedFirst
<1>2. /\ stops < MaxStops /\ stops' = stops + 1 /\ serving' = FALSE /\ memory' = <<>>
      /\ buffer' = <<>> /\ pending' = {} /\ acked' = acked /\ failures' = failures
  BY DEF Stops, RequestEnds
<1>3. file' \in Seq(Token) /\ Len(file') = Len(file) + Len(add) /\ Len(add) \in Nat
  BY <1>1, ConcatProperties
<1>4. TypeOK'
  <2>1. stops' \in 0..MaxStops /\ synced' \in 0..Len(file')
    BY <1>1, <1>2, <1>3
  <2>2. /\ memory' \in Seq(Revision) /\ buffer' \in Seq(Token) /\ serving' \in BOOLEAN
        /\ pending' \subseteq Object
    <3>1. <<>> \in Seq(Revision) /\ <<>> \in Seq(Token)
      OBVIOUS
    <3>2. memory' \in Seq(Revision) /\ buffer' \in Seq(Token)
      BY <1>2, <3>1
    <3>3. serving' \in BOOLEAN /\ pending' \subseteq Object
      BY <1>2
    <3> QED
      BY <3>2, <3>3
  <2>3. acked' \in Seq(Revision) /\ failures' \in 0..MaxFailures
    BY <1>2 DEF LInv, TypeOK
  <2> QED
    BY <1>3, <2>1, <2>2, <2>3 DEF TypeOK
<1>5. IssuedFirst'
  <2>1. issued' \in Nat
    BY <1>1
  <2>2. SeqsUpTo(file, issued')
    BY <1>1, <2>1, SeqsUpToMore
  <2>3. SeqsUpTo(file', issued')
    BY <1>1, <2>2, SeqsOfConcat
  <2>4. SeqsUpTo(<<>>, issued')
    BY DEF SeqsUpTo
  <2>5. \A i \in 1..Len(<<>>) : <<>>[i].seq <= issued'
    OBVIOUS
  <2> QED
    BY <1>2, <2>3, <2>4, <2>5 DEF IssuedFirst
<1>6. ClosedIsEmpty'
  BY <1>2 DEF ClosedIsEmpty
<1>7. FileFollowsMemory'
  BY <1>2 DEF FileFollowsMemory
<1>8. AckedOnDisk'
  <2>1. synced' \in Nat /\ synced <= synced'
    BY <1>1
  <2>2. \A r \in Revision : OnDisk(r) => OnDisk(r)'
    BY <2>1, OnDiskAppended DEF LInv
  <2> QED
    BY <1>2, <2>2, AckedStay DEF LInv
<1> QED
  BY <1>4, <1>5, <1>6, <1>7, <1>8 DEF LInv

\* What a commit has queued, and what of it is written.
LEMMA QueuedIs ==
  ASSUME LInv, NEW o \in Object \cup {NoObject}, NewRevision(o)
  PROVE  /\ buffer \in Seq(Token) /\ SeqsUpTo(buffer, issued + 1)
         /\ buffer \o Line(TheRevision(o)) \in Seq(Token)
         /\ Len(buffer \o Line(TheRevision(o))) = Len(buffer) + 3
         /\ SeqsUpTo(buffer \o Line(TheRevision(o)), issued + 1)
<1> DEFINE line == Line(TheRevision(o))
<1>1. /\ issued \in Nat /\ issued + 1 \in Nat
      /\ SeqsUpTo(line, issued + 1) /\ line \in Seq(Token) /\ Len(line) = 3
  BY TheRevisionIs
<1> HIDE DEF line
<1>2. buffer \in Seq(Token) /\ SeqsUpTo(buffer, issued)
  BY DEF LInv, TypeOK, IssuedFirst
<1>3. issued <= issued + 1
  BY <1>1
<1>4. SeqsUpTo(buffer, issued + 1)
  BY <1>1, <1>2, <1>3, SeqsUpToMore
<1>5. SeqsUpTo(buffer \o line, issued + 1)
  BY <1>1, <1>2, <1>4, SeqsOfConcat
<1>6. buffer \o line \in Seq(Token) /\ Len(buffer \o line) = Len(buffer) + 3
  <2>1. buffer \o line \in Seq(Token) /\ Len(buffer \o line) = Len(buffer) + Len(line)
    BY <1>1, <1>2, ConcatProperties
  <2> QED
    BY <1>1, <2>1
<1> QED
  BY <1>2, <1>4, <1>5, <1>6 DEF line

\* A flush fails in the middle.
LEMMA FlushFailsKeeps ==
  ASSUME LInv, NEW o \in Object \cup {NoObject}, NEW n \in 0..MaxQueued, FlushFails(o, n)
  PROVE  LInv'
<1> DEFINE queued == buffer \o Line(TheRevision(o))
<1>1. /\ NewRevision(o) /\ Refused /\ n < Len(queued)
      /\ file' = file \o Prefix(queued, n) /\ buffer' = Suffix(queued, n) /\ synced' = synced
  BY DEF FlushFails
<1>2. queued \in Seq(Token) /\ SeqsUpTo(queued, issued + 1)
  BY <1>1, QueuedIs
<1> HIDE DEF queued
<1>3. n \in 0..Len(queued)
  <2>1. n \in Nat /\ Len(queued) \in Nat
    BY <1>2
  <2> QED
    BY <1>1, <2>1
<1>4. /\ Prefix(queued, n) \in Seq(Token) /\ Suffix(queued, n) \in Seq(Token)
      /\ SeqsUpTo(Prefix(queued, n), issued + 1) /\ SeqsUpTo(Suffix(queued, n), issued + 1)
  BY <1>2, <1>3, PrefixSuffix, SeqsOfParts
<1> QED
  BY <1>1, <1>4, RefusedKeeps

\* The flush before a long line fails.
LEMMA FlushBeforeFailsKeeps ==
  ASSUME LInv, NEW o \in Object \cup {NoObject}, NEW n \in 0..MaxQueued,
         FlushBeforeFails(o, n)
  PROVE  LInv'
<1>1. /\ NewRevision(o) /\ Refused /\ n < Len(buffer)
      /\ file' = file \o Prefix(buffer, n) /\ buffer' = Suffix(buffer, n) /\ synced' = synced
  BY DEF FlushBeforeFails
<1>2. buffer \in Seq(Token) /\ SeqsUpTo(buffer, issued + 1)
  BY <1>1, QueuedIs
<1>3. n \in 0..Len(buffer)
  <2>1. n \in Nat /\ Len(buffer) \in Nat
    BY <1>2
  <2> QED
    BY <1>1, <2>1
<1>4. /\ Prefix(buffer, n) \in Seq(Token) /\ Suffix(buffer, n) \in Seq(Token)
      /\ SeqsUpTo(Prefix(buffer, n), issued + 1) /\ SeqsUpTo(Suffix(buffer, n), issued + 1)
  BY <1>2, <1>3, PrefixSuffix, SeqsOfParts
<1> QED
  BY <1>1, <1>4, RefusedKeeps

\* A long line is written in part.
LEMMA WriteThroughFailsKeeps ==
  ASSUME LInv, NEW o \in Object \cup {NoObject}, NEW n \in 0..MaxQueued,
         WriteThroughFails(o, n)
  PROVE  LInv'
<1> DEFINE line == Line(TheRevision(o))
           text == Prefix(line, n)
           add == buffer \o text
<1>1. NewRevision(o) /\ Refused /\ n \in {0, 1} /\ buffer' = <<>> /\ synced' = synced
  BY DEF WriteThroughFails
<1>2. file' = (file \o buffer) \o text
  BY DEF WriteThroughFails
<1>3. buffer \in Seq(Token) /\ SeqsUpTo(buffer, issued + 1)
  BY <1>1, QueuedIs
<1>4. line \in Seq(Token) /\ Len(line) = 3 /\ SeqsUpTo(line, issued + 1)
  BY <1>1, TheRevisionIs
<1> HIDE DEF line
<1>5. n \in 0..Len(line)
  BY <1>1, <1>4
<1>6. text \in Seq(Token) /\ SeqsUpTo(text, issued + 1)
  BY <1>4, <1>5, PrefixSuffix, SeqsOfParts
<1> HIDE DEF text
<1>7. add \in Seq(Token) /\ SeqsUpTo(add, issued + 1)
  BY <1>3, <1>6, SeqsOfConcat, ConcatProperties
<1>8. file' = file \o add
  <2>1. file \in Seq(Token)
    BY DEF LInv, TypeOK
  <2>2. (file \o buffer) \o text = file \o (buffer \o text)
    BY <1>3, <1>6, <2>1, ConcatAssociative
  <2> QED
    BY <1>2, <2>2
<1> HIDE DEF add
<1>9. <<>> \in Seq(Token) /\ SeqsUpTo(<<>>, issued + 1)
  BY DEF SeqsUpTo
<1> QED
  BY <1>1, <1>7, <1>8, <1>9, RefusedKeeps

\* The sync fails after the line was written.
LEMMA SyncFailsKeeps ==
  ASSUME LInv, NEW o \in Object \cup {NoObject}, SyncFails(o)
  PROVE  LInv'
<1> DEFINE line == Line(TheRevision(o))
           add == buffer \o line
<1>1. NewRevision(o) /\ Refused /\ buffer' = <<>> /\ synced' = synced
  BY DEF SyncFails
<1>2. file' = (file \o buffer) \o line
  BY DEF SyncFails
<1>3. buffer \in Seq(Token) /\ add \in Seq(Token) /\ SeqsUpTo(add, issued + 1)
  BY <1>1, QueuedIs
<1>4. line \in Seq(Token)
  BY <1>1, TheRevisionIs
<1> HIDE DEF line
<1>5. file' = file \o add
  <2>1. file \in Seq(Token)
    BY DEF LInv, TypeOK
  <2>2. (file \o buffer) \o line = file \o (buffer \o line)
    BY <1>3, <1>4, <2>1, ConcatAssociative
  <2> QED
    BY <1>2, <2>2
<1> HIDE DEF add
<1>6. <<>> \in Seq(Token) /\ SeqsUpTo(<<>>, issued + 1)
  BY DEF SeqsUpTo
<1> QED
  BY <1>1, <1>3, <1>5, <1>6, RefusedKeeps

\* Without failures the buffer is empty between requests, and a commit that is cut short
\* leaves a beginning of its line behind whole lines.
LEMMA CutCommit ==
  ASSUME LInv, failures = 0, NEW o \in Object \cup {NoObject}, NewRevision(o),
         NEW n \in 0..(Len(buffer) + 3)
  PROVE  /\ buffer \o Line(TheRevision(o)) = Line(TheRevision(o)) /\ n \in 0..3
         /\ InOrder(file \o Prefix(Line(TheRevision(o)), n))
<1> DEFINE r == TheRevision(o)
<1>1. r \in Revision /\ r.seq = HeadSeq + 1 /\ Line(r) \in Seq(Token) /\ issued \in Nat
  BY TheRevisionIs
<1>2. serving /\ buffer = <<>> /\ InOrder(file) /\ file \in Seq(Token)
  BY DEF LInv, TypeOK, FileFollowsMemory, NewRevision
<1>3. HeadSeq \in 0..issued /\ Len(file) = 3 * HeadSeq
  BY <1>2, HeadSeqIs
<1> HIDE DEF r
<1>4. HeadSeq \in Nat
  BY <1>1, <1>3
<1>5. n \in 0..3
  <2>1. Len(buffer) = 0
    BY <1>2
  <2> QED
    BY <2>1
<1>6. InOrder(file \o Prefix(Line(r), n))
  BY <1>1, <1>2, <1>3, <1>4, <1>5, InOrderExtended
<1>7. <<>> \o Line(r) = Line(r)
  BY <1>1, ConcatEmptySeq
<1> QED
  BY <1>2, <1>5, <1>6, <1>7 DEF r

\* The process is killed inside a commit.
LEMMA ExitInCommitKeeps ==
  ASSUME LInv, NEW o \in Object \cup {NoObject}, NEW n \in 0..MaxQueued, ExitInCommit(o, n)
  PROVE  LInv'
<1> DEFINE queued == buffer \o Line(TheRevision(o))
           add == Prefix(queued, n)
<1>1. /\ NewRevision(o) /\ Stops /\ n <= Len(queued)
      /\ file' = file \o add /\ synced' = synced /\ issued' = issued + 1
      /\ objects' = objects
  BY DEF ExitInCommit
<1>2. /\ queued \in Seq(Token) /\ SeqsUpTo(queued, issued + 1)
      /\ Len(queued) = Len(buffer) + 3
  BY <1>1, QueuedIs
<1>3. issued \in Nat /\ issued + 1 \in 0..MaxRevisions
  BY <1>1, TheRevisionIs
<1>4. failures = 0 => InOrder(file')
  <2>1. ASSUME failures = 0
        PROVE  InOrder(file')
    <3>1. n \in 0..(Len(buffer) + 3)
      <4>1. n \in Nat /\ Len(queued) \in Nat
        BY <1>2
      <4> HIDE DEF queued
      <4> QED
        BY <1>1, <1>2, <4>1
    <3>2. /\ queued = Line(TheRevision(o))
          /\ InOrder(file \o Prefix(Line(TheRevision(o)), n))
      BY <1>1, <2>1, <3>1, CutCommit
    <3> QED
      BY <1>1, <3>2
  <2> QED
    BY <2>1
<1> HIDE DEF queued
<1>5. n \in 0..Len(queued)
  <2>1. n \in Nat /\ Len(queued) \in Nat
    BY <1>2
  <2> QED
    BY <1>1, <2>1
<1>6. add \in Seq(Token) /\ SeqsUpTo(add, issued + 1)
  BY <1>2, <1>5, PrefixSuffix, SeqsOfParts
<1> HIDE DEF add
<1>7. objects' \in [Object -> ObjectState]
  BY <1>1 DEF LInv, TypeOK
<1>8. issued <= issued' /\ issued' \in 0..MaxRevisions /\ SeqsUpTo(add, issued')
  BY <1>1, <1>3, <1>6
<1> QED
  BY <1>1, <1>3, <1>4, <1>6, <1>7, <1>8, StopKeeps

\* The process ends between commits.
LEMMA ExitKeeps ==
  ASSUME LInv, NEW n \in 0..MaxQueued, Exit(n)
  PROVE  LInv'
<1> DEFINE add == Prefix(buffer, n)
<1>1. /\ serving /\ Stops /\ n <= Len(buffer)
      /\ file' = file \o add /\ synced' = synced /\ issued' = issued
      /\ objects' = objects
  BY DEF Exit
<1>2. /\ buffer \in Seq(Token) /\ SeqsUpTo(buffer, issued) /\ issued \in 0..MaxRevisions
      /\ file \in Seq(Token) /\ objects \in [Object -> ObjectState]
  BY DEF LInv, TypeOK, IssuedFirst
<1>3. n \in 0..Len(buffer)
  <2>1. n \in Nat /\ Len(buffer) \in Nat
    BY <1>2
  <2> QED
    BY <1>1, <2>1
<1>4. add \in Seq(Token) /\ SeqsUpTo(add, issued)
  BY <1>2, <1>3, PrefixSuffix, SeqsOfParts
<1>5. ASSUME failures = 0
      PROVE  file' = file /\ InOrder(file')
  <2>1. buffer = <<>> /\ InOrder(file)
    BY <1>5 DEF LInv, FileFollowsMemory
  <2>2. Len(<<>>) = 0
    OBVIOUS
  <2>3. Len(buffer) = 0
    BY <2>1, <2>2, Zenon
  <2>4. n = 0
    BY <1>3, <2>3
  <2>5. add = <<>>
    BY <2>4, SubSeqEmpty DEF Prefix
  <2>6. file \o <<>> = file
    BY <1>2, ConcatEmptySeq
  <2>7. file' = file
    BY <1>1, <2>5, <2>6
  <2> QED
    BY <2>1, <2>7
<1> HIDE DEF add
<1>6. issued \in Nat /\ issued <= issued' /\ issued' \in 0..MaxRevisions
  BY <1>1, <1>2
<1> QED
  BY <1>1, <1>2, <1>4, <1>5, <1>6, StopKeeps

\* The process is killed inside put.
LEMMA ExitInPutKeeps ==
  ASSUME LInv, NEW o \in Object, ExitInPut(o)
  PROVE  LInv'
<1>1. /\ Stops /\ file' = file /\ synced' = synced /\ issued' = issued
      /\ objects' = [objects EXCEPT ![o] = "cached"]
  BY DEF ExitInPut, disk
<1>2. file \in Seq(Token) /\ issued \in 0..MaxRevisions /\ objects \in [Object -> ObjectState]
  BY DEF LInv, TypeOK
<1>3. <<>> \in Seq(Token) /\ SeqsUpTo(<<>>, issued)
  BY DEF SeqsUpTo
<1>4. file' = file \o <<>>
  BY <1>1, <1>2, ConcatEmptySeq
<1>5. objects' \in [Object -> ObjectState]
  BY <1>1, <1>2 DEF ObjectState
<1>6. failures = 0 => InOrder(file')
  BY <1>1 DEF LInv, FileFollowsMemory
<1>7. issued \in Nat /\ issued <= issued' /\ issued' \in 0..MaxRevisions
  BY <1>1, <1>2
<1> QED
  BY <1>1, <1>3, <1>4, <1>5, <1>6, <1>7, StopKeeps

\* Storing an object does not touch the log.
LEMMA PutKeeps ==
  ASSUME LInv, NEW o \in Object, PutObject(o) \/ PutFails(o)
  PROVE  LInv'
<1>1. /\ serving /\ file' = file /\ synced' = synced /\ buffer' = buffer /\ serving' = serving
      /\ memory' = memory /\ acked' = acked /\ issued' = issued /\ stops' = stops
      /\ pending' \in {pending \cup {o}, {}}
  BY DEF PutObject, PutFails, disk, counters, RequestEnds
<1>2. /\ failures \in 0..MaxFailures /\ objects \in [Object -> ObjectState]
      /\ pending \subseteq Object /\ MaxFailures \in Nat
  BY LogAssumption DEF LInv, TypeOK
<1>3. objects' \in [Object -> ObjectState]
  <2>1. CASE PutObject(o)
    <3>1. objects' = [objects EXCEPT ![o] = "durable"] \/
          objects' = [objects EXCEPT ![o] = "cached"] \/ objects' = objects
      BY <2>1 DEF PutObject
    <3> QED
      BY <1>2, <3>1 DEF ObjectState
  <2>2. CASE PutFails(o)
    <3>1. objects' = [objects EXCEPT ![o] = "cached"]
      BY <2>2 DEF PutFails
    <3> QED
      BY <1>2, <3>1 DEF ObjectState
  <2> QED
    BY <2>1, <2>2
<1>4. failures' \in 0..MaxFailures /\ (failures' = 0 => failures = 0)
  <2>1. failures' = failures \/ (failures < MaxFailures /\ failures' = failures + 1)
    BY DEF PutObject, PutFails, counters
  <2> QED
    BY <1>2, <2>1
<1>5. pending' \subseteq Object
  BY <1>1, <1>2
<1>6. TypeOK'
  BY <1>1, <1>3, <1>4, <1>5 DEF LInv, TypeOK
<1>7. IssuedFirst'
  BY <1>1 DEF LInv, IssuedFirst
<1>8. ClosedIsEmpty'
  BY <1>1 DEF ClosedIsEmpty
<1>9. FileFollowsMemory'
  BY <1>1, <1>4 DEF LInv, FileFollowsMemory
<1>10. AckedOnDisk'
  BY <1>1 DEF LInv, AckedOnDisk, OnDisk
<1> QED
  BY <1>6, <1>7, <1>8, <1>9, <1>10 DEF LInv

\* The power fails: what was synced stays.
LEMMA PowerLossKeeps ==
  ASSUME LInv, NEW n \in 0..MaxQueued, NEW lost \in SUBSET Object, PowerLoss(n, lost)
  PROVE  LInv'
<1>1. /\ file \in Seq(Token) /\ synced \in 0..Len(file) /\ Len(file) \in Nat
      /\ SeqsUpTo(file, issued) /\ objects \in [Object -> ObjectState]
      /\ stops \in 0..MaxStops /\ MaxStops \in Nat /\ issued \in 0..MaxRevisions
  BY LogAssumption DEF LInv, TypeOK, IssuedFirst
<1>2. /\ stops < MaxStops /\ stops' = stops + 1 /\ serving' = FALSE /\ memory' = <<>>
      /\ buffer' = <<>> /\ pending' = {} /\ acked' = acked /\ failures' = failures
      /\ issued' = issued /\ n \in synced..Len(file)
      /\ file' = Prefix(file, n) /\ synced' = n
      /\ objects' = [o \in Object |-> IF o \in lost THEN "absent"
                                        ELSE IF objects[o] = "cached" THEN "durable"
                                        ELSE objects[o]]
  BY DEF PowerLoss, Stops, RequestEnds
<1>3. n \in 0..Len(file) /\ synced <= n /\ n \in Nat
  BY <1>1, <1>2
<1>4. file' \in Seq(Token) /\ Len(file') = n /\ \A i \in 1..n : file'[i] = file[i]
  BY <1>1, <1>2, <1>3, PrefixSuffix
<1>5. TypeOK'
  <2>1. stops' \in 0..MaxStops /\ synced' \in 0..Len(file')
    BY <1>1, <1>2, <1>3, <1>4
  <2>2. memory' \in Seq(Revision) /\ buffer' \in Seq(Token)
    <3>1. <<>> \in Seq(Revision) /\ <<>> \in Seq(Token)
      OBVIOUS
    <3> QED
      BY <1>2, <3>1
  <2>3. serving' \in BOOLEAN /\ pending' \subseteq Object
    BY <1>2
  <2>4. objects' \in [Object -> ObjectState]
    BY <1>1, <1>2 DEF ObjectState
  <2>5. acked' \in Seq(Revision) /\ failures' \in 0..MaxFailures /\ issued' \in 0..MaxRevisions
    BY <1>2 DEF LInv, TypeOK
  <2> QED
    BY <1>4, <2>1, <2>2, <2>3, <2>4, <2>5 DEF TypeOK
<1>6. IssuedFirst'
  <2>1. SeqsUpTo(file', issued)
    BY <1>1, <1>2, <1>3, SeqsOfParts
  <2>2. SeqsUpTo(<<>>, issued)
    BY DEF SeqsUpTo
  <2>3. \A i \in 1..Len(<<>>) : <<>>[i].seq <= issued
    OBVIOUS
  <2> QED
    BY <1>2, <2>1, <2>2, <2>3 DEF IssuedFirst
<1>7. ClosedIsEmpty'
  BY <1>2 DEF ClosedIsEmpty
<1>8. FileFollowsMemory'
  <2>1. failures = 0 => InOrder(file')
    BY <1>1, <1>2, <1>3, InOrderPrefix DEF LInv, FileFollowsMemory
  <2> QED
    BY <1>2, <2>1 DEF FileFollowsMemory
<1>9. AckedOnDisk'
  <2>1. ASSUME NEW i \in 1..Len(file), i < synced, file[i + 1] = Newline
        PROVE  /\ i < synced' /\ i < Len(file')
               /\ file'[i] = file[i] /\ file'[i + 1] = Newline
    <3>1. i < n /\ i \in 1..n /\ i + 1 \in 1..n
      BY <1>1, <1>3, <2>1
    <3> QED
      BY <1>2, <1>4, <2>1, <3>1
  <2>2. Len(file') \in Nat /\ synced' \in Nat
    BY <1>2, <1>3, <1>4
  <2>3. \A r \in Revision : OnDisk(r) => OnDisk(r)'
    BY <2>1, <2>2, OnDiskKept DEF LInv
  <2> QED
    BY <1>2, <2>3, AckedStay DEF LInv
<1> QED
  BY <1>5, <1>6, <1>7, <1>8, <1>9 DEF LInv

\* The store is opened.
LEMMA OpenKeeps ==
  ASSUME LInv, Open
  PROVE  LInv'
<1> DEFINE tokens == RecoveredTail(file)
<1>1. /\ file \in Seq(Token) /\ synced \in 0..Len(file) /\ Len(file) \in Nat
      /\ SeqsUpTo(file, issued) /\ SeqsUpTo(buffer, issued) /\ issued \in 0..MaxRevisions
  BY DEF LInv, TypeOK, IssuedFirst
<1>2. /\ ~ serving /\ file' = tokens
      /\ synced' = (IF tokens = file THEN synced ELSE Len(tokens))
      /\ serving' = Readable(tokens)
      /\ memory' = (IF Readable(tokens) THEN RevisionsIn(tokens) ELSE <<>>)
      /\ buffer' = buffer /\ pending' = pending /\ objects' = objects /\ acked' = acked
      /\ issued' = issued /\ failures' = failures /\ stops' = stops
  BY DEF Open, counters
<1>3. /\ tokens \in Seq(Token)
      /\ \A i \in 1..Len(tokens) :
           \/ tokens[i] = Newline
           \/ i \in 1..Len(file) /\ tokens[i] = file[i]
      /\ \A i \in 1..Len(file) :
           i < Len(file) /\ file[i + 1] = Newline =>
             i < Len(tokens) /\ tokens[i] = file[i] /\ tokens[i + 1] = Newline
  BY <1>1, RecoveryKeepsLines
<1>4. Readable(tokens) \in BOOLEAN
  BY DEF Readable
<1>5. /\ InOrder(file) =>
           InOrder(tokens) /\ WholeLines(tokens)
      /\ InOrder(file) => RevisionsIn(tokens) = RevisionsIn(file)
  BY <1>1, RecoverInOrder
<1> HIDE DEF tokens
<1>6. Len(tokens) \in Nat /\ Len(tokens) \in 0..Len(tokens)
  BY <1>3
<1>7. RevisionsIn(tokens) \in Seq(Revision)
  BY <1>3, <1>6, RevisionsOfPrefix
<1>8. memory' \in Seq(Revision)
  <2>1. <<>> \in Seq(Revision)
    OBVIOUS
  <2> QED
    BY <1>2, <1>7, <2>1
<1>9. TypeOK'
  <2>1. synced' \in 0..Len(file')
    BY <1>1, <1>2, <1>6
  <2>2. file' \in Seq(Token) /\ serving' \in BOOLEAN
    BY <1>2, <1>3, <1>4
  <2> QED
    BY <1>2, <1>8, <2>1, <2>2 DEF LInv, TypeOK
<1>10. SeqsUpTo(tokens, issued)
  <2>1. ASSUME NEW i \in 1..Len(tokens), tokens[i] # Newline
        PROVE  tokens[i].rev.seq <= issued
    <3>1. i \in 1..Len(file) /\ tokens[i] = file[i]
      BY <1>3, <2>1
    <3> QED
      BY <1>1, <2>1, <3>1 DEF SeqsUpTo
  <2> QED
    BY <2>1 DEF SeqsUpTo
<1>11. IssuedFirst'
  <2>1. ASSUME NEW j \in 1..Len(memory')
        PROVE  memory'[j].seq <= issued
    <3>1. CASE Readable(tokens)
      <4>1. memory' = RevisionsIn(tokens)
        BY <1>2, <3>1
      <4>2. PICK i \in 1..Len(tokens) :
              tokens[i].part = "rest" /\ RevisionsIn(tokens)[j] = tokens[i].rev
        BY <1>3, <4>1, RevisionsFound
      <4>3. tokens[i] # Newline
        BY <4>2, TokenKinds
      <4> QED
        BY <1>10, <4>1, <4>2, <4>3 DEF SeqsUpTo
    <3>2. CASE ~ Readable(tokens)
      <4>1. memory' = <<>>
        BY <1>2, <3>2
      <4> QED
        BY <4>1
    <3> QED
      BY <3>1, <3>2
  <2> QED
    BY <1>1, <1>2, <1>10, <2>1 DEF IssuedFirst
<1>12. ClosedIsEmpty'
  BY <1>2 DEF LInv, ClosedIsEmpty
<1>13. FileFollowsMemory'
  <2>1. ASSUME failures = 0
        PROVE  /\ buffer' = <<>>
               /\ InOrder(file')
               /\ memory' = RevisionsIn(file') /\ WholeLines(file')
    <3>1. buffer = <<>> /\ InOrder(file)
      BY <2>1 DEF LInv, FileFollowsMemory
    <3>2. InOrder(tokens) /\ WholeLines(tokens)
      BY <1>5, <3>1
    <3>3. Readable(tokens)
      BY <1>3, <3>2, ReadableInOrder
    <3> QED
      BY <1>2, <3>1, <3>2, <3>3
  <2> QED
    BY <1>2, <2>1 DEF FileFollowsMemory
<1>14. AckedOnDisk'
  <2>1. ASSUME NEW i \in 1..Len(file), i < synced, file[i + 1] = Newline
        PROVE  /\ i < synced' /\ i < Len(file')
               /\ file'[i] = file[i] /\ file'[i + 1] = Newline
    <3>1. i < Len(file)
      BY <1>1, <2>1
    <3>2. i < Len(tokens) /\ tokens[i] = file[i] /\ tokens[i + 1] = Newline
      BY <1>3, <2>1, <3>1
    <3>3. i < synced'
      BY <1>2, <2>1, <3>2
    <3> QED
      BY <1>2, <2>1, <3>2, <3>3
  <2>2. Len(file') \in Nat /\ synced' \in Nat
    BY <1>1, <1>2, <1>6
  <2>3. \A r \in Revision : OnDisk(r) => OnDisk(r)'
    BY <2>1, <2>2, OnDiskKept DEF LInv
  <2> QED
    BY <1>2, <2>3, AckedStay DEF LInv
<1> QED
  BY <1>9, <1>11, <1>12, <1>13, <1>14 DEF LInv

-----------------------------------------------------------------------------
(* The theorems.                                                            *)

\* A new store satisfies the invariant.
LEMMA LInvInit ==
  ASSUME Init
  PROVE  LInv
<1>1. /\ file = <<>> /\ synced = 0 /\ buffer = <<>> /\ serving = FALSE /\ memory = <<>>
      /\ pending = {} /\ objects = [o \in Object |-> "absent"] /\ acked = <<>>
      /\ issued = 0 /\ failures = 0 /\ stops = 0
  BY DEF Init
<1>2. /\ <<>> \in Seq(Token) /\ <<>> \in Seq(Revision) /\ Len(<<>>) = 0
      /\ \A i \in 1..Len(<<>>) : FALSE
  OBVIOUS
<1>3. TypeOK
  <2>1. synced \in 0..Len(file) /\ issued \in 0..MaxRevisions
        /\ failures \in 0..MaxFailures /\ stops \in 0..MaxStops
    BY <1>1, LogAssumption
  <2> QED
    BY <1>1, <1>2, <2>1 DEF TypeOK, ObjectState
<1>4. IssuedFirst
  BY <1>1, <1>2 DEF IssuedFirst, SeqsUpTo
<1>5. ClosedIsEmpty
  BY <1>1 DEF ClosedIsEmpty
<1>6. FileFollowsMemory
  <2>1. InOrder(<<>>)
    <3>1. ASSUME NEW q \in 0..Len(<<>>), 3 * q + 1 <= Len(<<>>)
          PROVE  FALSE
      BY <1>2, <3>1
    <3> QED
      BY <3>1 DEF InOrder
  <2> QED
    BY <1>1, <2>1 DEF FileFollowsMemory
<1>7. AckedOnDisk
  BY <1>1, <1>2 DEF AckedOnDisk
<1> QED
  BY <1>3, <1>4, <1>5, <1>6, <1>7 DEF LInv

\* Every step keeps it.
LEMMA LInvNext ==
  ASSUME LInv, [Next]_vars
  PROVE  LInv'
<1>1. CASE Next
  <2>1. CASE \E o \in Object \cup {NoObject} :
               \/ Commit(o)
               \/ SyncFails(o)
               \/ \E n \in 0..MaxQueued : FlushFails(o, n)
               \/ \E n \in 0..MaxQueued : WriteThroughFails(o, n) \/ FlushBeforeFails(o, n)
               \/ \E n \in 0..MaxQueued : ExitInCommit(o, n)
    BY <2>1, CommitKeeps, SyncFailsKeeps, FlushFailsKeeps, WriteThroughFailsKeeps,
       FlushBeforeFailsKeeps, ExitInCommitKeeps
  <2>2. CASE \E o \in Object : PutObject(o) \/ PutFails(o) \/ ExitInPut(o)
    BY <2>2, PutKeeps, ExitInPutKeeps
  <2>3. CASE \E n \in 0..MaxQueued : Exit(n)
    BY <2>3, ExitKeeps
  <2>4. CASE \E n \in 0..MaxQueued, lost \in SUBSET Object : PowerLoss(n, lost)
    BY <2>4, PowerLossKeeps
  <2>5. CASE Open
    BY <2>5, OpenKeeps
  <2> QED
    BY <1>1, <2>1, <2>2, <2>3, <2>4, <2>5 DEF Next
<1>2. CASE UNCHANGED vars
  <2>1. /\ file' = file /\ synced' = synced /\ buffer' = buffer /\ serving' = serving
        /\ memory' = memory /\ pending' = pending /\ objects' = objects /\ acked' = acked
        /\ issued' = issued /\ failures' = failures /\ stops' = stops
    BY <1>2 DEF vars
  <2> QED
    BY <2>1 DEF LInv, TypeOK, IssuedFirst, ClosedIsEmpty, FileFollowsMemory, AckedOnDisk, OnDisk
<1> QED
  BY <1>1, <1>2

\* Through failed writes, crashes, power losses and recoveries, for any number of
\* revisions, the file, the buffer and the memory stay as LInv says.
THEOREM Invariance == Spec => []LInv
<1>1. Init => LInv
  BY LInvInit
<1>2. LInv /\ [Next]_vars => LInv'
  BY LInvNext
<1> QED
  BY <1>1, <1>2, PTL DEF Spec

\* Every variable of the log keeps its type.
THEOREM TypeCorrect == Spec => []TypeOK
<1>1. LInv => TypeOK
  BY DEF LInv
<1> QED
  BY <1>1, Invariance, PTL

\* The seqs of the applied revisions increase without a gap, as long as no write or sync
\* has failed.
THEOREM NoGaps == Spec => []SeqsIncrease
<1>1. LInv => SeqsIncrease
  <2>1. ASSUME LInv, failures = 0, NEW i \in 1..Len(memory)
        PROVE  memory[i].seq = i
    <3>1. CASE serving
      <4>1. memory = RevisionsIn(file) /\ InOrder(file) /\ file \in Seq(Token)
        BY <2>1, <3>1 DEF LInv, FileFollowsMemory, TypeOK
      <4>2. Len(file) \in 0..Len(file)
        BY <4>1
      <4>3. PICK c \in Nat :
              /\ Len(RevisionsInFirst(file, Len(file))) = c
              /\ \A k \in 1..c : RevisionsInFirst(file, Len(file))[k].seq = k
        BY <4>1, <4>2, SeqsInOrder
      <4> QED
        BY <4>1, <4>3 DEF RevisionsIn
    <3>2. CASE ~ serving
      <4>1. memory = <<>>
        BY <2>1, <3>2 DEF LInv, ClosedIsEmpty
      <4> QED
        BY <4>1
    <3> QED
      BY <3>1, <3>2
  <2> QED
    BY <2>1 DEF SeqsIncrease
<1> QED
  BY <1>1, Invariance, PTL

\* With fsync, whatever writes fail and whenever the process or the power stops, the
\* synced part of the file holds every acknowledged revision behind its recovery: a store
\* that can be opened has forgotten none.
THEOREM NoneForgotten ==
  ASSUME Fsync = TRUE
  PROVE  Spec => []AckedOrClosed
<1>1. LInv => AckedOrClosed
  <2> SUFFICES ASSUME LInv
               PROVE  \A a \in 1..Len(acked) : Holds(RevisionsIn(WorstCase), acked[a])
    BY DEF AckedOrClosed
  <2> DEFINE disked == Prefix(file, synced)
  <2>1. /\ file \in Seq(Token) /\ synced \in 0..Len(file) /\ acked \in Seq(Revision)
        /\ Len(file) \in Nat
    BY DEF LInv, TypeOK
  <2>2. disked \in Seq(Token) /\ Len(disked) = synced /\ \A i \in 1..synced : disked[i] = file[i]
    BY <2>1, PrefixSuffix
  <2> HIDE DEF disked
  <2> DEFINE tokens == RecoveredTail(disked)
  <2>3. /\ tokens \in Seq(Token)
        /\ \A i \in 1..Len(disked) :
             i < Len(disked) /\ disked[i + 1] = Newline =>
               i < Len(tokens) /\ tokens[i] = disked[i] /\ tokens[i + 1] = Newline
    BY <2>2, RecoveryKeepsLines
  <2> HIDE DEF tokens
  <2>4. ASSUME NEW a \in 1..Len(acked)
        PROVE  Holds(RevisionsIn(tokens), acked[a])
    <3>1. PICK i \in 1..Len(file) :
            i < synced /\ file[i] = RestOf(acked[a]) /\ file[i + 1] = Newline
      BY DEF LInv, AckedOnDisk, OnDisk
    <3>2. i \in 1..synced /\ i + 1 \in 1..synced
      BY <2>1, <3>1
    <3>3. i < Len(tokens) /\ tokens[i] = RestOf(acked[a])
      BY <2>2, <2>3, <3>1, <3>2
    <3>4. acked[a] \in Revision
      BY <2>1
    <3>5. tokens[i].part = "rest" /\ tokens[i].rev = acked[a]
      BY <3>3, <3>4, TokenKinds
    <3>6. i \in 1..Len(tokens)
      BY <2>3, <3>3
    <3> QED
      BY <2>3, <3>5, <3>6, RevisionsFound
  <2> QED
    BY <2>4 DEF WorstCase, tokens, disked
<1> QED
  BY <1>1, Invariance, PTL

-----------------------------------------------------------------------------
(* The log implements the promise of DurableLog.                            *)

Committed == RevisionsIn(Prefix(file, synced))

Doubtful == RevisionsIn(Suffix(file, synced))

\* The committed revisions and then the doubtful ones are those of the file.
LEMMA PartsOfFile ==
  ASSUME LInv
  PROVE  /\ file \in Seq(Token) /\ synced \in 0..Len(file) /\ Len(file) \in Nat
         /\ Prefix(file, synced) \in Seq(Token) /\ Suffix(file, synced) \in Seq(Token)
         /\ Committed \in Seq(Revision) /\ Doubtful \in Seq(Revision)
         /\ RevisionsIn(file) = Committed \o Doubtful
<1>1. file \in Seq(Token) /\ synced \in 0..Len(file) /\ Len(file) \in Nat
  BY DEF LInv, TypeOK
<1> DEFINE a == Prefix(file, synced)
           z == Suffix(file, synced)
<1>2. a \in Seq(Token) /\ z \in Seq(Token) /\ file = a \o z
  BY <1>1, PrefixSuffix
<1> HIDE DEF a, z
<1>3. RevisionsIn(a \o z) = RevisionsIn(a) \o RevisionsIn(z)
  BY <1>2, RevisionsConcat
<1>4. Len(a) \in 0..Len(a) /\ Len(z) \in 0..Len(z)
  BY <1>2
<1>5. RevisionsIn(a) \in Seq(Revision) /\ RevisionsIn(z) \in Seq(Revision)
  BY <1>2, <1>4, RevisionsOfPrefix
<1>6. RevisionsIn(file) = RevisionsIn(a) \o RevisionsIn(z)
  BY <1>2, <1>3
<1> QED
  BY <1>1, <1>2, <1>5, <1>6 DEF a, z, Committed, Doubtful

\* What is written behind the synced part is doubtful.
LEMMA PartsAppended ==
  ASSUME LInv, NEW add \in Seq(Token), file' = file \o add, synced' = synced
  PROVE  Committed' = Committed /\ Doubtful' = Doubtful \o RevisionsIn(add)
<1> DEFINE n == Len(file)
           all == file \o add
           z == Suffix(file, synced)
<1>1. /\ file \in Seq(Token) /\ synced \in 0..n /\ n \in Nat
      /\ z \in Seq(Token) /\ Prefix(file, synced) \in Seq(Token)
  BY PartsOfFile
<1>2. /\ all \in Seq(Token) /\ Len(all) = n + Len(add) /\ Len(add) \in Nat
      /\ \A i \in 1..(n + Len(add)) : all[i] = IF i <= n THEN file[i] ELSE add[i - n]
  BY <1>1, ConcatProperties
<1> HIDE DEF all
<1>3. synced \in 0..Len(all) /\ synced \in Nat
  BY <1>1, <1>2
<1>4. Prefix(all, synced) = Prefix(file, synced)
  <2> DEFINE p == Prefix(file, synced)
             q == Prefix(all, synced)
  <2>1. p \in Seq(Token) /\ Len(p) = synced /\ \A i \in 1..synced : p[i] = file[i]
    BY <1>1, PrefixSuffix
  <2>2. q \in Seq(Token) /\ Len(q) = synced /\ \A i \in 1..synced : q[i] = all[i]
    BY <1>2, <1>3, PrefixSuffix
  <2> HIDE DEF p, q
  <2>3. \A i \in 1..synced : all[i] = file[i]
    BY <1>1, <1>2
  <2>4. \A i \in 1..Len(p) : p[i] = q[i]
    BY <2>1, <2>2, <2>3
  <2>5. p = q
    BY <2>1, <2>2, <2>4, SeqEqual
  <2> QED
    BY <2>5 DEF p, q
<1>5. Suffix(all, synced) = z \o add
  <2> DEFINE p == Suffix(all, synced)
             q == z \o add
  <2>1. Len(z) = n - synced /\ \A i \in 1..(n - synced) : z[i] = file[synced + i]
    BY <1>1, PrefixSuffix
  <2>2. /\ p \in Seq(Token) /\ Len(p) = Len(all) - synced
        /\ \A i \in 1..(Len(all) - synced) : p[i] = all[synced + i]
    BY <1>2, <1>3, PrefixSuffix
  <2>3. /\ q \in Seq(Token) /\ Len(q) = Len(z) + Len(add)
        /\ \A i \in 1..(Len(z) + Len(add)) : q[i] = IF i <= Len(z) THEN z[i] ELSE add[i - Len(z)]
    BY <1>1, ConcatProperties
  <2> HIDE DEF p, q, z
  <2>4. Len(p) = Len(q)
    BY <1>1, <1>2, <1>3, <2>1, <2>2, <2>3
  <2>5. ASSUME NEW i \in 1..Len(p)
        PROVE  p[i] = q[i]
    <3>1. synced + i \in 1..(n + Len(add)) /\ i \in 1..(Len(z) + Len(add))
      BY <1>1, <1>2, <1>3, <2>1, <2>2
    <3>2. p[i] = all[synced + i]
      BY <2>2
    <3>3. CASE i <= Len(z)
      <4>1. synced + i <= n /\ i \in 1..(n - synced)
        BY <1>1, <1>3, <2>1, <3>3
      <4>2. all[synced + i] = file[synced + i]
        BY <1>2, <3>1, <4>1
      <4>3. q[i] = z[i]
        BY <2>3, <3>1, <3>3
      <4> QED
        BY <2>1, <3>2, <4>1, <4>2, <4>3
    <3>4. CASE ~ (i <= Len(z))
      <4>1. ~ (synced + i <= n) /\ (synced + i) - n = i - Len(z)
        BY <1>1, <1>3, <2>1, <3>4
      <4>2. all[synced + i] = add[(synced + i) - n]
        BY <1>2, <3>1, <4>1
      <4>3. q[i] = add[i - Len(z)]
        BY <2>3, <3>1, <3>4
      <4> QED
        BY <3>2, <4>1, <4>2, <4>3
    <3> QED
      BY <3>3, <3>4
  <2>6. p = q
    BY <2>2, <2>3, <2>4, <2>5, SeqEqual
  <2> QED
    BY <2>6 DEF p, q
<1>6. RevisionsIn(z \o add) = RevisionsIn(z) \o RevisionsIn(add)
  BY <1>1, RevisionsConcat
<1> HIDE DEF z
<1>7. file' = all /\ synced' = synced
  BY DEF all
<1>8. Committed' = RevisionsIn(Prefix(file, synced))
  BY <1>4, <1>7 DEF Committed
<1>9. Doubtful' = RevisionsIn(z) \o RevisionsIn(add)
  BY <1>5, <1>6, <1>7 DEF Doubtful
<1> QED
  BY <1>8, <1>9 DEF Committed, Doubtful, z

\* When the whole file is synced, nothing is doubtful.
LEMMA AllCommitted ==
  ASSUME LInv, LInv', synced' = Len(file')
  PROVE  Committed' = RevisionsIn(file') /\ Doubtful' = <<>>
<1> DEFINE f == file'
<1>1. f \in Seq(Token)
  BY DEF LInv, TypeOK
<1> HIDE DEF f
<1>2. Prefix(f, Len(f)) = f
  BY <1>1, SubSeqFull DEF Prefix
<1>3. Suffix(f, Len(f)) = <<>>
  <2>1. Len(f) + 1 \in Int /\ Len(f) \in Int /\ Len(f) < Len(f) + 1
    BY <1>1
  <2> QED
    BY <2>1, SubSeqEmpty DEF Suffix
<1>4. Committed' = RevisionsIn(f)
  BY <1>2 DEF Committed, f
<1>5. Doubtful' = <<>>
  BY <1>3, RevisionsOfNothing DEF Doubtful, f
<1> QED
  BY <1>4, <1>5 DEF f

\* A store that goes down with its file kept is the abstract store going down.
LEMMA StopKeepsAll ==
  ASSUME LInv, Stops, Committed' = Committed, Doubtful' = Doubtful
  PROVE  Durable!Next
<1>1. Doubtful \in Seq(Revision) /\ Committed \in Seq(Revision) /\ Len(Doubtful) \in Nat
  BY PartsOfFile
<1> DEFINE n == Len(Doubtful)
<1>2. SubSeq(Doubtful, 1, 0) = <<>> /\ SubSeq(Doubtful, 0 + 1, n) = Doubtful
  <2>1. SubSeq(Doubtful, 1, 0) = <<>>
    BY SubSeqEmpty
  <2>2. SubSeq(Doubtful, 1, n) = Doubtful
    BY <1>1, SubSeqFull
  <2> QED
    BY <2>1, <2>2
<1>3. Committed \o <<>> = Committed
  BY <1>1, ConcatEmptySeq
<1>4. serving' = FALSE /\ memory' = <<>>
  BY DEF Stops
<1>5. Durable!Stop(0, n)
  BY <1>2, <1>3, <1>4 DEF Durable!Stop, Durable!GoesDown, Committed, Doubtful
<1>6. n \in 0..n /\ 0 \in 0..n
  BY <1>1
<1>7. \E k \in 0..Len(Doubtful) : \E m \in 0..k : Durable!Stop(m, k)
  BY <1>5, <1>6
<1> QED
  BY <1>7 DEF Durable!Next, Doubtful

\* An acknowledged commit is one of the abstract store.
LEMMA CommitPromised ==
  ASSUME LInv, LInv', Fsync = TRUE, failures = 0, NEW o \in Object \cup {NoObject}, Commit(o)
  PROVE  Durable!Next
<1> DEFINE r == TheRevision(o)
<1>1. r \in Revision /\ Line(r) \in Seq(Token)
  BY TheRevisionIs DEF Commit
<1>2. /\ file \in Seq(Token) /\ Committed \in Seq(Revision) /\ Doubtful \in Seq(Revision)
      /\ RevisionsIn(file) = Committed \o Doubtful
  BY PartsOfFile
<1>3. buffer = <<>>
  BY DEF LInv, FileFollowsMemory
<1>4. /\ serving /\ serving' = serving /\ memory' = Append(memory, r)
      /\ synced' = Len(file') /\ file' = (file \o buffer) \o Line(r)
  BY DEF Commit, NewRevision, SyncedLength, r
<1> HIDE DEF r
<1>5. file' = file \o Line(r)
  BY <1>2, <1>3, <1>4, ConcatEmptySeq
<1>6. RevisionsIn(file') = RevisionsIn(file) \o <<r>>
  <2>1. RevisionsIn(file \o Line(r)) = RevisionsIn(file) \o RevisionsIn(Line(r))
    BY <1>1, <1>2, RevisionsConcat
  <2>2. RevisionsIn(Line(r)) = <<r>>
    <3>1. 3 \in 0..3
      OBVIOUS
    <3> QED
      BY <1>1, <3>1, RevisionsOfLine
  <2> QED
    BY <1>5, <2>1, <2>2
<1>7. Committed' = (Committed \o Doubtful) \o <<r>> /\ Doubtful' = <<>>
  BY <1>2, <1>4, <1>6, AllCommitted
<1>8. Durable!Commit(r)
  BY <1>4, <1>7 DEF Durable!Commit, Committed, Doubtful
<1> QED
  BY <1>1, <1>8 DEF Durable!Next

\* A process that is killed inside a commit leaves at most one more doubtful revision.
LEMMA ExitInCommitPromised ==
  ASSUME LInv, failures = 0, NEW o \in Object \cup {NoObject}, NEW n \in 0..MaxQueued,
         ExitInCommit(o, n)
  PROVE  Durable!Next
<1> DEFINE r == TheRevision(o)
           queued == buffer \o Line(r)
           add == Prefix(Line(r), n)
<1>1. /\ NewRevision(o) /\ Stops /\ n <= Len(queued) /\ synced' = synced
      /\ file' = file \o Prefix(queued, n)
  BY DEF ExitInCommit
<1>2. queued \in Seq(Token) /\ Len(queued) = Len(buffer) + 3 /\ buffer \in Seq(Token)
  BY <1>1, QueuedIs
<1>3. r \in Revision /\ Line(r) \in Seq(Token) /\ Len(Line(r)) = 3
  BY <1>1, TheRevisionIs
<1>4. n \in 0..(Len(buffer) + 3)
  <2>1. n \in Nat /\ Len(buffer) \in Nat
    BY <1>2
  <2> HIDE DEF queued
  <2> QED
    BY <1>1, <1>2, <2>1
<1>5. queued = Line(r) /\ n \in 0..3
  BY <1>1, <1>4, CutCommit
<1>6. file' = file \o add
  BY <1>1, <1>5
<1> HIDE DEF r, queued
<1>7. add \in Seq(Token)
  BY <1>3, <1>5, PrefixSuffix
<1> HIDE DEF add
<1>8. Committed' = Committed /\ Doubtful' = Doubtful \o RevisionsIn(add)
  BY <1>1, <1>6, <1>7, PartsAppended
<1>9. /\ n < 2 => RevisionsIn(add) = <<>>
      /\ n >= 2 => RevisionsIn(add) = <<r>>
  BY <1>3, <1>5, RevisionsOfLine DEF add
<1>10. Doubtful \in Seq(Revision)
  BY PartsOfFile
<1>11. n < 2 \/ n >= 2
  BY <1>5
<1>12. CASE n < 2
  <2>1. Doubtful' = Doubtful
    BY <1>8, <1>9, <1>10, <1>12, ConcatEmptySeq
  <2> QED
    BY <1>1, <1>8, <2>1, StopKeepsAll
<1>13. CASE n >= 2
  <2>1. Doubtful' = Append(Doubtful, r)
    BY <1>3, <1>8, <1>9, <1>10, <1>13, AppendIsConcat
  <2>2. serving /\ serving' = FALSE /\ memory' = <<>>
    BY <1>1 DEF Stops, NewRevision
  <2>3. Durable!StopInCommit(r)
    BY <1>8, <2>1, <2>2 DEF Durable!StopInCommit, Durable!GoesDown, Committed, Doubtful
  <2> QED
    BY <1>3, <2>3 DEF Durable!Next
<1> QED
  BY <1>11, <1>12, <1>13

\* A power loss keeps some of the doubtful revisions, and these for good.
LEMMA PowerLossPromised ==
  ASSUME LInv, LInv', NEW n \in 0..MaxQueued, NEW lost \in SUBSET Object, PowerLoss(n, lost)
  PROVE  Durable!Next
<1> DEFINE l == Len(file)
           z == Suffix(file, synced)
           k == n - synced
           a == Prefix(z, k)
           b == Suffix(z, k)
<1>1. /\ file \in Seq(Token) /\ synced \in 0..l /\ l \in Nat
      /\ z \in Seq(Token) /\ Doubtful \in Seq(Revision) /\ Committed \in Seq(Revision)
  BY PartsOfFile
<1>2. Stops /\ n \in synced..l /\ file' = Prefix(file, n) /\ synced' = n
  BY DEF PowerLoss
<1>3. /\ Len(z) = l - synced /\ \A i \in 1..(l - synced) : z[i] = file[synced + i]
  BY <1>1, PrefixSuffix
<1>4. n \in Nat /\ n \in 0..l /\ k \in Nat /\ k \in 0..Len(z) /\ n = synced + k
  BY <1>1, <1>2, <1>3
<1> HIDE DEF z, k
<1>5. /\ a \in Seq(Token) /\ Len(a) = k /\ \A i \in 1..k : a[i] = z[i]
      /\ b \in Seq(Token) /\ z = a \o b
  BY <1>1, <1>4, PrefixSuffix
<1> HIDE DEF a, b
<1>6. Doubtful = RevisionsIn(a) \o RevisionsIn(b)
  <2>1. RevisionsIn(a \o b) = RevisionsIn(a) \o RevisionsIn(b)
    BY <1>5, RevisionsConcat
  <2>2. Doubtful = RevisionsIn(z)
    BY DEF Doubtful, z
  <2> QED
    BY <1>5, <2>1, <2>2
<1>7. RevisionsIn(a) \in Seq(Revision) /\ RevisionsIn(b) \in Seq(Revision)
  <2>1. Len(a) \in 0..Len(a) /\ Len(b) \in 0..Len(b)
    BY <1>5
  <2> QED
    BY <1>5, <2>1, RevisionsOfPrefix
<1>8. Prefix(file, n) = Prefix(file, synced) \o a
  <2> DEFINE p == Prefix(file, n)
             c == Prefix(file, synced)
             q == c \o a
  <2>1. p \in Seq(Token) /\ Len(p) = n /\ \A i \in 1..n : p[i] = file[i]
    BY <1>1, <1>4, PrefixSuffix
  <2>2. c \in Seq(Token) /\ Len(c) = synced /\ \A i \in 1..synced : c[i] = file[i]
    BY <1>1, PrefixSuffix
  <2> HIDE DEF p, c
  <2>3. /\ q \in Seq(Token) /\ Len(q) = Len(c) + Len(a)
        /\ \A i \in 1..(Len(c) + Len(a)) : q[i] = IF i <= Len(c) THEN c[i] ELSE a[i - Len(c)]
    BY <1>5, <2>2, ConcatProperties
  <2> HIDE DEF q
  <2>4. Len(q) = n
    BY <1>4, <1>5, <2>2, <2>3
  <2>5. ASSUME NEW i \in 1..n
        PROVE  q[i] = file[i]
    <3>1. i \in 1..(Len(c) + Len(a))
      BY <1>4, <1>5, <2>2
    <3>2. CASE i <= synced
      <4>1. i \in 1..synced /\ q[i] = c[i]
        BY <1>1, <2>2, <2>3, <3>1, <3>2
      <4> QED
        BY <2>2, <4>1
    <3>3. CASE ~ (i <= synced)
      <4>1. i - synced \in 1..k /\ synced + (i - synced) = i /\ i - synced \in 1..(l - synced)
        BY <1>1, <1>3, <1>4, <3>3
      <4>2. q[i] = a[i - synced]
        BY <2>2, <2>3, <3>1, <3>3
      <4>3. a[i - synced] = z[i - synced] /\ z[i - synced] = file[synced + (i - synced)]
        BY <1>3, <1>5, <4>1
      <4> QED
        BY <4>1, <4>2, <4>3
    <3> QED
      BY <3>2, <3>3
  <2>6. \A i \in 1..Len(p) : p[i] = q[i]
    BY <2>1, <2>5
  <2>7. p = q
    BY <2>1, <2>3, <2>4, <2>6, SeqEqual
  <2> QED
    BY <2>7 DEF p, q, c
<1>9. Committed' = Committed \o RevisionsIn(a) /\ Doubtful' = <<>>
  <2>1. Len(file') = n
    BY <1>1, <1>2, <1>4, PrefixSuffix
  <2>2. Committed' = RevisionsIn(file') /\ Doubtful' = <<>>
    BY <1>2, <2>1, AllCommitted
  <2>3. Prefix(file, synced) \in Seq(Token)
    BY <1>1, PrefixSuffix
  <2>4. RevisionsIn(Prefix(file, synced) \o a) = RevisionsIn(Prefix(file, synced)) \o RevisionsIn(a)
    BY <1>5, <2>3, RevisionsConcat
  <2> QED
    BY <1>2, <1>8, <2>2, <2>4 DEF Committed
<1> DEFINE m == Len(RevisionsIn(a))
<1>10. /\ m \in Nat /\ m <= Len(Doubtful) /\ Len(Doubtful) \in Nat
       /\ SubSeq(Doubtful, 1, m) = RevisionsIn(a)
       /\ SubSeq(Doubtful, m + 1, m) = <<>>
  <2> DEFINE u == RevisionsIn(a)
             v == RevisionsIn(b)
  <2> HIDE DEF u, v
  <2>1. u \in Seq(Revision) /\ v \in Seq(Revision) /\ Doubtful = u \o v
    BY <1>6, <1>7 DEF u, v
  <2>2. Len(u) \in Nat /\ Len(v) \in Nat /\ Len(Doubtful) = Len(u) + Len(v)
    BY <2>1, ConcatProperties
  <2>3. SubSeq(Doubtful, 1, Len(u)) = u
    <3>1. CASE Len(u) = 0
      <4>1. SubSeq(Doubtful, 1, 0) = <<>>
        BY SubSeqEmpty
      <4>2. u = <<>>
        BY <2>1, <3>1, EmptySeq
      <4> QED
        BY <3>1, <4>1, <4>2
    <3>2. CASE Len(u) # 0
      <4>1. 1 \in 1..Len(u) /\ Len(u) \in 1..Len(u)
        BY <2>2, <3>2
      <4>2. SubSeq(u \o v, 1, Len(u)) = SubSeq(u, 1, Len(u))
        BY <2>1, <4>1, SubSeqOfConcat1
      <4>3. SubSeq(u, 1, Len(u)) = u
        BY <2>1, SubSeqFull
      <4> QED
        BY <2>1, <4>2, <4>3
    <3> QED
      BY <3>1, <3>2
  <2>4. SubSeq(Doubtful, Len(u) + 1, Len(u)) = <<>>
    BY <2>2, SubSeqEmpty
  <2> QED
    BY <2>2, <2>3, <2>4 DEF u
<1> HIDE DEF m
<1>11. serving' = FALSE /\ memory' = <<>>
  BY <1>2 DEF Stops
<1>12. Durable!Stop(m, m)
  BY <1>9, <1>10, <1>11 DEF Durable!Stop, Durable!GoesDown, Committed, Doubtful
<1>13. m \in 0..Len(Doubtful) /\ m \in 0..m
  BY <1>10
<1>14. \E i \in 0..Len(Doubtful) : \E j \in 0..i : Durable!Stop(j, i)
  BY <1>12, <1>13
<1> QED
  BY <1>14 DEF Durable!Next, Doubtful

\* The store opens with all that the file holds.
LEMMA OpenPromised ==
  ASSUME LInv, LInv', failures = 0, Open
  PROVE  Durable!Next
<1> DEFINE tokens == RecoveredTail(file)
<1>1. /\ file \in Seq(Token) /\ RevisionsIn(file) = Committed \o Doubtful
  BY PartsOfFile
<1>2. /\ ~ serving /\ file' = tokens
      /\ synced' = (IF tokens = file THEN synced ELSE Len(tokens))
      /\ serving' = Readable(tokens)
      /\ memory' = (IF Readable(tokens) THEN RevisionsIn(tokens) ELSE <<>>)
  BY DEF Open
<1>3. InOrder(file)
  BY DEF LInv, FileFollowsMemory
<1>4. /\ InOrder(tokens) /\ WholeLines(tokens)
      /\ RevisionsIn(tokens) = RevisionsIn(file) /\ tokens \in Seq(Token)
  BY <1>1, <1>3, RecoverInOrder, RecoveryKeepsLines
<1> HIDE DEF tokens
<1>5. Readable(tokens)
  BY <1>4, ReadableInOrder
<1>6. serving' = TRUE /\ memory' = Committed \o Doubtful
  <2>1. Readable(tokens) = TRUE
    BY <1>5 DEF Readable
  <2>2. serving' = TRUE
    BY <1>2, <2>1
  <2>3. memory' = Committed \o Doubtful
    BY <1>1, <1>2, <1>4, <1>5
  <2> QED
    BY <2>2, <2>3
<1>7. CASE tokens = file
  <2>1. file' = file /\ synced' = synced
    BY <1>2, <1>7
  <2>2. Committed' = Committed /\ Doubtful' = Doubtful
    BY <2>1 DEF Committed, Doubtful
  <2>3. Durable!Open
    BY <1>2, <1>6, <2>2 DEF Durable!Open, Committed, Doubtful
  <2> QED
    BY <2>3 DEF Durable!Next
<1>8. CASE tokens # file
  <2>1. synced' = Len(file')
    BY <1>2, <1>8
  <2>2. Committed' = RevisionsIn(file') /\ Doubtful' = <<>>
    BY <2>1, AllCommitted
  <2>3. Committed' = Committed \o Doubtful
    BY <1>1, <1>2, <1>4, <2>2
  <2>4. Durable!Open
    BY <1>2, <1>6, <2>2, <2>3 DEF Durable!Open, Committed, Doubtful
  <2> QED
    BY <2>4 DEF Durable!Next
<1> QED
  BY <1>7, <1>8

\* Every step without failures is one that the promise allows.
LEMMA StepPromised ==
  ASSUME LInv, LInv', Fsync = TRUE, Next, ~ (failures' > 0)
  PROVE  Durable!Next \/ UNCHANGED Durable!vars
<1>1. failures \in Nat /\ failures' = 0
  <2>1. failures \in 0..MaxFailures /\ failures' \in 0..MaxFailures /\ MaxFailures \in Nat
    BY LogAssumption DEF LInv, TypeOK
  <2> QED
    BY <2>1
<1>2. \A o \in Object \cup {NoObject} : ~ (NewRevision(o) /\ Refused)
  BY <1>1 DEF Refused
<1>3. CASE \E o \in Object \cup {NoObject} : Commit(o)
  <2>1. PICK o \in Object \cup {NoObject} : Commit(o)
    BY <1>3
  <2>2. failures = 0
    BY <1>1, <2>1 DEF Commit, counters
  <2> QED
    BY <2>1, <2>2, CommitPromised
<1>4. CASE \E o \in Object \cup {NoObject} :
             \/ SyncFails(o)
             \/ \E n \in 0..MaxQueued : FlushFails(o, n)
             \/ \E n \in 0..MaxQueued : WriteThroughFails(o, n) \/ FlushBeforeFails(o, n)
  BY <1>2, <1>4 DEF SyncFails, FlushFails, WriteThroughFails, FlushBeforeFails
<1>5. CASE \E o \in Object \cup {NoObject} : \E n \in 0..MaxQueued : ExitInCommit(o, n)
  <2>1. PICK o \in Object \cup {NoObject}, n \in 0..MaxQueued : ExitInCommit(o, n)
    BY <1>5
  <2>2. failures = 0
    BY <1>1, <2>1 DEF ExitInCommit, Stops
  <2> QED
    BY <2>1, <2>2, ExitInCommitPromised
<1>6. CASE \E o \in Object : PutObject(o)
  <2>1. PICK o \in Object : PutObject(o)
    BY <1>6
  <2>2. file' = file /\ synced' = synced /\ serving' = serving /\ memory' = memory
    BY <2>1 DEF PutObject, disk
  <2> QED
    BY <2>2 DEF Durable!vars
<1>7. CASE \E o \in Object : PutFails(o)
  <2>1. PICK o \in Object : PutFails(o)
    BY <1>7
  <2>2. failures' = failures + 1
    BY <2>1 DEF PutFails
  <2> QED
    BY <1>1, <2>2
<1>8. CASE \E o \in Object : ExitInPut(o)
  <2>1. PICK o \in Object : ExitInPut(o)
    BY <1>8
  <2>2. file' = file /\ synced' = synced /\ Stops
    BY <2>1 DEF ExitInPut, disk
  <2>3. Committed' = Committed /\ Doubtful' = Doubtful
    BY <2>2 DEF Committed, Doubtful
  <2> QED
    BY <2>2, <2>3, StopKeepsAll
<1>9. CASE \E n \in 0..MaxQueued : Exit(n)
  <2>1. PICK n \in 0..MaxQueued : Exit(n)
    BY <1>9
  <2>2. /\ Stops /\ n <= Len(buffer) /\ file' = file \o Prefix(buffer, n)
        /\ synced' = synced /\ failures = 0
    BY <1>1, <2>1 DEF Exit, Stops
  <2>3. buffer = <<>> /\ file \in Seq(Token)
    BY <2>2 DEF LInv, FileFollowsMemory, TypeOK
  <2>4. Len(<<>>) = 0
    OBVIOUS
  <2>5. Len(buffer) = 0
    BY <2>3, <2>4, Zenon
  <2>6. n = 0
    BY <2>2, <2>5
  <2>7. Prefix(buffer, n) = <<>>
    BY <2>6, SubSeqEmpty DEF Prefix
  <2>8. file' = file
    BY <2>2, <2>3, <2>7, ConcatEmptySeq
  <2>9. Committed' = Committed /\ Doubtful' = Doubtful
    BY <2>2, <2>8 DEF Committed, Doubtful
  <2> QED
    BY <2>2, <2>9, StopKeepsAll
<1>10. CASE \E n \in 0..MaxQueued, lost \in SUBSET Object : PowerLoss(n, lost)
  BY <1>10, PowerLossPromised
<1>11. CASE Open
  <2>1. failures = 0
    BY <1>1, <1>11 DEF Open, counters
  <2> QED
    BY <1>11, <2>1, OpenPromised
<1> QED
  BY <1>3, <1>4, <1>5, <1>6, <1>7, <1>8, <1>9, <1>10, <1>11 DEF Next

\* With fsync, as long as no write or sync has failed, the log keeps the promise of
\* DurableLog: an acknowledged revision stays, in its place, and what the store shows is
\* what the file holds.
THEOREM PromiseKept ==
  ASSUME Fsync = TRUE
  PROVE  Spec => KeepsPromise
<1>1. Init => Durable!Init
  <2> SUFFICES ASSUME Init
               PROVE  Durable!Init
    OBVIOUS
  <2>1. file = <<>> /\ synced = 0 /\ serving = FALSE /\ memory = <<>>
    BY DEF Init
  <2>2. Prefix(<<>>, 0) = <<>> /\ Suffix(<<>>, 0) = <<>>
    BY SubSeqEmpty DEF Prefix, Suffix
  <2>3. Committed = <<>> /\ Doubtful = <<>>
    BY <2>1, <2>2, RevisionsOfNothing DEF Committed, Doubtful
  <2> QED
    BY <2>1, <2>3 DEF Durable!Init, Committed, Doubtful
<1>2. LInv /\ LInv' /\ [Next]_vars => [failures' > 0 \/ Durable!Next]_(Durable!vars)
  <2> SUFFICES ASSUME LInv, LInv', [Next]_vars, ~ (failures' > 0)
               PROVE  Durable!Next \/ UNCHANGED Durable!vars
    OBVIOUS
  <2>1. CASE Next
    BY <2>1, StepPromised
  <2>2. CASE UNCHANGED vars
    BY <2>2 DEF vars, Durable!vars
  <2> QED
    BY <2>1, <2>2
<1> QED
  BY <1>1, <1>2, Invariance, PTL DEF Spec, KeepsPromise
=============================================================================
