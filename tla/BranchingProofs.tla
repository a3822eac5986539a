-------------------------- MODULE BranchingProofs --------------------------
(***************************************************************************)
(* Proofs about Branching: type correctness, fork isolation, that only      *)
(* curators accept, that a new branch starts with the view of its parent,   *)
(* that a branch's chain is what the walk to main computes, that a branch    *)
(* sees one version of a claim, and that no version of what a replacement    *)
(* replaces stays live, for any branches, principals and bounds.            *)
(***************************************************************************)
EXTENDS Branching, Counting, SequenceTheorems

(***************************************************************************)
(* The shape every commit has.  list becomes the assertions: those that     *)
(* exist keep where they are, what they override and what they replace, and *)
(* change status only at the new revision and only if they belong to the    *)
(* branch r committed on; those that are added belong to r and to the new    *)
(* revision.                                                                *)
(***************************************************************************)
KeepsOld(list, r) ==
  \A a \in 1..Len(assertions) :
    /\ list[a].branch = assertions[a].branch
    /\ list[a].created = assertions[a].created
    /\ list[a].overrides = assertions[a].overrides
    /\ list[a].supersedes = assertions[a].supersedes
    /\ \A s \in 1..MaxSeq :
         list[a].history[s] = assertions[a].history[s]
           \/ (s >= NextSeq /\ assertions[a].branch = r)

AddsNew(list, r) ==
  \A a \in Len(assertions)+1..Len(list) :
    list[a].branch = r /\ list[a].created = NextSeq

\* What an assertion supersedes existed before the commit.
RefsIn(list) ==
  \A a \in 1..Len(list) : list[a].supersedes \in 0..Len(assertions)

CommitShape(list, r) ==
  /\ list \in Seq(AssertionRec)
  /\ Len(assertions) <= Len(list)
  /\ RefsIn(list)
  /\ KeepsOld(list, r)
  /\ AddsNew(list, r)

\* A chain starts at its branch; every other link is cut at a past revision.
ChainOK ==
  \A b \in DOMAIN chain :
    /\ Len(chain[b]) >= 1
    /\ chain[b][1].branch = b
    /\ \A i \in 2..Len(chain[b]) : chain[b][i].limit <= HeadSeq

RefsOK == RefsIn(assertions)

IInv == TypeOK /\ ChainOK /\ RefsOK

-----------------------------------------------------------------------------
(* The helpers that build a request's commands.                             *)

\* The record of a new assertion has the type of the entries.
LEMMA NewAssertionType ==
  ASSUME TypeOK, HeadSeq < MaxSeq,
         NEW p \in Actor, NEW b \in Branch, NEW st \in Status,
         NEW old \in 0..MaxAssertions
  PROVE  /\ NewAssertion(p, b, st, old) \in AssertionRec
         /\ NewAssertion(p, b, st, old).branch = b
         /\ NewAssertion(p, b, st, old).created = NextSeq
         /\ NewAssertion(p, b, st, old).supersedes = old
<1>1. Became(st, NeverWas) \in [1..MaxSeq -> Status \cup {Unborn}]
  BY DEF Became, NeverWas
<1>2. NextSeq \in 1..MaxSeq
  BY BranchingAssumption DEF NextSeq, HeadSeq, TypeOK
<1> QED
  BY <1>1, <1>2, BranchingAssumption DEF NewAssertion, AssertionRec, None

\* Adding an assertion to a list of the right shape keeps the shape.
LEMMA AppendShape ==
  ASSUME TypeOK, NEW r \in Branch, NEW list, CommitShape(list, r),
         NEW n \in AssertionRec, n.branch = r, n.created = NextSeq,
         n.supersedes \in 0..Len(assertions)
  PROVE  CommitShape(Append(list, n), r)
<1> DEFINE more == Append(list, n)
<1>1. /\ more \in Seq(AssertionRec)
      /\ Len(more) = Len(list) + 1
      /\ \A i \in 1..Len(list) : more[i] = list[i]
      /\ more[Len(list) + 1] = n
  BY DEF CommitShape
<1>2. Len(assertions) \in Nat /\ Len(list) \in Nat /\ Len(assertions) <= Len(list)
  BY DEF CommitShape, TypeOK
<1> HIDE DEF more
<1>3. KeepsOld(more, r)
  <2> SUFFICES ASSUME NEW a \in 1..Len(assertions)
               PROVE  more[a] = list[a]
    BY DEF CommitShape, KeepsOld
  <2> QED
    BY <1>1, <1>2
<1>4. AddsNew(more, r)
  <2> SUFFICES ASSUME NEW a \in Len(assertions)+1..Len(more)
               PROVE  more[a].branch = r /\ more[a].created = NextSeq
    BY DEF AddsNew
  <2>1. CASE a = Len(list) + 1
    BY <1>1, <2>1
  <2>2. CASE a \in Len(assertions)+1..Len(list)
    <3>1. more[a] = list[a]
      BY <1>1, <1>2, <2>2
    <3> QED
      BY <2>2, <3>1 DEF CommitShape, AddsNew
  <2> QED
    BY <1>1, <1>2, <2>1, <2>2
<1>6. RefsIn(more)
  BY <1>1, <1>2 DEF CommitShape, RefsIn
<1>5. CommitShape(more, r)
  BY <1>1, <1>2, <1>3, <1>4, <1>6 DEF CommitShape
<1> QED
  BY <1>5 DEF more

\* Replacing an element by one that differs in its other fields, or in its status
\* at the new revision when it belongs to r, keeps the shape.
LEMMA ExceptShape ==
  ASSUME TypeOK, NEW r \in Branch, NEW list, CommitShape(list, r),
         NEW k \in 1..Len(assertions), NEW e \in AssertionRec,
         e.branch = list[k].branch,
         e.created = list[k].created,
         e.overrides = list[k].overrides,
         e.supersedes = list[k].supersedes,
         \A s \in 1..MaxSeq : e.history[s] = list[k].history[s]
                                \/ (s >= NextSeq /\ assertions[k].branch = r)
  PROVE  CommitShape([list EXCEPT ![k] = e], r)
<1> DEFINE new == [list EXCEPT ![k] = e]
<1>2. /\ Len(assertions) \in Nat
      /\ Len(list) \in Nat
      /\ Len(assertions) <= Len(list)
      /\ k \in 1..Len(list)
  BY DEF CommitShape, TypeOK
<1>1. /\ new \in Seq(AssertionRec)
      /\ Len(new) = Len(list)
      /\ \A i \in 1..Len(list) : new[i] = IF i = k THEN e ELSE list[i]
  BY <1>2, ExceptSeq DEF CommitShape
<1> HIDE DEF new
<1>3. KeepsOld(new, r)
  <2> SUFFICES ASSUME NEW a \in 1..Len(assertions)
               PROVE  /\ new[a].branch = assertions[a].branch
                      /\ new[a].created = assertions[a].created
                      /\ new[a].overrides = assertions[a].overrides
                      /\ new[a].supersedes = assertions[a].supersedes
                      /\ \A s \in 1..MaxSeq :
                           new[a].history[s] = assertions[a].history[s]
                             \/ (s >= NextSeq /\ assertions[a].branch = r)
    BY DEF KeepsOld
  <2>1. new[a] = IF a = k THEN e ELSE list[a]
    BY <1>1, <1>2
  <2>2. CASE a = k
    BY <2>1, <2>2 DEF CommitShape, KeepsOld
  <2>3. CASE a # k
    BY <2>1, <2>3 DEF CommitShape, KeepsOld
  <2> QED
    BY <2>2, <2>3
<1>4. AddsNew(new, r)
  BY <1>1, <1>2 DEF CommitShape, AddsNew
<1>6. RefsIn(new)
  BY <1>1, <1>2 DEF CommitShape, RefsIn
<1>5. CommitShape(new, r)
  BY <1>1, <1>2, <1>3, <1>4, <1>6 DEF CommitShape
<1> QED
  BY <1>5 DEF new

\* A list has the shape of a list that differs from it in nothing.
LEMMA SameShape ==
  ASSUME TypeOK, RefsOK, NEW r \in Branch
  PROVE  CommitShape(assertions, r)
BY DEF CommitShape, KeepsOld, AddsNew, TypeOK, RefsOK

\* status_cmds adds a copy in r or changes an assertion of r.
LEMMA WithStatusShape ==
  ASSUME TypeOK, RefsOK, HeadSeq < MaxSeq, NEW r \in Branch,
         NEW list, CommitShape(list, r),
         NEW a \in 1..Len(assertions), NEW st \in Status
  PROVE  /\ CommitShape(WithStatus(list, r, a, st), r)
         /\ Len(list) <= Len(WithStatus(list, r, a, st))
<1>1. NextSeq \in 1..MaxSeq
  BY BranchingAssumption DEF NextSeq, HeadSeq, TypeOK
<1>2. /\ a \in 0..MaxAssertions
      /\ assertions[a] \in AssertionRec
      /\ a \in 1..Len(list)
      /\ list[a] \in AssertionRec
      /\ assertions[a].supersedes \in 0..Len(assertions)
  BY BranchingAssumption DEF TypeOK, CommitShape, RefsOK, RefsIn
<1>3. CASE assertions[a].branch = r
  <2> DEFINE h == Became(st, list[a].history)
             e == [list[a] EXCEPT !.history = h]
  <2>1. h \in [1..MaxSeq -> Status \cup {Unborn}]
    BY <1>1, <1>2 DEF AssertionRec, Became
  <2>2. \A s \in 1..MaxSeq : h[s] = list[a].history[s] \/ s >= NextSeq
    BY <1>1, <1>2 DEF AssertionRec, Became
  <2> HIDE DEF h
  <2>3. /\ e \in AssertionRec
        /\ e.history = h
        /\ e.branch = list[a].branch
        /\ e.created = list[a].created
        /\ e.overrides = list[a].overrides
        /\ e.supersedes = list[a].supersedes
    BY <1>2, <2>1 DEF AssertionRec
  <2>4. WithStatus(list, r, a, st) = [list EXCEPT ![a] = e]
    BY <1>3 DEF WithStatus, h
  <2>5. \A s \in 1..MaxSeq : e.history[s] = list[a].history[s]
                               \/ (s >= NextSeq /\ assertions[a].branch = r)
    BY <1>3, <2>2, <2>3
  <2> HIDE DEF e
  <2>6. CommitShape([list EXCEPT ![a] = e], r)
    BY <2>3, <2>5, ExceptShape
  <2>7. Len([list EXCEPT ![a] = e]) = Len(list)
    BY <1>2, <2>3, ExceptSeq DEF CommitShape
  <2>8. Len(list) \in Nat
    BY DEF CommitShape
  <2> QED
    BY <2>4, <2>6, <2>7, <2>8
<1>4. CASE assertions[a].branch # r
  <2> DEFINE h == Became(st, NeverWas)
             c == [assertions[a] EXCEPT
                     !.branch = r, !.created = NextSeq, !.history = h, !.overrides = a]
  <2>1. h \in [1..MaxSeq -> Status \cup {Unborn}]
    BY DEF Became, NeverWas
  <2>2. WithStatus(list, r, a, st) = Append(list, c)
    BY <1>4 DEF WithStatus
  <2> HIDE DEF h
  <2>3. /\ c \in AssertionRec
        /\ c.branch = r
        /\ c.created = NextSeq
        /\ c.supersedes \in 0..Len(assertions)
    BY <1>1, <1>2, <2>1 DEF AssertionRec
  <2> HIDE DEF c
  <2>4. Len(list) <= Len(Append(list, c))
    BY DEF CommitShape
  <2> QED
    BY <2>2, <2>3, <2>4, AppendShape
<1> QED
  BY <1>3, <1>4
-----------------------------------------------------------------------------
(* The lists of assertions the requests commit.                             *)

\* A new assertion.
LEMMA ProposeShape ==
  ASSUME TypeOK, RefsOK, HeadSeq < MaxSeq,
         NEW p \in Actor, NEW b \in Branch, NEW st \in Status,
         NEW old \in 0..Len(assertions)
  PROVE  CommitShape(Append(assertions, NewAssertion(p, b, st, old)), b)
<1>1. old \in 0..MaxAssertions
  BY BranchingAssumption DEF TypeOK
<1> QED
  BY <1>1, NewAssertionType, SameShape, AppendShape

\* A change of one status.
LEMMA ChangeShape ==
  ASSUME TypeOK, RefsOK, HeadSeq < MaxSeq,
         NEW b \in Branch, NEW a \in 1..Len(assertions), NEW st \in Status
  PROVE  CommitShape(WithStatus(assertions, b, a, st), b)
BY SameShape, WithStatusShape

\* An acceptance with the retirement of what the assertion replaces.
LEMMA AcceptShape ==
  ASSUME TypeOK, RefsOK, HeadSeq < MaxSeq,
         NEW b \in Branch, NEW a \in 1..Len(assertions)
  PROVE  CommitShape(AcceptedList(b, a), b)
<1> DEFINE old == assertions[a].supersedes
           accepted == WithStatus(assertions, b, a, "accepted")
<1>1. CommitShape(accepted, b)
  BY ChangeShape DEF Status
<1>2. CASE old = None
  BY <1>1, <1>2 DEF AcceptedList
<1>3. CASE old # None
  <2>1. old \in 1..Len(assertions)
    BY <1>3 DEF RefsOK, RefsIn, None, TypeOK
  <2>2. AcceptedList(b, a) = WithStatus(accepted, b, old, "superseded")
    BY <1>3 DEF AcceptedList
  <2> HIDE DEF accepted, old
  <2> QED
    BY <1>1, <2>1, <2>2, WithStatusShape DEF Status
<1> QED
  BY <1>2, <1>3

\* status_cmds never drops an assertion, and adds at most one.
LEMMA WithStatusLen ==
  ASSUME NEW S, NEW list \in Seq(S), NEW b, NEW a \in 1..Len(list), NEW st
  PROVE  /\ Len(WithStatus(list, b, a, st)) \in Nat
         /\ Len(list) <= Len(WithStatus(list, b, a, st))
<1>1. CASE assertions[a].branch = b
  <2> DEFINE e == [list[a] EXCEPT !.history = Became(st, list[a].history)]
             R == S \cup {e}
  <2>1. WithStatus(list, b, a, st) = [list EXCEPT ![a] = e]
    BY <1>1 DEF WithStatus
  <2>2. list \in Seq(R) /\ e \in R
    OBVIOUS
  <2> HIDE DEF e, R
  <2> QED
    BY <2>1, <2>2, ExceptSeq
<1>2. CASE assertions[a].branch # b
  <2>1. PICK c : WithStatus(list, b, a, st) = Append(list, c)
    BY <1>2 DEF WithStatus
  <2> QED
    BY <2>1
<1> QED
  BY <1>1, <1>2

\* Setting superseded_by keeps the type of the assertions.
LEMMA LinkedType ==
  ASSUME NEW x \in AssertionRec, NEW n \in 0..MaxAssertions
  PROVE  /\ [x EXCEPT !.supersededBy = n] \in AssertionRec
         /\ [x EXCEPT !.supersededBy = n].branch = x.branch
         /\ [x EXCEPT !.supersededBy = n].created = x.created
         /\ [x EXCEPT !.supersededBy = n].overrides = x.overrides
         /\ [x EXCEPT !.supersededBy = n].supersedes = x.supersedes
         /\ [x EXCEPT !.supersededBy = n].history = x.history
BY DEF AssertionRec

\* Setting human_verified keeps the type of the assertions.
LEMMA VerifiedType ==
  ASSUME NEW x \in AssertionRec
  PROVE  /\ [x EXCEPT !.verified = TRUE] \in AssertionRec
         /\ [x EXCEPT !.verified = TRUE].branch = x.branch
         /\ [x EXCEPT !.verified = TRUE].created = x.created
         /\ [x EXCEPT !.verified = TRUE].overrides = x.overrides
         /\ [x EXCEPT !.verified = TRUE].supersedes = x.supersedes
         /\ [x EXCEPT !.verified = TRUE].history = x.history
BY DEF AssertionRec

\* Adding evidence keeps the type of the assertions.
LEMMA EvidenceType ==
  ASSUME NEW x \in AssertionRec, NEW es \in SUBSET Evidence
  PROVE  /\ [x EXCEPT !.evidence = es] \in AssertionRec
         /\ [x EXCEPT !.evidence = es].branch = x.branch
         /\ [x EXCEPT !.evidence = es].created = x.created
         /\ [x EXCEPT !.evidence = es].overrides = x.overrides
         /\ [x EXCEPT !.evidence = es].supersedes = x.supersedes
         /\ [x EXCEPT !.evidence = es].history = x.history
BY DEF AssertionRec

\* A replacement, its link and the retirement of the old assertion.
LEMMA SupersedeShape ==
  ASSUME TypeOK, RefsOK, HeadSeq < MaxSeq,
         NEW p \in Actor, NEW b \in Branch, NEW old \in 1..Len(assertions),
         NEW st \in Status, Len(SupersededList(p, b, old, st)) <= MaxAssertions
  PROVE  CommitShape(SupersededList(p, b, old, st), b)
<1> DEFINE added  == Append(assertions, NewAssertion(p, b, st, old))
           e      == [added[old] EXCEPT !.supersededBy = Len(added)]
           linked == [added EXCEPT ![old] = e]
           retired == WithStatus(linked, b, old, "superseded")
<1>1. CommitShape(added, b)
  BY ProposeShape DEF TypeOK
<1>2. SupersededList(p, b, old, st) = IF st = "accepted" THEN retired ELSE linked
  BY DEF SupersededList
<1> HIDE DEF added
<1>3. /\ Len(added) \in Nat
      /\ Len(assertions) \in Nat
      /\ Len(assertions) <= Len(added)
      /\ old \in 1..Len(added)
      /\ added[old] \in AssertionRec
      /\ added \in Seq(AssertionRec)
  BY <1>1 DEF CommitShape, TypeOK
<1>4. Len(linked) = Len(added)
  BY <1>3
<1>5. ASSUME Len(added) <= MaxAssertions
      PROVE  CommitShape(linked, b)
  <2>1. /\ e \in AssertionRec
        /\ e.branch = added[old].branch
        /\ e.created = added[old].created
        /\ e.overrides = added[old].overrides
        /\ e.supersedes = added[old].supersedes
        /\ e.history = added[old].history
    <3>1. Len(added) \in 0..MaxAssertions
      BY <1>3, <1>5, BranchingAssumption
    <3> QED
      BY <1>3, <3>1, LinkedType
  <2> HIDE DEF e
  <2>2. \A s \in 1..MaxSeq : e.history[s] = added[old].history[s]
                               \/ (s >= NextSeq /\ assertions[old].branch = b)
    BY <2>1
  <2> QED
    BY <1>1, <2>1, <2>2, ExceptShape
<1>8. Len(linked) <= Len(retired) /\ Len(retired) \in Nat
  <2> DEFINE R == AssertionRec \cup {e}
  <2>1. added \in Seq(R) /\ e \in R
    BY <1>3
  <2> HIDE DEF R, e
  <2>2. linked \in Seq(R)
    BY <1>3, <2>1, ExceptSeq
  <2> HIDE DEF linked
  <2> QED
    BY <1>3, <1>4, <2>2, WithStatusLen
<1> HIDE DEF linked
<1>6. CASE st # "accepted"
  BY <1>2, <1>4, <1>5, <1>6
<1>7. CASE st = "accepted"
  <2>2. CommitShape(linked, b)
    BY <1>2, <1>3, <1>4, <1>5, <1>7, <1>8, BranchingAssumption
  <2> QED
    BY <1>2, <1>7, <2>2, WithStatusShape DEF Status
<1> QED
  BY <1>6, <1>7
-----------------------------------------------------------------------------
(* The steps.                                                               *)

\* Every request except create_branch commits a list of the right shape.
LEMMA NextShape ==
  ASSUME IInv, Next
  PROVE  \E p \in Actor :
           \/ \E r \in Branch : CommitShape(assertions', r) /\ Commits(p, r, assertions')
           \/ \E b, parent \in Branch : CreateBranch(p, b, parent)
<1> USE DEF IInv
<1>1. PICK p \in Actor :
         \/ \E b \in Branch, st \in Status : ProposeAssertion(p, b, st)
         \/ \E b \in Branch, a \in 1..Len(assertions) :
              RetractAssertion(p, b, a) \/ DisputeAssertion(p, b, a) \/ AcceptAssertion(p, b, a)
         \/ \E b \in Branch, a \in 1..Len(assertions), st \in Status :
              SupersedeAssertion(p, b, a, st)
         \/ \E a \in 1..Len(assertions) : VerifyAssertion(p, a)
         \/ \E a \in 1..Len(assertions), e \in Evidence : AddEvidence(p, a, e)
         \/ \E b, parent \in Branch : CreateBranch(p, b, parent)
  BY DEF Next
<1>2. ASSUME NEW b \in Branch, NEW st \in Status, ProposeAssertion(p, b, st)
      PROVE  CommitShape(assertions', b) /\ Commits(p, b, assertions')
  BY <1>2, ProposeShape DEF ProposeAssertion, Commits, None, TypeOK
<1>3. ASSUME NEW b \in Branch, NEW a \in 1..Len(assertions), RetractAssertion(p, b, a)
      PROVE  CommitShape(assertions', b) /\ Commits(p, b, assertions')
  <2>1. RetractedStatus(p, a) \in Status
    BY DEF RetractedStatus, Status
  <2> QED
    BY <1>3, <2>1, ChangeShape DEF RetractAssertion, Commits
<1>4. ASSUME NEW b \in Branch, NEW a \in 1..Len(assertions), DisputeAssertion(p, b, a)
      PROVE  CommitShape(assertions', b) /\ Commits(p, b, assertions')
  <2>1. "disputed" \in Status
    BY DEF Status
  <2> QED
    BY <1>4, <2>1, ChangeShape DEF DisputeAssertion, Commits
<1>5. ASSUME NEW b \in Branch, NEW a \in 1..Len(assertions), AcceptAssertion(p, b, a)
      PROVE  CommitShape(assertions', b) /\ Commits(p, b, assertions')
  BY <1>5, AcceptShape DEF AcceptAssertion, Commits
<1>6. ASSUME NEW b \in Branch, NEW a \in 1..Len(assertions), NEW st \in Status,
             SupersedeAssertion(p, b, a, st)
      PROVE  CommitShape(assertions', b) /\ Commits(p, b, assertions')
  BY <1>6, SupersedeShape DEF SupersedeAssertion, Commits
<1>7. ASSUME NEW a \in 1..Len(assertions), VerifyAssertion(p, a)
      PROVE  CommitShape(assertions', Main) /\ Commits(p, Main, assertions')
  <2> DEFINE e == [assertions[a] EXCEPT !.verified = TRUE]
  <2>1. /\ e \in AssertionRec
        /\ e.branch = assertions[a].branch
        /\ e.created = assertions[a].created
        /\ e.overrides = assertions[a].overrides
        /\ e.supersedes = assertions[a].supersedes
        /\ e.history = assertions[a].history
    BY VerifiedType DEF TypeOK
  <2>2. assertions' = [assertions EXCEPT ![a] = e]
    BY <1>7 DEF VerifyAssertion, Commits
  <2> HIDE DEF e
  <2>3. Main \in Branch
    BY BranchingAssumption
  <2>4. CommitShape([assertions EXCEPT ![a] = e], Main)
    BY <2>1, <2>3, SameShape, ExceptShape
  <2> QED
    BY <1>7, <2>2, <2>4 DEF VerifyAssertion, Commits
<1>8. ASSUME NEW a \in 1..Len(assertions), NEW ev \in Evidence, AddEvidence(p, a, ev)
      PROVE  /\ assertions[a].branch \in Branch
             /\ CommitShape(assertions', assertions[a].branch)
             /\ Commits(p, assertions[a].branch, assertions')
  <2> DEFINE e == [assertions[a] EXCEPT !.evidence = assertions[a].evidence \cup {ev}]
  <2>1. /\ e \in AssertionRec
        /\ e.branch = assertions[a].branch
        /\ e.created = assertions[a].created
        /\ e.overrides = assertions[a].overrides
        /\ e.supersedes = assertions[a].supersedes
        /\ e.history = assertions[a].history
        /\ assertions[a].branch \in Branch
    <3>1. assertions[a] \in AssertionRec
      BY DEF TypeOK
    <3>2. assertions[a].branch \in Branch
          /\ assertions[a].evidence \cup {ev} \in SUBSET Evidence
      BY <3>1 DEF AssertionRec
    <3> QED
      BY <3>1, <3>2, EvidenceType
  <2>2. assertions' = [assertions EXCEPT ![a] = e]
    BY <1>8 DEF AddEvidence, Commits
  <2> HIDE DEF e
  <2>4. CommitShape([assertions EXCEPT ![a] = e], assertions[a].branch)
    BY <2>1, SameShape, ExceptShape
  <2> QED
    BY <1>8, <2>1, <2>2, <2>4 DEF AddEvidence, Commits
<1> QED
  BY <1>1, <1>2, <1>3, <1>4, <1>5, <1>6, <1>7, <1>8, BranchingAssumption

\* The two fields of a chain's link have the types of a branch and of a seq.
LEMMA LinkType ==
  ASSUME NEW c \in Seq(Link)
  PROVE  /\ Len(c) \in Nat
         /\ \A i \in 1..Len(c) : c[i].branch \in Branch /\ c[i].limit \in 0..MaxSeq
<1>1. \A i \in 1..Len(c) : c[i] \in Link
  OBVIOUS
<1> QED
  BY <1>1 DEF Link

\* The chain of a new branch: the branch itself, then the parent's links, cut.
LEMMA ChainOfNewLinks ==
  ASSUME NEW b \in Branch, NEW parent, chain[parent] \in Seq(Link),
         NEW fork \in 0..MaxSeq
  PROVE  /\ ChainOfNew(b, parent, fork) \in Seq(Link)
         /\ Len(ChainOfNew(b, parent, fork)) = Len(chain[parent]) + 1
         /\ ChainOfNew(b, parent, fork)[1].branch = b
         /\ \A i \in 2..Len(chain[parent]) + 1 :
              ChainOfNew(b, parent, fork)[i].limit <= fork
<1> DEFINE up == chain[parent]
           cut(i) == [branch |-> up[i - 1].branch, limit |-> Min2(up[i - 1].limit, fork)]
           link(i) == IF i = 1 THEN [branch |-> b, limit |-> MaxSeq] ELSE cut(i)
           n == Len(up) + 1
<1>1. n \in Nat /\ n >= 1 /\ Len(up) \in Nat
  BY LinkType
<1>2. \A i \in 2..n : up[i - 1].branch \in Branch /\ up[i - 1].limit \in 0..MaxSeq
  <2> SUFFICES ASSUME NEW i \in 2..n
               PROVE  up[i - 1].branch \in Branch /\ up[i - 1].limit \in 0..MaxSeq
    OBVIOUS
  <2>1. i - 1 \in 1..Len(up)
    BY <1>1
  <2> HIDE DEF up
  <2> QED
    BY <2>1, LinkType DEF up
<1>3. ChainOfNew(b, parent, fork) = [i \in 1..n |-> link(i)]
  BY DEF ChainOfNew
<1> HIDE DEF up
<1>4. \A i \in 2..n : cut(i) \in Link /\ cut(i).limit <= fork
  BY <1>1, <1>2, BranchingAssumption DEF Link, Min2
<1>5. [branch |-> b, limit |-> MaxSeq] \in Link
  BY BranchingAssumption DEF Link
<1> HIDE DEF cut
<1>6. \A i \in 1..n : link(i) \in Link
  BY <1>1, <1>4, <1>5
<1>7. link(1).branch = b
  OBVIOUS
<1>8. \A i \in 2..n : link(i).limit <= fork
  BY <1>4
<1> HIDE DEF link
<1>9. [i \in 1..n |-> link(i)] \in Seq(Link)
  BY <1>1, <1>6
<1>10. Len([i \in 1..n |-> link(i)]) = n
  BY <1>1
<1> HIDE DEF n
<1>11. \A i \in 1..n : ChainOfNew(b, parent, fork)[i] = link(i)
  BY <1>3
<1>12. 1 \in 1..n /\ \A i \in 2..n : i \in 1..n
  BY <1>1
<1>13. n = Len(chain[parent]) + 1
  BY DEF n, up
<1> QED
  BY <1>3, <1>7, <1>8, <1>9, <1>10, <1>11, <1>12, <1>13

\* A commit that creates no branch preserves the inductive invariant.
LEMMA CommitPreserves ==
  ASSUME IInv, NEW p \in Actor, NEW r \in Branch,
         CommitShape(assertions', r), Commits(p, r, assertions')
  PROVE  IInv'
<1>1. /\ revisions' = Append(revisions, [branch |-> r, actor |-> p])
      /\ HeadSeq < MaxSeq
      /\ Len(assertions') <= MaxAssertions
      /\ branches' = branches
      /\ chain' = chain
  BY DEF Commits, Commit
<1>2. /\ revisions' \in Seq([branch : Branch, actor : Actor])
      /\ Len(revisions') = Len(revisions) + 1
      /\ Len(revisions) \in Nat
  BY <1>1 DEF IInv, TypeOK
<1>3. TypeOK'
  BY <1>1, <1>2, BranchingAssumption DEF IInv, TypeOK, HeadSeq, CommitShape
<1>4. ChainOK'
  <2> SUFFICES ASSUME NEW b \in DOMAIN chain
               PROVE  /\ Len(chain[b]) >= 1
                      /\ chain[b][1].branch = b
                      /\ \A i \in 2..Len(chain[b]) : chain[b][i].limit <= Len(revisions')
    BY <1>1 DEF ChainOK, HeadSeq
  <2>1. chain[b] \in Seq(Link)
    BY DEF IInv, TypeOK
  <2>2. \A i \in 2..Len(chain[b]) : chain[b][i].limit \in 0..MaxSeq
    BY <2>1, LinkType
  <2> QED
    BY <1>2, <2>2 DEF IInv, ChainOK, HeadSeq
<1>5. RefsOK'
  <2> SUFFICES ASSUME NEW a \in 1..Len(assertions')
               PROVE  assertions'[a].supersedes \in 0..Len(assertions')
    BY DEF RefsOK, RefsIn
  <2>1. Len(assertions) \in Nat /\ Len(assertions') \in Nat
    BY DEF CommitShape, IInv, TypeOK
  <2> QED
    BY <2>1 DEF CommitShape, RefsIn
<1> QED
  BY <1>3, <1>4, <1>5 DEF IInv

\* create_branch preserves the inductive invariant.
LEMMA CreatePreserves ==
  ASSUME IInv, NEW p \in Actor, NEW b \in Branch, NEW parent \in Branch,
         CreateBranch(p, b, parent)
  PROVE  IInv'
<1> DEFINE new == ChainOfNew(b, parent, ForkPoint)
<1>1. /\ revisions' = Append(revisions, [branch |-> parent, actor |-> p])
      /\ HeadSeq < MaxSeq
      /\ parent \in DOMAIN branches
      /\ b \notin DOMAIN branches
      /\ branches' = [c \in DOMAIN branches \cup {b} |->
                        IF c = b THEN [parent |-> parent, fork |-> HeadSeq] ELSE branches[c]]
      /\ chain' = [c \in DOMAIN chain \cup {b} |-> IF c = b THEN new ELSE chain[c]]
      /\ assertions' = assertions
  BY DEF CreateBranch, Commit, Exists, ForkPoint
<1>2. /\ revisions' \in Seq([branch : Branch, actor : Actor])
      /\ Len(revisions') = Len(revisions) + 1
      /\ Len(revisions) \in Nat
      /\ HeadSeq \in 0..MaxSeq
      /\ MaxSeq \in Nat
  BY <1>1, BranchingAssumption DEF IInv, TypeOK, HeadSeq
<1>3. /\ new \in Seq(Link)
      /\ Len(new) >= 1
      /\ new[1].branch = b
      /\ \A i \in 2..Len(new) : new[i].limit <= HeadSeq
  <2>1. chain[parent] \in Seq(Link)
    BY <1>1 DEF IInv, TypeOK
  <2>2. /\ new \in Seq(Link)
        /\ Len(new) = Len(chain[parent]) + 1
        /\ new[1].branch = b
        /\ \A i \in 2..Len(chain[parent]) + 1 : new[i].limit <= HeadSeq
    BY <1>2, <2>1, ChainOfNewLinks DEF ForkPoint
  <2>3. Len(chain[parent]) \in Nat
    BY <2>1, LinkType
  <2> HIDE DEF new
  <2> QED
    BY <2>2, <2>3
<1> HIDE DEF new
<1>4. TypeOK'
  <2>3. /\ DOMAIN branches' = DOMAIN branches \cup {b}
        /\ DOMAIN chain' = DOMAIN chain \cup {b}
    BY <1>1
  <2>1. \A c \in DOMAIN branches' : branches'[c] \in [parent : Branch, fork : 0..MaxSeq]
    BY <1>1, <1>2 DEF IInv, TypeOK
  <2>2. \A c \in DOMAIN chain' : chain'[c] \in Seq(Link)
    BY <1>1, <1>3 DEF IInv, TypeOK
  <2> QED
    <3>1. DOMAIN branches' \subseteq Branch /\ DOMAIN chain' = DOMAIN branches'
      BY <2>3 DEF IInv, TypeOK
    <3>2. assertions' \in Seq(AssertionRec) /\ Len(assertions') <= MaxAssertions
      BY <1>1 DEF IInv, TypeOK
    <3>3. HeadSeq' <= MaxSeq
      BY <1>1, <1>2 DEF HeadSeq
    <3> QED
      BY <1>2, <2>1, <2>2, <3>1, <3>2, <3>3 DEF TypeOK
<1>5. ChainOK'
  <2> SUFFICES ASSUME NEW c \in DOMAIN chain'
               PROVE  /\ Len(chain'[c]) >= 1
                      /\ chain'[c][1].branch = c
                      /\ \A i \in 2..Len(chain'[c]) : chain'[c][i].limit <= Len(revisions')
    BY DEF ChainOK, HeadSeq
  <2>1. CASE c = b
    <3>1. chain'[c] = new
      BY <1>1, <2>1
    <3>2. \A i \in 2..Len(new) : new[i].limit \in 0..MaxSeq
      BY <1>3, LinkType
    <3> QED
      BY <1>2, <1>3, <2>1, <3>1, <3>2 DEF HeadSeq
  <2>2. CASE c # b
    <3>1. chain'[c] = chain[c] /\ c \in DOMAIN chain
      BY <1>1, <2>2
    <3>3. chain[c] \in Seq(Link)
      BY <3>1 DEF IInv, TypeOK
    <3>2. \A i \in 2..Len(chain[c]) : chain[c][i].limit \in 0..MaxSeq
      BY <3>3, LinkType
    <3> QED
      BY <1>2, <3>1, <3>2 DEF IInv, ChainOK, HeadSeq
  <2> QED
    BY <2>1, <2>2
<1>6. RefsOK'
  BY <1>1 DEF IInv, RefsOK, RefsIn
<1> QED
  BY <1>4, <1>5, <1>6 DEF IInv
-----------------------------------------------------------------------------
(* Isolation.                                                               *)

\* What a branch sees of another branch ends at a past revision.
LEMMA LimitOfOther ==
  ASSUME IInv, NEW b \in DOMAIN branches, NEW c, InChain(b, c)
  PROVE  /\ LimitOf(b, c) \in 0..MaxSeq
         /\ b # c => LimitOf(b, c) <= HeadSeq
<1>1. /\ Position(b, c) \in 1..Len(chain[b])
      /\ chain[b][Position(b, c)].branch = c
  BY DEF InChain, Position
<1>2. chain[b] \in Seq(Link) /\ b \in DOMAIN chain
  BY DEF IInv, TypeOK
<1>3. chain[b][1].branch = b /\ Len(chain[b]) \in Nat
  BY <1>2, LinkType DEF IInv, ChainOK
<1>4. ASSUME b # c
      PROVE  LimitOf(b, c) <= HeadSeq
  <2>1. Position(b, c) \in 2..Len(chain[b])
    BY <1>1, <1>3, <1>4
  <2> QED
    BY <1>2, <2>1 DEF IInv, ChainOK, LimitOf
<1> QED
  BY <1>1, <1>2, <1>4, LinkType DEF LimitOf

\* A commit on r changes for other branches neither what they see ...
LEMMA VisibleUnchanged ==
  ASSUME IInv, NEW r \in Branch, CommitShape(assertions', r), chain' = chain,
         NEW b \in DOMAIN branches, b # r, NEW a \in 1..Len(assertions)
  PROVE  Visible(b, a)' <=> Visible(b, a)
<1>1. /\ assertions'[a].branch = assertions[a].branch
      /\ assertions'[a].created = assertions[a].created
  BY DEF CommitShape, KeepsOld
<1>2. /\ \A c : InChain(b, c)' <=> InChain(b, c)
      /\ \A c : Position(b, c)' = Position(b, c)
      /\ \A c : LimitOf(b, c)' = LimitOf(b, c)
  BY DEF InChain, Position, LimitOf
<1>3. OverriddenIn(b, a)' <=> OverriddenIn(b, a)
  <2>1. /\ Len(assertions) \in Nat
        /\ Len(assertions') \in Nat
        /\ Len(assertions) <= Len(assertions')
    BY DEF IInv, TypeOK, CommitShape
  <2>2. ASSUME NEW o \in 1..Len(assertions)
        PROVE  /\ o \in 1..Len(assertions')
               /\ assertions'[o].branch = assertions[o].branch
               /\ assertions'[o].created = assertions[o].created
               /\ assertions'[o].overrides = assertions[o].overrides
    BY <2>1 DEF CommitShape, KeepsOld
  <2>3. ASSUME NEW o \in Len(assertions)+1..Len(assertions'),
               InChain(b, assertions'[o].branch)
        PROVE  ~ (assertions'[o].created <= LimitOf(b, assertions'[o].branch))
    <3>1. assertions'[o].branch = r /\ assertions'[o].created = NextSeq
      BY DEF CommitShape, AddsNew
    <3>2. LimitOf(b, r) \in Int /\ LimitOf(b, r) <= HeadSeq
      BY <2>3, <3>1, LimitOfOther
    <3>3. HeadSeq \in Nat
      BY DEF IInv, TypeOK, HeadSeq
    <3> QED
      BY <3>1, <3>2, <3>3 DEF NextSeq
  <2>4. \A o \in 1..Len(assertions') :
          o \in 1..Len(assertions) \/ o \in Len(assertions)+1..Len(assertions')
    BY <2>1
  <2> DEFINE Hides(o) == /\ assertions[o].overrides = a
                         /\ InChain(b, assertions[o].branch)
                         /\ Position(b, assertions[o].branch) < Position(b, assertions[a].branch)
                         /\ assertions[o].created <= LimitOf(b, assertions[o].branch)
             HidesNow(o) == /\ assertions'[o].overrides = a
                            /\ InChain(b, assertions'[o].branch)
                            /\ Position(b, assertions'[o].branch)
                                 < Position(b, assertions'[a].branch)
                            /\ assertions'[o].created <= LimitOf(b, assertions'[o].branch)
  <2>5. OverriddenIn(b, a) <=> \E o \in 1..Len(assertions) : Hides(o)
    BY DEF OverriddenIn
  <2>6. OverriddenIn(b, a)' <=> \E o \in 1..Len(assertions') : HidesNow(o)
    BY <1>2 DEF OverriddenIn
  <2>7. \A o \in 1..Len(assertions) : HidesNow(o) <=> Hides(o)
    BY <1>1, <2>2
  <2>8. \A o \in Len(assertions)+1..Len(assertions') : ~ HidesNow(o)
    BY <2>3
  <2> HIDE DEF Hides, HidesNow
  <2> QED
    BY <2>2, <2>4, <2>5, <2>6, <2>7, <2>8
<1> QED
  BY <1>1, <1>2, <1>3 DEF Visible

\* ... nor with which status.
LEMMA StatusUnchanged ==
  ASSUME IInv, NEW r \in Branch, CommitShape(assertions', r), chain' = chain,
         NEW b \in DOMAIN branches, b # r, NEW a \in 1..Len(assertions)
  PROVE  EffectiveStatus(b, a)' = EffectiveStatus(b, a)
<1>1. Visible(b, a)' <=> Visible(b, a)
  BY VisibleUnchanged
<1>2. CASE ~ Visible(b, a)
  BY <1>1, <1>2 DEF EffectiveStatus
<1>3. CASE Visible(b, a)
  <2> DEFINE c == assertions[a].branch
             limit == LimitOf(b, c)
  <2>1. InChain(b, c) /\ assertions[a].created <= limit
    BY <1>3 DEF Visible
  <2>2. assertions'[a].branch = c
    BY DEF CommitShape, KeepsOld
  <2>3. LimitOf(b, c)' = limit
    BY <2>2 DEF LimitOf, Position
  <2>4. limit \in 1..MaxSeq /\ (b # c => limit <= HeadSeq)
    <3>1. assertions[a] \in AssertionRec
      BY DEF IInv, TypeOK
    <3>2. assertions[a].created \in 1..MaxSeq
      BY <3>1 DEF AssertionRec
    <3>3. limit \in 0..MaxSeq /\ (b # c => limit <= HeadSeq)
      BY <2>1, LimitOfOther
    <3> HIDE DEF limit
    <3> QED
      BY <2>1, <3>2, <3>3, BranchingAssumption
  <2>5. assertions'[a].history[limit] = assertions[a].history[limit]
    <3>1. HeadSeq \in Nat
      BY DEF IInv, TypeOK, HeadSeq
    <3>2. \/ assertions'[a].history[limit] = assertions[a].history[limit]
          \/ limit >= NextSeq /\ c = r
      BY <2>4 DEF CommitShape, KeepsOld
    <3> HIDE DEF limit, c
    <3> QED
      BY <2>4, <3>1, <3>2 DEF NextSeq
  <2>6. EffectiveStatus(b, a) = assertions[a].history[limit]
    BY <1>3 DEF EffectiveStatus, StatusAt
  <2>7. EffectiveStatus(b, a)' = assertions'[a].history[limit]
    BY <1>1, <1>3, <2>2, <2>3 DEF EffectiveStatus, StatusAt
  <2> QED
    BY <2>5, <2>6, <2>7
<1> QED
  BY <1>2, <1>3

\* What a commit on r adds, no other branch sees.
LEMMA AddedHidden ==
  ASSUME IInv, NEW r \in Branch, CommitShape(assertions', r), chain' = chain,
         NEW b \in DOMAIN branches, b # r,
         NEW a \in Len(assertions)+1..Len(assertions')
  PROVE  EffectiveStatus(b, a)' = Hidden
<1>1. assertions'[a].branch = r /\ assertions'[a].created = NextSeq
  BY DEF CommitShape, AddsNew
<1>2. InChain(b, r) => LimitOf(b, r) \in Int /\ LimitOf(b, r) <= HeadSeq
  BY LimitOfOther
<1>3. HeadSeq \in Nat
  BY DEF IInv, TypeOK, HeadSeq
<1>4. InChain(b, r) => ~ (NextSeq <= LimitOf(b, r))
  BY <1>2, <1>3 DEF NextSeq
<1>5. /\ InChain(b, r)' <=> InChain(b, r)
      /\ LimitOf(b, r)' = LimitOf(b, r)
  BY DEF InChain, LimitOf, Position
<1>6. ~ Visible(b, a)'
  BY <1>1, <1>4, <1>5 DEF Visible, InChain, LimitOf, Position
<1> QED
  BY <1>6 DEF EffectiveStatus

\* So the views of other branches are unchanged by a commit on r.
LEMMA ViewUnchanged ==
  ASSUME IInv, NEW r \in Branch, CommitShape(assertions', r), chain' = chain,
         NEW b \in DOMAIN branches, b # r
  PROVE  View(b)' = View(b)
<1> DEFINE Old == 1..Len(assertions)
           New == 1..Len(assertions')
<1>1. \A a \in Old : a \in New /\ EffectiveStatus(b, a)' = EffectiveStatus(b, a)
  <2>1. Len(assertions) \in Nat /\ Len(assertions') \in Nat
        /\ Len(assertions) <= Len(assertions')
    BY DEF IInv, TypeOK, CommitShape
  <2> QED
    BY <2>1, StatusUnchanged
<1>2. \A a \in New : a \in Old \/ EffectiveStatus(b, a)' = Hidden
  <2>1. \A a \in New : a \in Old \/ a \in Len(assertions)+1..Len(assertions')
    BY DEF IInv, TypeOK, CommitShape
  <2> QED
    BY <2>1, AddedHidden
<1>3. Hidden \notin Status
  BY DEF Hidden, Status
<1> HIDE DEF Old, New
<1>4. View(b) = {v \in Old \X Status : EffectiveStatus(b, v[1]) = v[2]}
  BY DEF View, Old
<1>5. View(b)' = {v \in New \X Status : EffectiveStatus(b, v[1])' = v[2]}
  BY DEF View, New
<1>6. ASSUME NEW a, NEW st \in Status
      PROVE  (a \in Old /\ EffectiveStatus(b, a) = st)
               <=> (a \in New /\ EffectiveStatus(b, a)' = st)
  BY <1>1, <1>2, <1>3
<1> QED
  BY <1>4, <1>5, <1>6

-----------------------------------------------------------------------------
(* Theorems.                                                                *)

\* The inductive invariant holds in the initial state ...
LEMMA InitIInv ==
  ASSUME Init
  PROVE  IInv
<1>1. TypeOK
  <2>1. [branch |-> Main, limit |-> MaxSeq] \in Link
    BY BranchingAssumption DEF Link
  <2>2. chain[Main] = <<[branch |-> Main, limit |-> MaxSeq]>> /\ DOMAIN chain = {Main}
    BY DEF Init
  <2> QED
    BY <2>1, <2>2, BranchingAssumption DEF Init, TypeOK, HeadSeq
<1>2. ChainOK
  BY DEF Init, ChainOK
<1>3. RefsOK
  BY DEF Init, RefsOK, RefsIn
<1> QED
  BY <1>1, <1>2, <1>3 DEF IInv

\* ... and every step preserves it.
LEMMA StepIInv ==
  ASSUME IInv, [Next]_vars
  PROVE  IInv'
<1>1. CASE Next
  BY <1>1, NextShape, CommitPreserves, CreatePreserves
<1>2. CASE UNCHANGED vars
  BY <1>2 DEF vars, IInv, TypeOK, ChainOK, RefsOK, RefsIn, HeadSeq
<1> QED
  BY <1>1, <1>2

\* From the inductive invariant, every step isolates the other branches.
LEMMA StepIsolation ==
  ASSUME IInv, Next
  PROVE  IsolationStep
<1> SUFFICES ASSUME NEW b \in DOMAIN branches, b # LastRevision'.branch
             PROVE  View(b)' = View(b)
  BY DEF IsolationStep
<1>1. ASSUME NEW p \in Actor, NEW r \in Branch, CommitShape(assertions', r),
             Commits(p, r, assertions')
      PROVE  View(b)' = View(b)
  <2>1. LastRevision'.branch = r
    BY <1>1 DEF Commits, Commit, LastRevision, IInv, TypeOK
  <2> QED
    BY <1>1, <2>1, ViewUnchanged DEF Commits
<1>2. ASSUME NEW p \in Actor, NEW new \in Branch, NEW parent \in Branch,
             CreateBranch(p, new, parent)
      PROVE  View(b)' = View(b)
  <2>1. assertions' = assertions /\ chain'[b] = chain[b]
    BY <1>2 DEF CreateBranch, Exists, IInv, TypeOK
  <2> QED
    BY <2>1 DEF View, EffectiveStatus, Visible, OverriddenIn, StatusAt, LimitOf,
                Position, InChain
<1> QED
  BY <1>1, <1>2, NextShape

\* Every variable keeps its type: revisions, branches, visible chains and
\* assertions (canonical.rs) under every write request.
THEOREM TypeCorrect == Spec => []TypeOK
<1>1. Init => IInv
  BY InitIInv
<1>2. IInv /\ [Next]_vars => IInv'
  BY StepIInv
<1>3. IInv => TypeOK
  BY DEF IInv
<1> QED
  BY <1>1, <1>2, <1>3, PTL DEF Spec

\* A request changes what the branch it is committed on shows, and the view of no
\* other branch (branch_chain, effective_status, status_cmds).
THEOREM ForkIsolated == Spec => ForkIsolation
<1>1. Init => IInv
  BY InitIInv
<1>2. IInv /\ [Next]_vars => IInv'
  BY StepIInv
<1>3. IInv /\ [Next]_vars => [IsolationStep]_vars
  BY StepIsolation
<1> QED
  BY <1>1, <1>2, <1>3, PTL DEF Spec, ForkIsolation

-----------------------------------------------------------------------------
(***************************************************************************)
(* Only a curator's request makes an assertion accepted, in whatever branch. *)
(***************************************************************************)

(***************************************************************************)
(* No history of list is accepted at a seq where it was not before.          *)
(***************************************************************************)
AcceptsNothing(list) ==
  \A a \in 1..Len(list) : \A s \in 1..MaxSeq :
    list[a].history[s] = "accepted"
      => a \in 1..Len(assertions) /\ assertions[a].history[s] = "accepted"

-----------------------------------------------------------------------------
(* The helpers that build a request's commands.                             *)

\* A new assertion or copy that never was accepted.
LEMMA AppendAccepts ==
  ASSUME TypeOK, NEW n, \A s \in 1..MaxSeq : n.history[s] # "accepted"
  PROVE  AcceptsNothing(Append(assertions, n))
<1> DEFINE more == Append(assertions, n)
<1>1. /\ Len(assertions) \in Nat
      /\ Len(more) = Len(assertions) + 1
      /\ \A i \in 1..Len(assertions) : more[i] = assertions[i]
      /\ more[Len(assertions) + 1] = n
  BY DEF TypeOK
<1> HIDE DEF more
<1>2. AcceptsNothing(more)
  <2> SUFFICES ASSUME NEW a \in 1..Len(more), NEW s \in 1..MaxSeq,
                      more[a].history[s] = "accepted"
               PROVE  a \in 1..Len(assertions) /\ assertions[a].history[s] = "accepted"
    BY DEF AcceptsNothing
  <2>1. a \in 1..Len(assertions)
    BY <1>1
  <2> QED
    BY <1>1, <2>1
<1> QED
  BY <1>2 DEF more

\* A change of an assertion that sets no status to accepted.
LEMMA ExceptAccepts ==
  ASSUME NEW S, NEW list \in Seq(S), AcceptsNothing(list),
         NEW k \in 1..Len(list), NEW e,
         \A s \in 1..MaxSeq : e.history[s] = list[k].history[s] \/ e.history[s] # "accepted"
  PROVE  AcceptsNothing([list EXCEPT ![k] = e])
<1> DEFINE new == [list EXCEPT ![k] = e]
           R == S \cup {e}
<1>1. list \in Seq(R) /\ e \in R
  OBVIOUS
<1> HIDE DEF R
<1>2. /\ Len(new) = Len(list)
      /\ \A i \in 1..Len(list) : new[i] = IF i = k THEN e ELSE list[i]
  BY <1>1, ExceptSeq
<1> HIDE DEF new
<1>3. AcceptsNothing(new)
  BY <1>2 DEF AcceptsNothing
<1> QED
  BY <1>3 DEF new

\* status_cmds, for any status but accepted.
LEMMA WithStatusAccepts ==
  ASSUME TypeOK, NEW b, NEW a \in 1..Len(assertions), NEW st, st # "accepted"
  PROVE  AcceptsNothing(WithStatus(assertions, b, a, st))
<1>1. CASE assertions[a].branch = b
  <2> DEFINE e == [assertions[a] EXCEPT !.history = Became(st, assertions[a].history)]
  <2>1. assertions \in Seq(AssertionRec) /\ assertions[a] \in AssertionRec
    BY DEF TypeOK
  <2>2. e.history = Became(st, assertions[a].history)
    BY <2>1 DEF AssertionRec
  <2>3. \A s \in 1..MaxSeq : e.history[s] = assertions[a].history[s] \/ e.history[s] # "accepted"
    BY <2>2 DEF Became
  <2>4. WithStatus(assertions, b, a, st) = [assertions EXCEPT ![a] = e]
    BY <1>1 DEF WithStatus
  <2>5. AcceptsNothing(assertions)
    BY DEF AcceptsNothing
  <2> HIDE DEF e
  <2>6. AcceptsNothing([assertions EXCEPT ![a] = e])
    BY <2>1, <2>3, <2>5, ExceptAccepts
  <2> QED
    BY <2>4, <2>6
<1>2. CASE assertions[a].branch # b
  <2> DEFINE h == Became(st, NeverWas)
             c == [assertions[a] EXCEPT
                     !.branch = b, !.created = NextSeq, !.history = h, !.overrides = a]
  <2>1. \A s \in 1..MaxSeq : h[s] # "accepted"
    BY DEF Became, NeverWas, Unborn
  <2>2. WithStatus(assertions, b, a, st) = Append(assertions, c)
    BY <1>2 DEF WithStatus
  <2> HIDE DEF h
  <2>3. c.history = h
    <3>1. assertions[a] \in AssertionRec
      BY DEF TypeOK
    <3> QED
      BY <3>1 DEF AssertionRec
  <2> HIDE DEF c
  <2> QED
    BY <2>1, <2>2, <2>3, AppendAccepts
<1> QED
  BY <1>1, <1>2

\* A new assertion with any status but accepted.
LEMMA NewAccepts ==
  ASSUME TypeOK, NEW p, NEW b, NEW st, st # "accepted", NEW old
  PROVE  AcceptsNothing(Append(assertions, NewAssertion(p, b, st, old)))
<1> DEFINE n == NewAssertion(p, b, st, old)
<1>1. n.history = Became(st, NeverWas)
  BY DEF NewAssertion
<1>2. \A s \in 1..MaxSeq : n.history[s] # "accepted"
  BY <1>1 DEF Became, NeverWas, Unborn
<1> HIDE DEF n
<1>3. AcceptsNothing(Append(assertions, n))
  BY <1>2, AppendAccepts
<1> QED
  BY <1>3 DEF n

\* A proposed replacement and the link to it.
LEMMA SupersedeAccepts ==
  ASSUME TypeOK, NEW p \in Actor, NEW b \in Branch, NEW old \in 1..Len(assertions),
         NEW st, st # "accepted"
  PROVE  AcceptsNothing(SupersededList(p, b, old, st))
<1> DEFINE n     == NewAssertion(p, b, st, old)
           added == Append(assertions, n)
           e     == [added[old] EXCEPT !.supersededBy = Len(added)]
           S     == AssertionRec \cup {n}
<1>1. SupersededList(p, b, old, st) = [added EXCEPT ![old] = e]
  BY DEF SupersededList
<1>2. AcceptsNothing(added)
  BY NewAccepts
<1>3. assertions \in Seq(S) /\ n \in S
  BY DEF TypeOK
<1>4. assertions[old] \in AssertionRec /\ Len(assertions) \in Nat
  BY DEF TypeOK
<1> HIDE DEF n, S
<1>5. /\ added \in Seq(S)
      /\ old \in 1..Len(added)
      /\ added[old] = assertions[old]
  BY <1>3, <1>4
<1>6. e.history = added[old].history
  BY <1>4, <1>5 DEF AssertionRec
<1> HIDE DEF added, e
<1>7. AcceptsNothing([added EXCEPT ![old] = e])
  BY <1>2, <1>5, <1>6, ExceptAccepts
<1> QED
  BY <1>1, <1>7

-----------------------------------------------------------------------------
(* The steps.                                                               *)

\* A request by anyone but a curator accepts nothing.
LEMMA NextAccepts ==
  ASSUME IInv, Next
  PROVE  LastRevision'.actor \in Curator \/ AcceptsNothing(assertions')
<1> USE DEF IInv
<1>1. PICK p \in Actor :
         \/ \E b \in Branch, st \in Status : ProposeAssertion(p, b, st)
         \/ \E b \in Branch, a \in 1..Len(assertions) : RetractAssertion(p, b, a)
         \/ \E b \in Branch, a \in 1..Len(assertions) : DisputeAssertion(p, b, a)
         \/ \E b \in Branch, a \in 1..Len(assertions) : AcceptAssertion(p, b, a)
         \/ \E b \in Branch, a \in 1..Len(assertions), st \in Status :
              SupersedeAssertion(p, b, a, st)
         \/ \E a \in 1..Len(assertions) : VerifyAssertion(p, a)
         \/ \E a \in 1..Len(assertions), e \in Evidence : AddEvidence(p, a, e)
         \/ \E b, parent \in Branch : CreateBranch(p, b, parent)
  BY DEF Next
<1> DEFINE Fine == p \in Curator \/ AcceptsNothing(assertions')
           ByP == LastRevision'.actor = p
<1>2. ASSUME NEW b, Commit(p, b)
      PROVE  ByP
  BY <1>2 DEF Commit, LastRevision, TypeOK
<1>3. ASSUME NEW b \in Branch, NEW st \in Status, ProposeAssertion(p, b, st)
      PROVE  Fine /\ ByP
  <2>1. p \in Curator \/ st # "accepted"
    BY <1>3 DEF ProposeAssertion, InitialStatus
  <2> HIDE DEF ByP
  <2> QED
    BY <1>2, <1>3, <2>1, NewAccepts DEF ProposeAssertion, Commits
<1>4. ASSUME NEW b \in Branch, NEW a \in 1..Len(assertions), RetractAssertion(p, b, a)
      PROVE  Fine /\ ByP
  <2>1. RetractedStatus(p, a) # "accepted"
    BY DEF RetractedStatus
  <2> HIDE DEF ByP
  <2> QED
    BY <1>2, <1>4, <2>1, WithStatusAccepts DEF RetractAssertion, Commits
<1>5. ASSUME NEW b \in Branch, NEW a \in 1..Len(assertions), DisputeAssertion(p, b, a)
      PROVE  Fine /\ ByP
  <2>1. "disputed" # "accepted"
    OBVIOUS
  <2> HIDE DEF ByP
  <2> QED
    BY <1>2, <1>5, <2>1, WithStatusAccepts DEF DisputeAssertion, Commits
<1>6. ASSUME NEW b \in Branch, NEW a \in 1..Len(assertions), AcceptAssertion(p, b, a)
      PROVE  Fine /\ ByP
  <2> HIDE DEF ByP
  <2> QED
    BY <1>2, <1>6 DEF AcceptAssertion, MayAccept, Commits
<1>7. ASSUME NEW b \in Branch, NEW a \in 1..Len(assertions), NEW st \in Status,
             SupersedeAssertion(p, b, a, st)
      PROVE  Fine /\ ByP
  <2>1. p \in Curator \/ st # "accepted"
    BY <1>7 DEF SupersedeAssertion, InitialStatus
  <2> HIDE DEF ByP
  <2> QED
    BY <1>2, <1>7, <2>1, SupersedeAccepts DEF SupersedeAssertion, Commits
<1>8. ASSUME NEW a \in 1..Len(assertions), VerifyAssertion(p, a)
      PROVE  Fine /\ ByP
  <2> HIDE DEF ByP
  <2> QED
    BY <1>2, <1>8 DEF VerifyAssertion, Commits
<1>9. ASSUME NEW a \in 1..Len(assertions), NEW ev \in Evidence, AddEvidence(p, a, ev)
      PROVE  Fine /\ ByP
  <2> DEFINE e == [assertions[a] EXCEPT !.evidence = assertions[a].evidence \cup {ev}]
  <2>1. assertions \in Seq(AssertionRec) /\ assertions[a] \in AssertionRec
    BY DEF TypeOK
  <2>2. e.history = assertions[a].history
    BY <2>1 DEF AssertionRec
  <2>3. assertions' = [assertions EXCEPT ![a] = e]
    BY <1>9 DEF AddEvidence, Commits
  <2>4. AcceptsNothing(assertions)
    BY DEF AcceptsNothing
  <2> HIDE DEF e, ByP
  <2>5. AcceptsNothing([assertions EXCEPT ![a] = e])
    BY <2>1, <2>2, <2>4, ExceptAccepts
  <2> QED
    BY <1>2, <1>9, <2>3, <2>5 DEF AddEvidence, Commits
<1>10. ASSUME NEW b \in Branch, NEW parent \in Branch, CreateBranch(p, b, parent)
       PROVE  Fine /\ ByP
  <2>1. AcceptsNothing(assertions)
    BY DEF AcceptsNothing
  <2> HIDE DEF ByP
  <2> QED
    BY <1>2, <1>10, <2>1 DEF CreateBranch
<1> QED
  BY <1>1, <1>3, <1>4, <1>5, <1>6, <1>7, <1>8, <1>9, <1>10

\* A step keeps the chain of a branch, adds to the assertions, and keeps where the old ones
\* are and what they override.
LEMMA NextKeeps ==
  ASSUME IInv, Next
  PROVE  /\ \A b \in DOMAIN branches : chain'[b] = chain[b]
         /\ Len(assertions) \in Nat /\ Len(assertions') \in Nat
         /\ Len(assertions) <= Len(assertions')
         /\ \A a \in 1..Len(assertions) :
              /\ assertions'[a].branch = assertions[a].branch
              /\ assertions'[a].created = assertions[a].created
              /\ assertions'[a].overrides = assertions[a].overrides
<1>1. ASSUME NEW p \in Actor, NEW r \in Branch, CommitShape(assertions', r),
             Commits(p, r, assertions')
      PROVE  /\ \A b \in DOMAIN branches : chain'[b] = chain[b]
             /\ Len(assertions) <= Len(assertions')
             /\ \A a \in 1..Len(assertions) :
                  /\ assertions'[a].branch = assertions[a].branch
                  /\ assertions'[a].created = assertions[a].created
                  /\ assertions'[a].overrides = assertions[a].overrides
  BY <1>1 DEF Commits, CommitShape, KeepsOld
<1>2. ASSUME NEW p \in Actor, NEW new \in Branch, NEW parent \in Branch,
             CreateBranch(p, new, parent)
      PROVE  assertions' = assertions /\ \A b \in DOMAIN branches : chain'[b] = chain[b]
  BY <1>2 DEF CreateBranch, Exists, IInv, TypeOK
<1>3. Len(assertions) \in Nat /\ Len(assertions') \in Nat
  BY StepIInv DEF IInv, TypeOK
<1> QED
  BY <1>1, <1>2, <1>3, NextShape

\* What a branch sees after a step of the assertions that were there, it saw before.
LEMMA VisibleBefore ==
  ASSUME IInv, Next, NEW b \in DOMAIN branches, NEW a \in 1..Len(assertions),
         Visible(b, a)'
  PROVE  /\ Visible(b, a)
         /\ LimitOf(b, assertions[a].branch)' = LimitOf(b, assertions[a].branch)
<1>1. /\ chain'[b] = chain[b]
      /\ Len(assertions) \in Nat /\ Len(assertions') \in Nat
      /\ Len(assertions) <= Len(assertions')
      /\ \A o \in 1..Len(assertions) :
           /\ assertions'[o].branch = assertions[o].branch
           /\ assertions'[o].created = assertions[o].created
           /\ assertions'[o].overrides = assertions[o].overrides
  BY NextKeeps
<1>2. /\ \A c : InChain(b, c)' <=> InChain(b, c)
      /\ \A c : Position(b, c)' = Position(b, c)
      /\ \A c : LimitOf(b, c)' = LimitOf(b, c)
  BY <1>1 DEF InChain, Position, LimitOf
<1>3. ASSUME OverriddenIn(b, a)
      PROVE  OverriddenIn(b, a)'
  <2>1. PICK o \in 1..Len(assertions) :
          /\ assertions[o].overrides = a
          /\ InChain(b, assertions[o].branch)
          /\ Position(b, assertions[o].branch) < Position(b, assertions[a].branch)
          /\ assertions[o].created <= LimitOf(b, assertions[o].branch)
    BY <1>3 DEF OverriddenIn
  <2>2. o \in 1..Len(assertions')
    BY <1>1
  <2>3. /\ assertions'[o].overrides = a
        /\ InChain(b, assertions[o].branch)'
        /\ Position(b, assertions[o].branch)' < Position(b, assertions[a].branch)'
        /\ assertions'[o].created <= LimitOf(b, assertions[o].branch)'
    BY <1>1, <1>2, <2>1
  <2> QED
    BY <2>2, <2>3 DEF OverriddenIn
<1> QED
  BY <1>1, <1>2, <1>3 DEF Visible

\* From the inductive invariant, every step that accepts is a curator's.
LEMMA StepAcceptance ==
  ASSUME IInv, Next
  PROVE  AcceptanceStep
<1> SUFFICES ASSUME NEW b \in DOMAIN branches, NEW a \in 1..Len(assertions'),
                    EffectiveStatus(b, a)' = "accepted",
                    a > Len(assertions) \/ EffectiveStatus(b, a) # "accepted",
                    AcceptsNothing(assertions')
             PROVE  FALSE
  BY NextAccepts DEF AcceptanceStep
<1> DEFINE c == assertions'[a].branch
           limit == LimitOf(b, c)
<1>2. chain'[b] = chain[b]
  BY NextKeeps
<1>3. LimitOf(b, assertions[a].branch)' = limit /\ (InChain(b, assertions[a].branch)' <=> InChain(b, c))
  BY <1>2 DEF LimitOf, Position, InChain
<1>1. Visible(b, a)' /\ assertions'[a].history[limit] = "accepted"
  BY <1>3 DEF EffectiveStatus, Hidden, StatusAt
<1>4. InChain(b, c) /\ assertions'[a].created <= limit
  BY <1>1, <1>3 DEF Visible
<1>5. assertions'[a].created \in 1..MaxSeq
  <2>1. assertions'[a] \in AssertionRec
    BY StepIInv DEF IInv, TypeOK
  <2> QED
    BY <2>1 DEF AssertionRec
<1>6. limit \in 0..MaxSeq
  BY <1>4, LimitOfOther
<1> HIDE DEF limit
<1>7. limit \in 1..MaxSeq
  BY <1>4, <1>5, <1>6, BranchingAssumption
<1>8. a \in 1..Len(assertions) /\ assertions[a].history[limit] = "accepted"
  BY <1>1, <1>3, <1>7 DEF AcceptsNothing
<1>9. EffectiveStatus(b, a) = "accepted"
  <2>1. c = assertions[a].branch
    BY <1>8, NextKeeps
  <2>2. Visible(b, a)
    BY <1>1, <1>8, VisibleBefore
  <2> QED
    BY <1>8, <2>1, <2>2 DEF EffectiveStatus, StatusAt, limit
<1> QED
  BY <1>8, <1>9 DEF IInv, TypeOK

\* An assertion becomes accepted only by a human curator's request, in the view of every
\* branch: no retraction, dispute, replacement, evidence or fork accepts on the way
\* (require_curator, status_cmds, effective_status).
THEOREM AcceptedByCurator == Spec => AcceptedOnlyByCurator
<1>1. Init => IInv
  BY InitIInv
<1>2. IInv /\ [Next]_vars => IInv'
  BY StepIInv
<1>3. IInv /\ [Next]_vars => [AcceptanceStep]_vars
  BY StepAcceptance
<1> QED
  BY <1>1, <1>2, <1>3, PTL DEF Spec, AcceptedOnlyByCurator

-----------------------------------------------------------------------------
(***************************************************************************)
(* That a new branch starts with the view of its parent.                    *)
(***************************************************************************)

(***************************************************************************)
(* list is at home at a seq: its assertions are on branches that exist,      *)
(* were created at that seq or before, and keep their status after it.        *)
(***************************************************************************)
AtHome(e, seq) ==
  /\ e.branch \in DOMAIN branches
  /\ e.created <= seq
  /\ \A s \in 1..MaxSeq : s >= seq => e.history[s] = e.history[seq]

AllAtHome(list, seq) == \A a \in 1..Len(list) : AtHome(list[a], seq)

\* Nothing of what is stored is ahead of the head, and main exists.
HomesOK == Main \in DOMAIN branches /\ AllAtHome(assertions, HeadSeq)

\* A chain names branches that exist, and each of them once.
LinksOK ==
  \A b \in DOMAIN chain : \A i, j \in 1..Len(chain[b]) :
    /\ chain[b][i].branch \in DOMAIN branches
    /\ chain[b][i].branch = chain[b][j].branch => i = j

FInv == IInv /\ HomesOK /\ LinksOK

-----------------------------------------------------------------------------
(* The helpers that build a request's commands.                             *)

\* The seq of the next revision is within the bound and follows the head.
LEMMA NextSeqType ==
  ASSUME IInv, HeadSeq < MaxSeq
  PROVE  HeadSeq \in Nat /\ NextSeq = HeadSeq + 1 /\ NextSeq \in 1..MaxSeq
BY BranchingAssumption DEF IInv, TypeOK, HeadSeq, NextSeq

\* What was at home at the head is so at the next revision.
LEMMA SameHome ==
  ASSUME IInv, HomesOK, HeadSeq < MaxSeq
  PROVE  AllAtHome(assertions, NextSeq)
<1> SUFFICES ASSUME NEW a \in 1..Len(assertions)
             PROVE  AtHome(assertions[a], NextSeq)
  BY DEF AllAtHome
<1>1. HeadSeq \in Nat /\ NextSeq = HeadSeq + 1 /\ NextSeq \in 1..MaxSeq
  BY NextSeqType
<1>2. AtHome(assertions[a], HeadSeq)
  BY DEF HomesOK, AllAtHome
<1>3. assertions[a].created \in 1..MaxSeq
  <2>1. assertions[a] \in AssertionRec
    BY DEF IInv, TypeOK
  <2> QED
    BY <2>1 DEF AssertionRec
<1> QED
  BY <1>1, <1>2, <1>3 DEF AtHome

\* Adding an assertion.
LEMMA AppendHome ==
  ASSUME NEW S, NEW list \in Seq(S), AllAtHome(list, NextSeq), NEW n, AtHome(n, NextSeq)
  PROVE  AllAtHome(Append(list, n), NextSeq)
<1> DEFINE more == Append(list, n)
<1>1. /\ Len(list) \in Nat
      /\ Len(more) = Len(list) + 1
      /\ \A i \in 1..Len(list) : more[i] = list[i]
      /\ more[Len(list) + 1] = n
  OBVIOUS
<1> HIDE DEF more
<1>2. AllAtHome(more, NextSeq)
  <2> SUFFICES ASSUME NEW a \in 1..Len(more)
               PROVE  AtHome(more[a], NextSeq)
    BY DEF AllAtHome
  <2>1. CASE a = Len(list) + 1
    BY <1>1, <2>1
  <2>2. CASE a \in 1..Len(list)
    BY <1>1, <2>2 DEF AllAtHome
  <2> QED
    BY <1>1, <2>1, <2>2
<1> QED
  BY <1>2 DEF more

\* Changing an assertion.
LEMMA ExceptHome ==
  ASSUME NEW S, NEW list \in Seq(S), AllAtHome(list, NextSeq),
         NEW k \in 1..Len(list), NEW e, AtHome(e, NextSeq)
  PROVE  AllAtHome([list EXCEPT ![k] = e], NextSeq)
<1> DEFINE new == [list EXCEPT ![k] = e]
           R == S \cup {e}
<1>1. list \in Seq(R) /\ e \in R
  OBVIOUS
<1> HIDE DEF R
<1>2. /\ Len(new) = Len(list)
      /\ \A i \in 1..Len(list) : new[i] = IF i = k THEN e ELSE list[i]
  BY <1>1, ExceptSeq
<1> HIDE DEF new
<1>3. AllAtHome(new, NextSeq)
  BY <1>2 DEF AllAtHome
<1> QED
  BY <1>3 DEF new

\* A status that is set holds from the next revision on.
LEMMA BecameSettled ==
  ASSUME NextSeq \in 1..MaxSeq, NEW st, NEW earlier
  PROVE  \A s \in 1..MaxSeq :
           s >= NextSeq => Became(st, earlier)[s] = Became(st, earlier)[NextSeq]
BY DEF Became

\* status_cmds.
LEMMA WithStatusHome ==
  ASSUME IInv, HeadSeq < MaxSeq, NEW list \in Seq(AssertionRec), AllAtHome(list, NextSeq),
         Len(assertions) <= Len(list),
         NEW r \in DOMAIN branches, NEW a \in 1..Len(assertions), NEW st
  PROVE  AllAtHome(WithStatus(list, r, a, st), NextSeq)
<1>1. /\ a \in 1..Len(list)
      /\ list[a] \in AssertionRec
      /\ assertions[a] \in AssertionRec
      /\ NextSeq \in 1..MaxSeq
  BY NextSeqType DEF IInv, TypeOK
<1>2. AtHome(list[a], NextSeq)
  BY <1>1 DEF AllAtHome
<1>3. CASE assertions[a].branch = r
  <2> DEFINE h == Became(st, list[a].history)
             e == [list[a] EXCEPT !.history = h]
  <2>1. \A s \in 1..MaxSeq : s >= NextSeq => h[s] = h[NextSeq]
    BY <1>1, BecameSettled
  <2>2. WithStatus(list, r, a, st) = [list EXCEPT ![a] = e]
    BY <1>3 DEF WithStatus
  <2> HIDE DEF h
  <2>3. e.history = h /\ e.branch = list[a].branch /\ e.created = list[a].created
    BY <1>1 DEF AssertionRec
  <2> HIDE DEF e
  <2>4. AtHome(e, NextSeq)
    BY <1>2, <2>1, <2>3 DEF AtHome
  <2>5. AllAtHome([list EXCEPT ![a] = e], NextSeq)
    BY <1>1, <2>4, ExceptHome
  <2> QED
    BY <2>2, <2>5
<1>4. CASE assertions[a].branch # r
  <2> DEFINE h == Became(st, NeverWas)
             c == [assertions[a] EXCEPT
                     !.branch = r, !.created = NextSeq, !.history = h, !.overrides = a]
  <2>1. \A s \in 1..MaxSeq : s >= NextSeq => h[s] = h[NextSeq]
    BY <1>1, BecameSettled
  <2>2. WithStatus(list, r, a, st) = Append(list, c)
    BY <1>4 DEF WithStatus
  <2> HIDE DEF h
  <2>3. c.history = h /\ c.branch = r /\ c.created = NextSeq
    BY <1>1 DEF AssertionRec
  <2> HIDE DEF c
  <2>4. AtHome(c, NextSeq)
    BY <1>1, <2>1, <2>3 DEF AtHome
  <2>5. AllAtHome(Append(list, c), NextSeq)
    BY <2>4, AppendHome
  <2> QED
    BY <2>2, <2>5
<1> QED
  BY <1>3, <1>4

\* A new assertion.
LEMMA NewHome ==
  ASSUME IInv, HomesOK, HeadSeq < MaxSeq,
         NEW p, NEW r \in DOMAIN branches, NEW st, NEW old
  PROVE  AllAtHome(Append(assertions, NewAssertion(p, r, st, old)), NextSeq)
<1> DEFINE n == NewAssertion(p, r, st, old)
<1>1. n.branch = r /\ n.created = NextSeq /\ n.history = Became(st, NeverWas)
  BY DEF NewAssertion
<1>2. NextSeq \in 1..MaxSeq
  BY NextSeqType
<1> HIDE DEF n
<1>3. AtHome(n, NextSeq)
  BY <1>1, <1>2, BecameSettled DEF AtHome
<1>4. AllAtHome(Append(assertions, n), NextSeq)
  BY <1>3, SameHome, AppendHome DEF IInv, TypeOK
<1> QED
  BY <1>4 DEF n

\* A change of one status, and an acceptance.
LEMMA ChangeHome ==
  ASSUME IInv, HomesOK, HeadSeq < MaxSeq,
         NEW r \in DOMAIN branches, NEW a \in 1..Len(assertions), NEW st
  PROVE  AllAtHome(WithStatus(assertions, r, a, st), NextSeq)
BY SameHome, WithStatusHome DEF IInv, TypeOK

LEMMA AcceptHome ==
  ASSUME IInv, HomesOK, HeadSeq < MaxSeq,
         NEW r \in DOMAIN branches, NEW a \in 1..Len(assertions)
  PROVE  AllAtHome(AcceptedList(r, a), NextSeq)
<1> DEFINE old == assertions[a].supersedes
           accepted == WithStatus(assertions, r, a, "accepted")
<1>1. AllAtHome(accepted, NextSeq)
  BY ChangeHome
<1>2. CASE old = None
  BY <1>1, <1>2 DEF AcceptedList
<1>3. CASE old # None
  <2>1. old \in 1..Len(assertions)
    BY <1>3 DEF IInv, RefsOK, RefsIn, None, TypeOK
  <2>2. AcceptedList(r, a) = WithStatus(accepted, r, old, "superseded")
    BY <1>3 DEF AcceptedList
  <2>3. r \in Branch
    BY DEF IInv, TypeOK
  <2>4. CommitShape(accepted, r)
    BY <2>3, ChangeShape DEF IInv, Status
  <2> HIDE DEF accepted, old
  <2>5. accepted \in Seq(AssertionRec) /\ Len(assertions) <= Len(accepted)
    BY <2>4 DEF CommitShape
  <2> QED
    BY <1>1, <2>1, <2>2, <2>5, WithStatusHome
<1> QED
  BY <1>2, <1>3

\* A replacement, the link to it, and the retirement of what it replaces.
LEMMA SupersedeHome ==
  ASSUME IInv, HomesOK, HeadSeq < MaxSeq,
         NEW p \in Actor, NEW r \in DOMAIN branches, NEW old \in 1..Len(assertions),
         NEW st \in Status, Len(SupersededList(p, r, old, st)) <= MaxAssertions
  PROVE  AllAtHome(SupersededList(p, r, old, st), NextSeq)
<1> DEFINE n       == NewAssertion(p, r, st, old)
           added   == Append(assertions, n)
           e       == [added[old] EXCEPT !.supersededBy = Len(added)]
           linked  == [added EXCEPT ![old] = e]
           retired == WithStatus(linked, r, old, "superseded")
<1>1. SupersededList(p, r, old, st) = IF st = "accepted" THEN retired ELSE linked
  BY DEF SupersededList
<1>2. AllAtHome(added, NextSeq)
  BY NewHome
<1>3. r \in Branch /\ old \in 0..MaxAssertions /\ Len(assertions) \in Nat
  BY BranchingAssumption DEF IInv, TypeOK
<1>4. n \in AssertionRec
  BY <1>3, NewAssertionType DEF IInv
<1> HIDE DEF n
<1>5. /\ added \in Seq(AssertionRec)
      /\ Len(added) = Len(assertions) + 1
      /\ old \in 1..Len(added)
      /\ added[old] \in AssertionRec
  BY <1>3, <1>4 DEF IInv, TypeOK
<1> HIDE DEF added
<1>6. /\ e.branch = added[old].branch
      /\ e.created = added[old].created
      /\ e.history = added[old].history
  BY <1>5 DEF AssertionRec
<1>7. AtHome(e, NextSeq)
  <2> HIDE DEF e
  <2>1. AtHome(added[old], NextSeq)
    BY <1>2, <1>5 DEF AllAtHome
  <2> QED
    BY <1>6, <2>1 DEF AtHome
<1>8. AllAtHome(linked, NextSeq)
  <2> HIDE DEF e
  <2> QED
    BY <1>2, <1>5, <1>7, ExceptHome
<1>9. Len(linked) = Len(added)
  BY <1>5
<1>10. CASE st # "accepted"
  BY <1>1, <1>8, <1>10
<1>11. CASE st = "accepted"
  <2>1. Len(linked) <= Len(retired)
    <3> DEFINE R == AssertionRec \cup {e}
    <3>1. added \in Seq(R) /\ e \in R
      BY <1>5
    <3> HIDE DEF R, e
    <3>2. linked \in Seq(R)
      BY <1>5, <3>1, ExceptSeq
    <3> HIDE DEF linked
    <3> QED
      BY <1>5, <1>9, <3>2, WithStatusLen
  <2>2. Len(added) <= MaxAssertions
    <3>1. Len(retired) \in Nat
      <4> DEFINE R == AssertionRec \cup {e}
      <4>1. added \in Seq(R) /\ e \in R
        BY <1>5
      <4> HIDE DEF R, e
      <4>2. linked \in Seq(R)
        BY <1>5, <4>1, ExceptSeq
      <4> HIDE DEF linked
      <4> QED
        BY <1>5, <1>9, <4>2, WithStatusLen
    <3>2. Len(retired) <= MaxAssertions
      BY <1>1, <1>11
    <3>3. Len(added) \in Nat
      BY <1>5
    <3> HIDE DEF linked, retired
    <3> QED
      BY <1>9, <2>1, <3>1, <3>2, <3>3, BranchingAssumption
  <2>3. e \in AssertionRec
    <3>1. Len(added) \in 0..MaxAssertions
      BY <1>5, <2>2, BranchingAssumption
    <3> QED
      BY <1>5, <3>1, LinkedType
  <2>4. linked \in Seq(AssertionRec)
    <3> HIDE DEF e
    <3> QED
      BY <1>5, <2>3, ExceptSeq
  <2>5. Len(assertions) <= Len(linked)
    BY <1>3, <1>5, <1>9
  <2> HIDE DEF linked, e
  <2>6. AllAtHome(retired, NextSeq)
    BY <1>8, <2>4, <2>5, WithStatusHome
  <2> HIDE DEF retired
  <2> QED
    BY <1>1, <1>11, <2>6
<1> QED
  BY <1>10, <1>11

-----------------------------------------------------------------------------
(* The steps.                                                               *)

\* A commit puts every assertion on a branch that exists, and settles it.
LEMMA NextHome ==
  ASSUME IInv, HomesOK, Next
  PROVE  \/ HeadSeq < MaxSeq /\ AllAtHome(assertions', NextSeq)
         \/ assertions' = assertions
<1> USE DEF IInv
<1>1. PICK p \in Actor :
         \/ \E b \in Branch, st \in Status : ProposeAssertion(p, b, st)
         \/ \E b \in Branch, a \in 1..Len(assertions) : RetractAssertion(p, b, a)
         \/ \E b \in Branch, a \in 1..Len(assertions) : DisputeAssertion(p, b, a)
         \/ \E b \in Branch, a \in 1..Len(assertions) : AcceptAssertion(p, b, a)
         \/ \E b \in Branch, a \in 1..Len(assertions), st \in Status :
              SupersedeAssertion(p, b, a, st)
         \/ \E a \in 1..Len(assertions) : VerifyAssertion(p, a)
         \/ \E a \in 1..Len(assertions), e \in Evidence : AddEvidence(p, a, e)
         \/ \E b, parent \in Branch : CreateBranch(p, b, parent)
  BY DEF Next
<1>2. ASSUME NEW b \in Branch, NEW st \in Status, ProposeAssertion(p, b, st)
      PROVE  HeadSeq < MaxSeq /\ AllAtHome(assertions', NextSeq)
  BY <1>2, NewHome DEF ProposeAssertion, Commits, Exists
<1>3. ASSUME NEW b \in Branch, NEW a \in 1..Len(assertions), RetractAssertion(p, b, a)
      PROVE  HeadSeq < MaxSeq /\ AllAtHome(assertions', NextSeq)
  BY <1>3, ChangeHome DEF RetractAssertion, Commits, Exists
<1>4. ASSUME NEW b \in Branch, NEW a \in 1..Len(assertions), DisputeAssertion(p, b, a)
      PROVE  HeadSeq < MaxSeq /\ AllAtHome(assertions', NextSeq)
  BY <1>4, ChangeHome DEF DisputeAssertion, Commits, Exists
<1>5. ASSUME NEW b \in Branch, NEW a \in 1..Len(assertions), AcceptAssertion(p, b, a)
      PROVE  HeadSeq < MaxSeq /\ AllAtHome(assertions', NextSeq)
  BY <1>5, AcceptHome DEF AcceptAssertion, Commits, Exists
<1>6. ASSUME NEW b \in Branch, NEW a \in 1..Len(assertions), NEW st \in Status,
             SupersedeAssertion(p, b, a, st)
      PROVE  HeadSeq < MaxSeq /\ AllAtHome(assertions', NextSeq)
  BY <1>6, SupersedeHome DEF SupersedeAssertion, Commits, Exists
<1>7. ASSUME NEW a \in 1..Len(assertions), NEW e, HeadSeq < MaxSeq,
             assertions' = [assertions EXCEPT ![a] = e],
             e.branch = assertions[a].branch,
             e.created = assertions[a].created,
             e.history = assertions[a].history
      PROVE  HeadSeq < MaxSeq /\ AllAtHome(assertions', NextSeq)
  <2>1. AllAtHome(assertions, NextSeq)
    BY <1>7, SameHome
  <2>2. AtHome(e, NextSeq)
    BY <1>7, <2>1 DEF AllAtHome, AtHome
  <2>3. AllAtHome([assertions EXCEPT ![a] = e], NextSeq)
    BY <2>1, <2>2, ExceptHome DEF TypeOK
  <2> QED
    BY <1>7, <2>3
<1>8. ASSUME NEW a \in 1..Len(assertions), VerifyAssertion(p, a)
      PROVE  HeadSeq < MaxSeq /\ AllAtHome(assertions', NextSeq)
  <2> DEFINE e == [assertions[a] EXCEPT !.verified = TRUE]
  <2>1. /\ e.branch = assertions[a].branch
        /\ e.created = assertions[a].created
        /\ e.history = assertions[a].history
    BY VerifiedType DEF TypeOK
  <2>2. assertions' = [assertions EXCEPT ![a] = e] /\ HeadSeq < MaxSeq
    BY <1>8 DEF VerifyAssertion, Commits
  <2> HIDE DEF e
  <2> QED
    BY <1>7, <2>1, <2>2
<1>9. ASSUME NEW a \in 1..Len(assertions), NEW ev \in Evidence, AddEvidence(p, a, ev)
      PROVE  HeadSeq < MaxSeq /\ AllAtHome(assertions', NextSeq)
  <2> DEFINE e == [assertions[a] EXCEPT !.evidence = assertions[a].evidence \cup {ev}]
  <2>1. /\ e.branch = assertions[a].branch
        /\ e.created = assertions[a].created
        /\ e.history = assertions[a].history
    <3>1. assertions[a] \in AssertionRec
      BY DEF TypeOK
    <3>2. assertions[a].evidence \cup {ev} \in SUBSET Evidence
      BY <3>1 DEF AssertionRec
    <3> QED
      BY <3>1, <3>2, EvidenceType
  <2>2. assertions' = [assertions EXCEPT ![a] = e] /\ HeadSeq < MaxSeq
    BY <1>9 DEF AddEvidence, Commits
  <2> HIDE DEF e
  <2> QED
    BY <1>7, <2>1, <2>2
<1>10. ASSUME NEW b \in Branch, NEW parent \in Branch, CreateBranch(p, b, parent)
       PROVE  assertions' = assertions
  BY <1>10 DEF CreateBranch
<1> QED
  BY <1>1, <1>2, <1>3, <1>4, <1>5, <1>6, <1>8, <1>9, <1>10

\* The chain of a new branch, link by link: itself, then what its parent sees, cut.
LEMMA NewLinks ==
  ASSUME IInv, NEW b, NEW parent \in DOMAIN chain
  PROVE  /\ Len(chain[parent]) \in Nat
         /\ Len(ChainOfNew(b, parent, HeadSeq)) = Len(chain[parent]) + 1
         /\ ChainOfNew(b, parent, HeadSeq)[1].branch = b
         /\ \A i \in 1..Len(chain[parent]) :
              /\ ChainOfNew(b, parent, HeadSeq)[i + 1].branch = chain[parent][i].branch
              /\ ChainOfNew(b, parent, HeadSeq)[i + 1].limit = Min2(chain[parent][i].limit, HeadSeq)
         /\ \A i \in 1..Len(chain[parent]) + 1 : i = 1 \/ i - 1 \in 1..Len(chain[parent])
<1> DEFINE up == chain[parent]
<1>1. Len(up) \in Nat
  BY LinkType DEF IInv, TypeOK
<1> HIDE DEF up
<1>2. ChainOfNew(b, parent, HeadSeq) =
        [i \in 1..(Len(up) + 1) |->
           IF i = 1 THEN [branch |-> b, limit |-> MaxSeq]
           ELSE [branch |-> up[i - 1].branch, limit |-> Min2(up[i - 1].limit, HeadSeq)]]
  BY DEF ChainOfNew, up
<1> DEFINE new == ChainOfNew(b, parent, HeadSeq)
<1>3. Len(new) = Len(up) + 1
  BY <1>1, <1>2
<1>4. new[1] = [branch |-> b, limit |-> MaxSeq]
  BY <1>1, <1>2
<1>5. \A i \in 1..Len(up) :
        new[i + 1] = [branch |-> up[i].branch, limit |-> Min2(up[i].limit, HeadSeq)]
  <2> SUFFICES ASSUME NEW i \in 1..Len(up)
               PROVE  new[i + 1] = [branch |-> up[i].branch, limit |-> Min2(up[i].limit, HeadSeq)]
    OBVIOUS
  <2>1. i + 1 \in 1..(Len(up) + 1) /\ i + 1 # 1 /\ (i + 1) - 1 = i
    BY <1>1
  <2> QED
    BY <1>2, <2>1
<1> HIDE DEF new
<1>6. \A i \in 1..Len(up) + 1 : i = 1 \/ i - 1 \in 1..Len(up)
  BY <1>1
<1>7. new[1].branch = b
  BY <1>4
<1>8. \A i \in 1..Len(up) :
        new[i + 1].branch = up[i].branch /\ new[i + 1].limit = Min2(up[i].limit, HeadSeq)
  <2> SUFFICES ASSUME NEW i \in 1..Len(up)
               PROVE  new[i + 1].branch = up[i].branch /\ new[i + 1].limit = Min2(up[i].limit, HeadSeq)
    OBVIOUS
  <2>1. new[i + 1] = [branch |-> up[i].branch, limit |-> Min2(up[i].limit, HeadSeq)]
    BY <1>5
  <2> QED
    BY <2>1
<1> QED
  BY <1>1, <1>3, <1>6, <1>7, <1>8 DEF up, new

\* The chains keep naming branches that exist, once each.
LEMMA NextLinks ==
  ASSUME IInv, LinksOK, Next
  PROVE  LinksOK' /\ DOMAIN branches \subseteq DOMAIN branches'
<1>1. ASSUME NEW p \in Actor, NEW r \in Branch, Commits(p, r, assertions')
      PROVE  LinksOK' /\ DOMAIN branches \subseteq DOMAIN branches'
  BY <1>1 DEF Commits, LinksOK
<1>2. ASSUME NEW p \in Actor, NEW b \in Branch, NEW parent \in Branch, CreateBranch(p, b, parent)
      PROVE  LinksOK' /\ DOMAIN branches \subseteq DOMAIN branches'
  <2> DEFINE new == ChainOfNew(b, parent, HeadSeq)
             n   == Len(chain[parent])
  <2>1. /\ parent \in DOMAIN chain
        /\ b \notin DOMAIN branches
        /\ DOMAIN branches' = DOMAIN branches \cup {b}
        /\ chain' = [c \in DOMAIN chain \cup {b} |-> IF c = b THEN new ELSE chain[c]]
    BY <1>2 DEF CreateBranch, Exists, ForkPoint, IInv, TypeOK
  <2>2. /\ n \in Nat
        /\ Len(new) = n + 1
        /\ new[1].branch = b
        /\ \A i \in 1..n : new[i + 1].branch = chain[parent][i].branch
        /\ \A i \in 1..n + 1 : i = 1 \/ i - 1 \in 1..n
    BY <2>1, NewLinks
  <2>3. \A i, j \in 1..n :
          /\ chain[parent][i].branch \in DOMAIN branches
          /\ chain[parent][i].branch = chain[parent][j].branch => i = j
    BY <2>1 DEF LinksOK
  <2> HIDE DEF new, n
  <2>4. \A i \in 1..n + 1 : i # 1 => new[i].branch = chain[parent][i - 1].branch
    <3> SUFFICES ASSUME NEW i \in 1..n + 1, i # 1
                 PROVE  new[i].branch = chain[parent][i - 1].branch
      OBVIOUS
    <3>1. i - 1 \in 1..n /\ (i - 1) + 1 = i
      BY <2>2
    <3> QED
      BY <2>2, <3>1
  <2>5. \A i, j \in 1..Len(new) :
          /\ new[i].branch \in DOMAIN branches'
          /\ new[i].branch = new[j].branch => i = j
    <3> SUFFICES ASSUME NEW i \in 1..n + 1, NEW j \in 1..n + 1
                 PROVE  /\ new[i].branch \in DOMAIN branches'
                        /\ new[i].branch = new[j].branch => i = j
      BY <2>2
    <3>1. new[i].branch \in DOMAIN branches'
      BY <2>1, <2>2, <2>3, <2>4
    <3>2. CASE i = 1 \/ j = 1
      BY <2>1, <2>2, <2>3, <2>4, <3>2
    <3>3. CASE i # 1 /\ j # 1
      <4>1. i - 1 \in 1..n /\ j - 1 \in 1..n /\ (i - 1 = j - 1 => i = j)
        BY <2>2, <3>3
      <4> QED
        BY <2>3, <2>4, <3>1, <3>3, <4>1
    <3> QED
      BY <3>1, <3>2, <3>3
  <2>6. LinksOK'
    <3> SUFFICES ASSUME NEW c \in DOMAIN chain', NEW i \in 1..Len(chain'[c]), NEW j \in 1..Len(chain'[c])
                 PROVE  /\ chain'[c][i].branch \in DOMAIN branches'
                        /\ chain'[c][i].branch = chain'[c][j].branch => i = j
      BY DEF LinksOK
    <3>1. CASE c = b
      BY <2>1, <2>5, <3>1
    <3>2. CASE c # b
      BY <2>1, <3>2 DEF LinksOK
    <3> QED
      BY <3>1, <3>2
  <2> QED
    BY <2>1, <2>6
<1> QED
  BY <1>1, <1>2, NextShape

\* The stronger invariant is inductive.
LEMMA InitFInv ==
  ASSUME Init
  PROVE  FInv
<1>1. HomesOK
  BY DEF Init, HomesOK, AllAtHome
<1>2. LinksOK
  BY DEF Init, LinksOK
<1> QED
  BY <1>1, <1>2, InitIInv DEF FInv

LEMMA StepFInv ==
  ASSUME FInv, [Next]_vars
  PROVE  FInv'
<1>1. IInv'
  BY StepIInv DEF FInv
<1>2. CASE UNCHANGED vars
  BY <1>1, <1>2 DEF vars, FInv, HomesOK, AllAtHome, AtHome, LinksOK, HeadSeq
<1>3. CASE Next
  <2>1. LinksOK' /\ DOMAIN branches \subseteq DOMAIN branches'
    BY <1>3, NextLinks DEF FInv
  <2>2. HeadSeq < MaxSeq /\ HeadSeq' = NextSeq
    <3>1. \E p \in Actor, r \in Branch : Commit(p, r) /\ HeadSeq < MaxSeq
      BY <1>3, NextShape DEF FInv, Commits, CreateBranch
    <3> QED
      BY <3>1 DEF Commit, HeadSeq, NextSeq, FInv, IInv, TypeOK
  <2>3. AllAtHome(assertions', NextSeq)
    BY <1>3, <2>2, NextHome, SameHome DEF FInv
  <2>4. HomesOK'
    <3> SUFFICES ASSUME NEW a \in 1..Len(assertions')
                 PROVE  AtHome(assertions[a], HeadSeq)'
      BY <2>1 DEF HomesOK, AllAtHome, FInv
    <3>1. AtHome(assertions'[a], NextSeq)
      BY <2>3 DEF AllAtHome
    <3> QED
      BY <2>1, <2>2, <3>1 DEF AtHome
  <2> QED
    BY <1>1, <2>1, <2>4 DEF FInv
<1> QED
  BY <1>2, <1>3

-----------------------------------------------------------------------------
(* The view of a new branch.                                                *)

\* Where a new branch sees a branch, its parent does, one link nearer and perhaps further.
LEMMA NewPosition ==
  ASSUME FInv, NEW p \in Actor, NEW b \in Branch, NEW parent \in Branch,
         CreateBranch(p, b, parent), NEW c \in DOMAIN branches
  PROVE  /\ InChain(b, c)' <=> InChain(parent, c)
         /\ InChain(parent, c) =>
              /\ Position(parent, c) \in Nat
              /\ Position(b, c)' = Position(parent, c) + 1
              /\ LimitOf(b, c)' = Min2(LimitOf(parent, c), HeadSeq)
<1> DEFINE new == ChainOfNew(b, parent, HeadSeq)
           up  == chain[parent]
           n   == Len(up)
<1>1. /\ parent \in DOMAIN chain
      /\ b # c
      /\ chain'[b] = new
  BY DEF CreateBranch, Exists, ForkPoint, FInv, IInv, TypeOK
<1>2. /\ n \in Nat
      /\ Len(new) = n + 1
      /\ new[1].branch = b
      /\ \A i \in 1..n : /\ new[i + 1].branch = up[i].branch
                         /\ new[i + 1].limit = Min2(up[i].limit, HeadSeq)
      /\ \A i \in 1..n + 1 : i = 1 \/ i - 1 \in 1..n
  BY <1>1, NewLinks DEF FInv
<1>3. \A i, j \in 1..n : up[i].branch = up[j].branch => i = j
  BY <1>1 DEF FInv, LinksOK
<1>4. InChain(parent, c) <=> \E i \in 1..n : up[i].branch = c
  BY DEF InChain
<1>5. InChain(b, c)' <=> \E i \in 1..n + 1 : new[i].branch = c
  BY <1>1, <1>2 DEF InChain
<1>6. Position(parent, c) = CHOOSE i \in 1..n : up[i].branch = c
  BY DEF Position
<1>7. Position(b, c)' = CHOOSE i \in 1..n + 1 : new[i].branch = c
  BY <1>1, <1>2 DEF Position
<1>8. /\ LimitOf(parent, c) = up[Position(parent, c)].limit
      /\ LimitOf(b, c)' = new[Position(b, c)'].limit
  BY <1>1 DEF LimitOf
<1> HIDE DEF new, up, n
<1>9. \A i \in 1..n + 1 : new[i].branch = c => i - 1 \in 1..n /\ up[i - 1].branch = c
  <2> SUFFICES ASSUME NEW i \in 1..n + 1, new[i].branch = c
               PROVE  i - 1 \in 1..n /\ up[i - 1].branch = c
    OBVIOUS
  <2>1. i # 1
    BY <1>1, <1>2
  <2>2. i - 1 \in 1..n /\ (i - 1) + 1 = i
    BY <1>2, <2>1
  <2> QED
    BY <1>2, <2>2
<1>10. \A i \in 1..n : up[i].branch = c => i + 1 \in 1..n + 1 /\ new[i + 1].branch = c
  BY <1>2
<1>11. InChain(b, c)' <=> InChain(parent, c)
  BY <1>4, <1>5, <1>9, <1>10
<1>12. ASSUME InChain(parent, c)
       PROVE  /\ Position(parent, c) \in Nat
              /\ Position(b, c)' = Position(parent, c) + 1
              /\ LimitOf(b, c)' = Min2(LimitOf(parent, c), HeadSeq)
  <2> DEFINE at == Position(parent, c)
  <2>1. at \in 1..n /\ up[at].branch = c
    BY <1>4, <1>6, <1>12
  <2> HIDE DEF at
  <2>2. at + 1 \in 1..n + 1 /\ new[at + 1].branch = c
    BY <1>10, <2>1
  <2>3. \A i \in 1..n + 1 : new[i].branch = c => i = at + 1
    <3> SUFFICES ASSUME NEW i \in 1..n + 1, new[i].branch = c
                 PROVE  i = at + 1
      OBVIOUS
    <3>1. i - 1 = at
      BY <1>3, <1>9, <2>1
    <3> QED
      BY <1>2, <3>1
  <2>4. Position(b, c)' = at + 1
    BY <1>7, <2>2, <2>3
  <2>5. new[at + 1].limit = Min2(up[at].limit, HeadSeq)
    BY <1>2, <2>1
  <2> QED
    BY <1>2, <1>8, <2>1, <2>4, <2>5 DEF at
<1> QED
  BY <1>11, <1>12

\* What a branch shows of the assertions, a branch made from it shows with the same status.
LEMMA NewStatus ==
  ASSUME FInv, NEW p \in Actor, NEW b \in Branch, NEW parent \in Branch,
         CreateBranch(p, b, parent), NEW a \in 1..Len(assertions)
  PROVE  EffectiveStatus(b, a)' = EffectiveStatus(parent, a)
<1> DEFINE c == assertions[a].branch
<1>1. assertions' = assertions /\ parent \in DOMAIN branches
  BY DEF CreateBranch, Exists
<1>2. HeadSeq \in Nat /\ HeadSeq < MaxSeq
  BY DEF CreateBranch, FInv, IInv, TypeOK, HeadSeq
<1>3. ASSUME NEW o \in 1..Len(assertions)
      PROVE  /\ assertions[o].branch \in DOMAIN branches
             /\ assertions[o].created \in 1..MaxSeq
             /\ assertions[o].created <= HeadSeq
             /\ \A s \in 1..MaxSeq : s >= HeadSeq => assertions[o].history[s] = assertions[o].history[HeadSeq]
  <2>1. assertions[o] \in AssertionRec
    BY DEF FInv, IInv, TypeOK
  <2>2. AtHome(assertions[o], HeadSeq)
    BY DEF FInv, HomesOK, AllAtHome
  <2> QED
    BY <2>1, <2>2 DEF AssertionRec, AtHome
<1>4. ASSUME NEW o \in 1..Len(assertions), InChain(parent, assertions[o].branch)
      PROVE  /\ LimitOf(parent, assertions[o].branch) \in 0..MaxSeq
             /\ assertions[o].created <= Min2(LimitOf(parent, assertions[o].branch), HeadSeq)
                  <=> assertions[o].created <= LimitOf(parent, assertions[o].branch)
  <2> DEFINE l == LimitOf(parent, assertions[o].branch)
  <2>1. l \in 0..MaxSeq
    BY <1>1, <1>4, LimitOfOther DEF FInv
  <2> HIDE DEF l
  <2>2. assertions[o].created <= Min2(l, HeadSeq) <=> assertions[o].created <= l
    BY <1>2, <1>3, <2>1 DEF Min2
  <2> QED
    BY <2>1, <2>2 DEF l
<1>5. ASSUME InChain(parent, c)
      PROVE  OverriddenIn(b, a)' <=> OverriddenIn(parent, a)
  <2> DEFINE Hides(o) == /\ assertions[o].overrides = a
                         /\ InChain(parent, assertions[o].branch)
                         /\ Position(parent, assertions[o].branch) < Position(parent, c)
                         /\ assertions[o].created <= LimitOf(parent, assertions[o].branch)
             HidesNew(o) == /\ assertions[o].overrides = a
                            /\ InChain(b, assertions[o].branch)'
                            /\ Position(b, assertions[o].branch)' < Position(b, c)'
                            /\ assertions[o].created <= LimitOf(b, assertions[o].branch)'
  <2>1. OverriddenIn(parent, a) <=> \E o \in 1..Len(assertions) : Hides(o)
    BY DEF OverriddenIn
  <2>2. OverriddenIn(b, a)' <=> \E o \in 1..Len(assertions) : HidesNew(o)
    BY <1>1 DEF OverriddenIn
  <2>3. ASSUME NEW o \in 1..Len(assertions)
        PROVE  HidesNew(o) <=> Hides(o)
    <3> DEFINE d == assertions[o].branch
    <3>1. c \in DOMAIN branches /\ d \in DOMAIN branches
      BY <1>3
    <3>2. /\ Position(parent, c) \in Nat
          /\ Position(b, c)' = Position(parent, c) + 1
      BY <1>1, <1>5, <3>1, NewPosition
    <3>3. InChain(b, d)' <=> InChain(parent, d)
      BY <1>1, <3>1, NewPosition
    <3>4. CASE ~ InChain(parent, d)
      BY <1>1, <3>3, <3>4
    <3>5. CASE InChain(parent, d)
      <4>1. /\ Position(parent, d) \in Nat
            /\ Position(b, d)' = Position(parent, d) + 1
            /\ LimitOf(b, d)' = Min2(LimitOf(parent, d), HeadSeq)
        BY <1>1, <3>1, <3>5, NewPosition
      <4>2. Position(b, d)' < Position(b, c)' <=> Position(parent, d) < Position(parent, c)
        BY <3>2, <4>1
      <4>3. assertions[o].created <= LimitOf(b, d)' <=> assertions[o].created <= LimitOf(parent, d)
        BY <1>4, <3>5, <4>1
      <4> QED
        BY <1>1, <3>3, <4>2, <4>3
    <3> QED
      BY <3>4, <3>5
  <2> HIDE DEF Hides, HidesNew
  <2> QED
    BY <2>1, <2>2, <2>3
<1>6. c \in DOMAIN branches
  BY <1>3
<1>7. InChain(b, c)' <=> InChain(parent, c)
  BY <1>1, <1>6, NewPosition
<1>8. CASE ~ InChain(parent, c)
  <2>1. ~ Visible(parent, a) /\ ~ Visible(b, a)'
    BY <1>1, <1>7, <1>8 DEF Visible
  <2> QED
    BY <2>1 DEF EffectiveStatus
<1>9. CASE InChain(parent, c)
  <2> DEFINE l == LimitOf(parent, c)
  <2>1. LimitOf(b, c)' = Min2(l, HeadSeq)
    BY <1>1, <1>6, <1>9, NewPosition
  <2>2. l \in 0..MaxSeq /\ (assertions[a].created <= Min2(l, HeadSeq) <=> assertions[a].created <= l)
    BY <1>4, <1>9
  <2>3. Visible(b, a)' <=> Visible(parent, a)
    BY <1>1, <1>5, <1>7, <1>9, <2>1, <2>2 DEF Visible
  <2>4. CASE ~ Visible(parent, a)
    BY <2>3, <2>4 DEF EffectiveStatus
  <2>5. CASE Visible(parent, a)
    <3>1. assertions[a].created <= l
      BY <2>5 DEF Visible
    <3>2. assertions[a].history[Min2(l, HeadSeq)] = assertions[a].history[l]
      <4> HIDE DEF l
      <4>1. /\ assertions[a].created \in 1..MaxSeq
            /\ \A s \in 1..MaxSeq : s >= HeadSeq => assertions[a].history[s] = assertions[a].history[HeadSeq]
        BY <1>3
      <4>2. CASE l <= HeadSeq
        BY <4>2 DEF Min2
      <4>3. CASE ~ (l <= HeadSeq)
        <5>1. l \in 1..MaxSeq /\ l >= HeadSeq
          BY <1>2, <2>2, <4>3, BranchingAssumption
        <5> QED
          BY <4>1, <4>3, <5>1 DEF Min2
      <4> QED
        BY <4>2, <4>3
    <3>3. EffectiveStatus(parent, a) = assertions[a].history[l]
      BY <2>5 DEF EffectiveStatus, StatusAt
    <3>4. EffectiveStatus(b, a)' = assertions[a].history[Min2(l, HeadSeq)]
      BY <1>1, <2>1, <2>3, <2>5 DEF EffectiveStatus, StatusAt
    <3> QED
      BY <3>2, <3>3, <3>4
  <2> QED
    BY <2>4, <2>5
<1> QED
  BY <1>8, <1>9

\* From the invariant, every branch that a step creates shows what its parent showed.
LEMMA StepSnapshot ==
  ASSUME FInv, Next
  PROVE  SnapshotStep
<1>1. ASSUME NEW p \in Actor, NEW r \in Branch, Commits(p, r, assertions')
      PROVE  SnapshotStep
  BY <1>1 DEF Commits, SnapshotStep
<1>2. ASSUME NEW p \in Actor, NEW b \in Branch, NEW parent \in Branch, CreateBranch(p, b, parent)
      PROVE  SnapshotStep
  <2>1. /\ \A c \in DOMAIN branches' \ DOMAIN branches : c = b
        /\ branches'[b].parent = parent
        /\ assertions' = assertions
    BY <1>2 DEF CreateBranch
  <2>2. \A a \in 1..Len(assertions) : EffectiveStatus(b, a)' = EffectiveStatus(parent, a)
    BY <1>2, NewStatus
  <2>3. View(b)' = View(parent)
    BY <2>1, <2>2 DEF View
  <2> QED
    BY <2>1, <2>3 DEF SnapshotStep
<1> QED
  BY <1>1, <1>2, NextShape DEF FInv

\* A new branch shows what its parent shows when it is made: the same assertions with the same
\* statuses, whatever chain of branches the parent sees them through (create_branch,
\* branch_chain, effective_status).
THEOREM BranchStarts == Spec => BranchStartsAsParent
<1>1. Init => FInv
  BY InitFInv
<1>2. FInv /\ [Next]_vars => FInv'
  BY StepFInv
<1>3. FInv /\ [Next]_vars => [SnapshotStep]_vars
  BY StepSnapshot
<1> QED
  BY <1>1, <1>2, <1>3, PTL DEF Spec, BranchStartsAsParent

-----------------------------------------------------------------------------
(* The versions of a claim.                                                 *)

(***************************************************************************)
(* The walk of branch_chain over the branches bs, link by link.             *)
(***************************************************************************)
LinkAfter(bs, link) ==
  [branch |-> bs[link.branch].parent,
   limit  |-> Min2(link.limit, bs[link.branch].fork)]

WalkOK ==
  \A b \in DOMAIN branches :
    /\ chain[b][1] = [branch |-> b, limit |-> MaxSeq]
    /\ \A n \in 2..Len(chain[b]) : chain[b][n] = LinkAfter(branches, chain[b][n - 1])
    /\ chain[b][Len(chain[b])].branch = Main

\* Copies come after what they override, replacements after what they replace.
Earlier(list) ==
  \A a \in 1..Len(list) :
    list[a].overrides \in 0..a - 1 /\ list[a].supersedes \in 0..a - 1

EarlierOK == Earlier(assertions)

\* RootOf, of any list of assertions.
RootsOf(list) ==
  LET root[a \in 1..Len(list)] ==
        IF list[a].overrides = None THEN a ELSE root[list[a].overrides]
  IN  root

VInv == FInv /\ WalkOK /\ EarlierOK /\ OneVersionPerClaim

(***************************************************************************)
(* What a commit on r adds to the assertions copies, if it copies at all,   *)
(* what r sees of another branch, and copies nothing twice.                 *)
(***************************************************************************)
Added(list) == Len(assertions)+1..Len(list)

CopiesIn(list, r) ==
  /\ \A c \in Added(list) :
       list[c].overrides # None =>
         /\ list[c].overrides \in 1..Len(assertions)
         /\ Visible(r, list[c].overrides)
         /\ assertions[list[c].overrides].branch # r
  /\ \A c, d \in Added(list) :
       list[c].overrides # None /\ list[c].overrides = list[d].overrides => c = d

\* Nothing is accepted in list that was not before, except what replaces old.
AcceptsFor(list, old) ==
  \A a \in 1..Len(list) : \A s \in 1..MaxSeq :
    list[a].history[s] = "accepted"
      => \/ a \in 1..Len(assertions) /\ assertions[a].history[s] = "accepted"
         \/ list[a].supersedes = old

\* With list, r shows old as superseded: old itself, or the copy of it in r.
Retired(list, r, old) ==
  /\ old \in 1..Len(assertions)
  /\ \E x \in 1..Len(list) :
       /\ list[x].branch = r
       /\ list[x].history[MaxSeq] = "superseded"
       /\ x = old \/ list[x].overrides = old

\* A commit that accepts a replacement retires what it replaces.
Replaces(list, r) ==
  \E old \in 0..Len(assertions) :
    /\ AcceptsFor(list, old)
    /\ old # None => Retired(list, r, old)

-----------------------------------------------------------------------------
(* The chain is the walk.                                                   *)

\* Of a chain whose links follow each other as in the walk, the walk is the chain.
LEMMA WalkedIsChain ==
  ASSUME FInv, WalkOK, NEW b \in DOMAIN branches
  PROVE  WalkedChain(b) = chain[b]
<1> DEFINE up    == chain[b]
           first == [branch |-> b, limit |-> MaxSeq]
           Body(f) == [n \in 1..Len(up) |->
                         IF n = 1 THEN first
                         ELSE [branch |-> branches[f[n - 1].branch].parent,
                               limit  |-> Min2(f[n - 1].limit, branches[f[n - 1].branch].fork)]]
           walk == CHOOSE f : f = Body(f)
<1>1. up \in Seq(Link) /\ Len(up) \in Nat
  BY LinkType DEF FInv, IInv, TypeOK
<1>2. up[1] = first /\ \A n \in 2..Len(up) : up[n] = LinkAfter(branches, up[n - 1])
  BY DEF WalkOK
<1>3. WalkedChain(b) = [n \in 1..Len(up) |-> walk[n]]
  BY DEF WalkedChain
<1> HIDE DEF up, first
<1>4. up = Body(up)
  <2>1. up = [n \in 1..Len(up) |-> up[n]]
    BY <1>1
  <2>2. ASSUME NEW n \in 1..Len(up)
        PROVE  up[n] = Body(up)[n]
    <3>1. CASE n = 1
      BY <1>2, <3>1
    <3>2. CASE n # 1
      <4>1. n \in 2..Len(up)
        BY <1>1, <3>2
      <4> QED
        BY <1>2, <3>2, <4>1 DEF LinkAfter
    <3> QED
      BY <3>1, <3>2
  <2> QED
    BY <2>1, <2>2
<1>5. walk = Body(walk)
  BY <1>4
<1> HIDE DEF walk
<1> DEFINE S == {n \in 0..Len(up) : n # 0 => walk[n] = up[n]}
<1>6. 0 \in S
  BY <1>1
<1>7. ASSUME NEW n \in 1..Len(up), n - 1 \in S
      PROVE  n \in S
  <2>1. walk[n] = Body(walk)[n]
    BY <1>5
  <2>2. CASE n = 1
    BY <1>2, <2>1, <2>2
  <2>3. CASE n # 1
    <3>1. n \in 2..Len(up) /\ walk[n - 1] = up[n - 1]
      BY <1>1, <1>7, <2>3
    <3>2. walk[n] = LinkAfter(branches, walk[n - 1])
      BY <2>1, <2>3 DEF LinkAfter
    <3> QED
      BY <1>2, <3>1, <3>2
  <2> QED
    BY <2>2, <2>3
<1> HIDE DEF S
<1>8. 0..Len(up) \subseteq S
  BY <1>1, <1>6, <1>7, InductionUpTo
<1>9. \A n \in 1..Len(up) : walk[n] = up[n]
  BY <1>1, <1>8 DEF S
<1>10. up = [n \in 1..Len(up) |-> up[n]]
  BY <1>1
<1>11. [n \in 1..Len(up) |-> walk[n]] = [n \in 1..Len(up) |-> up[n]]
  BY <1>9
<1> QED
  BY <1>3, <1>10, <1>11 DEF up

\* Every step keeps the links of the chains that exist, and links a new one so.
LEMMA NextWalk ==
  ASSUME FInv, WalkOK, Next
  PROVE  WalkOK'
<1>1. ASSUME NEW p \in Actor, NEW r \in Branch, Commits(p, r, assertions')
      PROVE  WalkOK'
  BY <1>1 DEF Commits, WalkOK, LinkAfter
<1>2. ASSUME NEW p \in Actor, NEW b \in Branch, NEW parent \in Branch, CreateBranch(p, b, parent)
      PROVE  WalkOK'
  <2> DEFINE new == ChainOfNew(b, parent, HeadSeq)
             up  == chain[parent]
             n   == Len(up)
  <2>1. /\ parent \in DOMAIN chain
        /\ b \notin DOMAIN branches
        /\ DOMAIN branches' = DOMAIN branches \cup {b}
        /\ branches'[b] = [parent |-> parent, fork |-> HeadSeq]
        /\ \A c \in DOMAIN branches : branches'[c] = branches[c] /\ chain'[c] = chain[c]
        /\ chain'[b] = new
        /\ DOMAIN chain = DOMAIN branches
    BY <1>2 DEF CreateBranch, Exists, ForkPoint, FInv, IInv, TypeOK
  <2>2. n \in Nat /\ n >= 1 /\ HeadSeq \in 0..MaxSeq /\ MaxSeq \in Nat
    BY <2>1, LinkType, BranchingAssumption DEF FInv, IInv, TypeOK, ChainOK, HeadSeq
  <2>3. \A i \in 1..n : /\ up[i].branch \in DOMAIN branches
                        /\ up[i].limit \in 0..MaxSeq
    BY <2>1, LinkType DEF FInv, LinksOK, IInv, TypeOK
  <2>4. /\ up[1] = [branch |-> parent, limit |-> MaxSeq]
        /\ \A i \in 2..n : up[i] = LinkAfter(branches, up[i - 1])
        /\ up[n].branch = Main
    BY <2>1 DEF WalkOK
  <2>5. new = [i \in 1..(n + 1) |->
                 IF i = 1 THEN [branch |-> b, limit |-> MaxSeq]
                 ELSE [branch |-> up[i - 1].branch, limit |-> Min2(up[i - 1].limit, HeadSeq)]]
    BY DEF ChainOfNew
  <2>6. \A c \in DOMAIN branches : branches[c].fork \in 0..MaxSeq
    BY DEF FInv, IInv, TypeOK
  <2> HIDE DEF new, up, n
  <2>7. Len(new) = n + 1 /\ new[1] = [branch |-> b, limit |-> MaxSeq]
    BY <2>2, <2>5
  <2>8. ASSUME NEW i \in 2..n + 1
        PROVE  new[i] = [branch |-> up[i - 1].branch, limit |-> Min2(up[i - 1].limit, HeadSeq)]
    BY <2>2, <2>5
  <2>9. ASSUME NEW i \in 2..n + 1
        PROVE  new[i] = LinkAfter(branches', new[i - 1])
    <3>1. CASE i = 2
      <4>1. new[2] = [branch |-> parent, limit |-> Min2(MaxSeq, HeadSeq)]
        BY <2>2, <2>4, <2>8
      <4>2. LinkAfter(branches', new[1]) = [branch |-> parent, limit |-> Min2(MaxSeq, HeadSeq)]
        BY <2>1, <2>7 DEF LinkAfter
      <4> QED
        BY <3>1, <4>1, <4>2
    <3>2. CASE i # 2
      <4> DEFINE above == up[i - 2]
      <4>1. i - 1 \in 2..n + 1 /\ i - 2 \in 1..n /\ i - 1 \in 2..n /\ (i - 1) - 1 = i - 2
        BY <2>2, <3>2
      <4>2. new[i - 1] = [branch |-> above.branch, limit |-> Min2(above.limit, HeadSeq)]
        BY <2>8, <4>1
      <4>3. up[i - 1] = LinkAfter(branches, above)
        BY <2>4, <4>1
      <4>4. above.branch \in DOMAIN branches /\ above.limit \in 0..MaxSeq
        BY <2>3, <4>1
      <4>5. new[i] = [branch |-> up[i - 1].branch, limit |-> Min2(up[i - 1].limit, HeadSeq)]
        BY <2>8
      <4> HIDE DEF above
      <4>6. branches'[above.branch] = branches[above.branch] /\ branches[above.branch].fork \in 0..MaxSeq
        BY <2>1, <2>6, <4>4
      <4>7. LinkAfter(branches', new[i - 1]) =
              [branch |-> branches[above.branch].parent,
               limit  |-> Min2(Min2(above.limit, HeadSeq), branches[above.branch].fork)]
        BY <4>2, <4>6 DEF LinkAfter
      <4>8. new[i] = [branch |-> branches[above.branch].parent,
                      limit  |-> Min2(Min2(above.limit, branches[above.branch].fork), HeadSeq)]
        BY <4>3, <4>5 DEF LinkAfter
      <4>9. \A x, y, z \in 0..MaxSeq : Min2(Min2(x, y), z) = Min2(Min2(x, z), y)
        BY <2>2 DEF Min2
      <4> QED
        BY <2>2, <4>4, <4>6, <4>7, <4>8, <4>9
    <3> QED
      BY <3>1, <3>2
  <2>10. new[n + 1].branch = Main
    <3>1. n + 1 \in 2..n + 1 /\ (n + 1) - 1 = n
      BY <2>2
    <3>2. new[n + 1] = [branch |-> up[n].branch, limit |-> Min2(up[n].limit, HeadSeq)]
      BY <2>8, <3>1
    <3> QED
      BY <2>4, <3>2
  <2> SUFFICES ASSUME NEW c \in DOMAIN branches'
               PROVE  /\ chain'[c][1] = [branch |-> c, limit |-> MaxSeq]
                      /\ \A i \in 2..Len(chain'[c]) : chain'[c][i] = LinkAfter(branches', chain'[c][i - 1])
                      /\ chain'[c][Len(chain'[c])].branch = Main
    BY DEF WalkOK
  <2>11. CASE c = b
    BY <2>1, <2>7, <2>9, <2>10, <2>11
  <2>12. CASE c # b
    <3>1. c \in DOMAIN branches /\ chain'[c] = chain[c]
      BY <2>1, <2>12
    <3>2. chain[c] \in Seq(Link)
      BY <3>1 DEF FInv, IInv, TypeOK
    <3>3. ASSUME NEW i \in 2..Len(chain[c])
          PROVE  LinkAfter(branches', chain[c][i - 1]) = LinkAfter(branches, chain[c][i - 1])
      <4>1. i - 1 \in 1..Len(chain[c])
        BY <3>2
      <4>2. chain[c][i - 1].branch \in DOMAIN branches
        BY <2>1, <3>1, <4>1 DEF FInv, LinksOK
      <4> QED
        BY <2>1, <3>1, <4>2 DEF LinkAfter
    <3> QED
      BY <3>1, <3>3 DEF WalkOK
  <2> QED
    BY <2>1, <2>11, <2>12
<1> QED
  BY <1>1, <1>2, NextShape DEF FInv

-----------------------------------------------------------------------------
(* Roots.                                                                   *)

\* The root is found: an original is its own, a copy has that of what it overrides, and
\* it is no later than what it is the root of.
LEMMA RootIs ==
  ASSUME NEW list, Len(list) \in Nat, Earlier(list), NEW a \in 1..Len(list)
  PROVE  /\ list[a].overrides = None => RootsOf(list)[a] = a
         /\ list[a].overrides # None => RootsOf(list)[a] = RootsOf(list)[list[a].overrides]
         /\ RootsOf(list)[a] \in 1..a
<1> DEFINE n == Len(list)
           ov(x) == list[x].overrides
           Body(k, f) == [x \in 1..k |-> IF ov(x) = None THEN x ELSE f[ov(x)]]
           root == CHOOSE f : f = Body(n, f)
           S == {k \in 0..n : \E f : f = Body(k, f)}
<1>1. RootsOf(list) = root
  BY DEF RootsOf
<1>2. n \in Nat /\ \A x \in 1..n : ov(x) \in 0..x - 1
  BY DEF Earlier
<1> HIDE DEF n, ov
<1>3. 0 \in S
  <2> DEFINE f == [x \in 1..0 |-> x]
  <2>1. f = Body(0, f)
    OBVIOUS
  <2>2. \E h : h = Body(0, h)
    <3> HIDE DEF f, Body
    <3> QED
      BY <2>1
  <2> HIDE DEF Body
  <2> QED
    BY <1>2, <2>2
<1>4. ASSUME NEW k \in 1..n, k - 1 \in S
      PROVE  k \in S
  <2>1. PICK f : f = Body(k - 1, f)
    BY <1>4
  <2> DEFINE g == [x \in 1..k |-> IF x = k THEN (IF ov(k) = None THEN k ELSE f[ov(k)]) ELSE f[x]]
  <2>2. ASSUME NEW x \in 1..k
        PROVE  g[x] = IF ov(x) = None THEN x ELSE g[ov(x)]
    <3>1. CASE ov(x) = None
      <4>1. CASE x = k
        BY <3>1, <4>1
      <4>2. CASE x # k
        <5>1. x \in 1..k - 1
          BY <4>2
        <5>2. f[x] = x
          BY <2>1, <3>1, <5>1
        <5> QED
          BY <3>1, <4>2, <5>2
      <4> QED
        BY <4>1, <4>2
    <3>2. CASE ov(x) # None
      <4>1. ov(x) \in 1..k - 1 /\ ov(x) \in 1..k /\ ov(x) # k
        BY <1>2, <3>2 DEF None
      <4>2. g[ov(x)] = f[ov(x)]
        BY <4>1
      <4>3. CASE x = k
        BY <3>2, <4>2, <4>3
      <4>4. CASE x # k
        <5>1. x \in 1..k - 1
          BY <4>4
        <5>2. f[x] = f[ov(x)]
          BY <2>1, <3>2, <5>1
        <5> QED
          BY <3>2, <4>2, <4>4, <5>2
      <4> QED
        BY <4>3, <4>4
    <3> QED
      BY <3>1, <3>2
  <2>3. g = [x \in 1..k |-> g[x]]
    OBVIOUS
  <2> HIDE DEF g
  <2>4. g = Body(k, g)
    BY <2>2, <2>3
  <2>5. \E h : h = Body(k, h)
    <3> HIDE DEF Body
    <3> QED
      BY <2>4
  <2> HIDE DEF Body
  <2> QED
    BY <1>2, <2>5
<1> HIDE DEF S
<1>5. 0..n \subseteq S
  BY <1>2, <1>3, <1>4, InductionUpTo
<1>6. \E f : f = Body(n, f)
  BY <1>2, <1>5 DEF S
<1>7. root = Body(n, root)
  BY <1>6
<1> HIDE DEF root
<1>8. \A x \in 1..n : root[x] = IF ov(x) = None THEN x ELSE root[ov(x)]
  BY <1>7
<1> DEFINE T == {k \in 0..n : \A x \in 1..k : root[x] \in 1..x}
<1>9. 0 \in T
  BY <1>2
<1>10. ASSUME NEW k \in 1..n, k - 1 \in T
       PROVE  k \in T
  <2>1. root[k] \in 1..k
    <3>1. CASE ov(k) = None
      BY <1>8, <3>1
    <3>2. CASE ov(k) # None
      <4>1. ov(k) \in 1..k - 1
        BY <1>2, <3>2 DEF None
      <4>2. root[ov(k)] \in 1..ov(k)
        BY <1>10, <4>1
      <4>3. root[k] = root[ov(k)]
        BY <1>8, <3>2
      <4> QED
        BY <4>1, <4>2, <4>3
    <3> QED
      BY <3>1, <3>2
  <2>2. \A x \in 1..k : x = k \/ x \in 1..k - 1
    OBVIOUS
  <2> QED
    BY <1>2, <1>10, <2>1, <2>2
<1> HIDE DEF T
<1>11. 0..n \subseteq T
  BY <1>2, <1>9, <1>10, InductionUpTo
<1>12. n \in T /\ a \in 1..n
  BY <1>2, <1>11 DEF n
<1>13. root[a] \in 1..a
  BY <1>12 DEF T
<1> QED
  BY <1>1, <1>8, <1>12, <1>13 DEF ov

\* The roots stay when assertions are added.
LEMMA RootsKept ==
  ASSUME NEW list, Len(list) \in Nat, Earlier(list),
         NEW more, Len(more) \in Nat, Earlier(more), Len(list) <= Len(more),
         \A x \in 1..Len(list) : more[x].overrides = list[x].overrides,
         NEW a \in 1..Len(list)
  PROVE  RootsOf(more)[a] = RootsOf(list)[a]
<1> DEFINE n == Len(list)
           T == {k \in 0..n : \A x \in 1..k : RootsOf(more)[x] = RootsOf(list)[x]}
<1>1. 0 \in T
  OBVIOUS
<1>2. ASSUME NEW k \in 1..n, k - 1 \in T
      PROVE  k \in T
  <2>1. /\ k \in 1..Len(more)
        /\ more[k].overrides = list[k].overrides
        /\ list[k].overrides \in 0..k - 1
    BY DEF Earlier
  <2>2. RootsOf(more)[k] = RootsOf(list)[k]
    <3>1. CASE list[k].overrides = None
      BY <2>1, <3>1, RootIs
    <3>2. CASE list[k].overrides # None
      <4>1. list[k].overrides \in 1..k - 1
        BY <2>1, <3>2 DEF None
      <4>2. RootsOf(more)[list[k].overrides] = RootsOf(list)[list[k].overrides]
        BY <1>2, <4>1
      <4> QED
        BY <2>1, <3>2, <4>2, RootIs
    <3> QED
      BY <3>1, <3>2
  <2>3. \A x \in 1..k : x = k \/ x \in 1..k - 1
    OBVIOUS
  <2> QED
    BY <1>2, <2>2, <2>3
<1> HIDE DEF T
<1>3. 0..n \subseteq T
  BY <1>1, <1>2, InductionUpTo
<1>4. n \in T
  BY <1>3
<1> QED
  BY <1>4 DEF T

-----------------------------------------------------------------------------
(* What the requests copy.                                                  *)

\* Adding an original, or a copy of what nothing added so far copies.
LEMMA AppendCopies ==
  ASSUME TypeOK, NEW r, NEW S, NEW list \in Seq(S), CopiesIn(list, r),
         Len(assertions) <= Len(list), NEW n,
         n.overrides # None =>
           /\ n.overrides \in 1..Len(assertions)
           /\ Visible(r, n.overrides)
           /\ assertions[n.overrides].branch # r
           /\ \A c \in Added(list) : list[c].overrides # n.overrides
  PROVE  CopiesIn(Append(list, n), r)
<1> DEFINE more == Append(list, n)
<1>1. /\ Len(list) \in Nat /\ Len(assertions) \in Nat
      /\ Len(more) = Len(list) + 1
      /\ \A i \in 1..Len(list) : more[i] = list[i]
      /\ more[Len(list) + 1] = n
  BY DEF TypeOK
<1> HIDE DEF more
<1>2. \A c \in Added(more) : c = Len(list) + 1 \/ (c \in Added(list) /\ more[c] = list[c])
  BY <1>1 DEF Added
<1>3. ASSUME NEW c \in Added(more), more[c].overrides # None
      PROVE  /\ more[c].overrides \in 1..Len(assertions)
             /\ Visible(r, more[c].overrides)
             /\ assertions[more[c].overrides].branch # r
  BY <1>1, <1>2, <1>3 DEF CopiesIn
<1>4. ASSUME NEW c \in Added(more), NEW d \in Added(more), more[c].overrides # None,
             more[c].overrides = more[d].overrides
      PROVE  c = d
  <2>1. CASE c = Len(list) + 1 \/ d = Len(list) + 1
    BY <1>1, <1>2, <1>4, <2>1
  <2>2. CASE c # Len(list) + 1 /\ d # Len(list) + 1
    BY <1>2, <1>4, <2>2 DEF CopiesIn
  <2> QED
    BY <2>1, <2>2
<1>5. CopiesIn(more, r)
  BY <1>3, <1>4 DEF CopiesIn
<1> QED
  BY <1>5 DEF more

\* Changing anything but what an assertion overrides.
LEMMA ExceptCopies ==
  ASSUME NEW r, NEW S, NEW list \in Seq(S), CopiesIn(list, r),
         NEW k \in 1..Len(list), NEW e, e.overrides = list[k].overrides
  PROVE  CopiesIn([list EXCEPT ![k] = e], r)
<1> DEFINE new == [list EXCEPT ![k] = e]
           R == S \cup {e}
<1>1. list \in Seq(R) /\ e \in R
  OBVIOUS
<1> HIDE DEF R
<1>2. /\ Len(new) = Len(list)
      /\ \A i \in 1..Len(list) : new[i] = IF i = k THEN e ELSE list[i]
  BY <1>1, ExceptSeq
<1> HIDE DEF new
<1>3. ASSUME NEW c \in Added(list)
      PROVE  new[c].overrides = list[c].overrides
  <2>1. CASE c \in 1..Len(list)
    BY <1>2, <2>1
  <2>2. CASE c \notin 1..Len(list)
    <3>1. new[c] = list[c]
      BY <2>2 DEF new
    <3> QED
      BY <3>1
  <2> QED
    BY <2>1, <2>2
<1>4. Added(new) = Added(list)
  BY <1>2 DEF Added
<1>5. CopiesIn(new, r)
  BY <1>3, <1>4 DEF CopiesIn
<1> QED
  BY <1>5 DEF new

\* The assertions as they are, are a list to which no copy was added.
LEMMA NoCopies ==
  ASSUME TypeOK, NEW r
  PROVE  CopiesIn(assertions, r)
<1>1. Added(assertions) = {}
  BY DEF Added, TypeOK
<1> QED
  BY <1>1 DEF CopiesIn

\* status_cmds, of what the branch sees and nothing added so far copies.
LEMMA WithStatusCopies ==
  ASSUME TypeOK, NEW r, NEW list \in Seq(AssertionRec), CopiesIn(list, r),
         Len(assertions) <= Len(list),
         NEW a \in 1..Len(assertions), NEW st, Visible(r, a),
         \A c \in Added(list) : list[c].overrides # a
  PROVE  CopiesIn(WithStatus(list, r, a, st), r)
<1>1. /\ a \in 1..Len(list)
      /\ list[a] \in AssertionRec
      /\ assertions[a] \in AssertionRec
  BY DEF TypeOK
<1>3. CASE assertions[a].branch = r
  <2> DEFINE h == Became(st, list[a].history)
             e == [list[a] EXCEPT !.history = h]
  <2>2. WithStatus(list, r, a, st) = [list EXCEPT ![a] = e]
    BY <1>3 DEF WithStatus
  <2> HIDE DEF h
  <2>3. e.overrides = list[a].overrides
    BY <1>1 DEF AssertionRec
  <2> HIDE DEF e
  <2>5. CopiesIn([list EXCEPT ![a] = e], r)
    BY <1>1, <2>3, ExceptCopies
  <2> QED
    BY <2>2, <2>5
<1>4. CASE assertions[a].branch # r
  <2> DEFINE h == Became(st, NeverWas)
             c == [assertions[a] EXCEPT
                     !.branch = r, !.created = NextSeq, !.history = h, !.overrides = a]
  <2>2. WithStatus(list, r, a, st) = Append(list, c)
    BY <1>4 DEF WithStatus
  <2> HIDE DEF h
  <2>3. c.overrides = a
    BY <1>1 DEF AssertionRec
  <2> HIDE DEF c
  <2>5. CopiesIn(Append(list, c), r)
    BY <1>4, <2>3, AppendCopies
  <2> QED
    BY <2>2, <2>5
<1> QED
  BY <1>3, <1>4

\* A change of one status copies at most what is changed.
LEMMA ChangeCopies ==
  ASSUME TypeOK, NEW r, NEW a \in 1..Len(assertions), NEW st, Visible(r, a)
  PROVE  /\ CopiesIn(WithStatus(assertions, r, a, st), r)
         /\ \A c \in Added(WithStatus(assertions, r, a, st)) :
              WithStatus(assertions, r, a, st)[c].overrides = a
<1>1. /\ assertions \in Seq(AssertionRec) /\ Len(assertions) \in Nat
      /\ assertions[a] \in AssertionRec
      /\ Added(assertions) = {}
  BY DEF TypeOK, Added
<1>2. CopiesIn(WithStatus(assertions, r, a, st), r)
  BY <1>1, NoCopies, WithStatusCopies
<1>3. CASE assertions[a].branch = r
  <2>1. Len(WithStatus(assertions, r, a, st)) = Len(assertions)
    BY <1>1, <1>3 DEF WithStatus
  <2>2. Added(WithStatus(assertions, r, a, st)) = {}
    BY <1>1, <2>1 DEF Added
  <2> QED
    BY <1>2, <2>2
<1>4. CASE assertions[a].branch # r
  <2> DEFINE h == Became(st, NeverWas)
             c == [assertions[a] EXCEPT
                     !.branch = r, !.created = NextSeq, !.history = h, !.overrides = a]
  <2>1. WithStatus(assertions, r, a, st) = Append(assertions, c)
    BY <1>4 DEF WithStatus
  <2> HIDE DEF h
  <2>2. c.overrides = a
    BY <1>1 DEF AssertionRec
  <2> HIDE DEF c
  <2>3. \A i \in Added(Append(assertions, c)) : Append(assertions, c)[i] = c
    BY <1>1 DEF Added
  <2> QED
    BY <1>2, <2>1, <2>2, <2>3
<1> QED
  BY <1>3, <1>4

\* A new assertion copies nothing.
LEMMA NewCopies ==
  ASSUME TypeOK, NEW p, NEW r, NEW st, NEW old
  PROVE  /\ CopiesIn(Append(assertions, NewAssertion(p, r, st, old)), r)
         /\ \A c \in Added(Append(assertions, NewAssertion(p, r, st, old))) :
              Append(assertions, NewAssertion(p, r, st, old))[c].overrides = None
<1> DEFINE n == NewAssertion(p, r, st, old)
<1>1. n.overrides = None
  BY DEF NewAssertion
<1> HIDE DEF n
<1>2. assertions \in Seq(AssertionRec) /\ Len(assertions) \in Nat
  BY DEF TypeOK
<1>3. CopiesIn(Append(assertions, n), r)
  BY <1>1, <1>2, NoCopies, AppendCopies
<1>4. \A i \in Added(Append(assertions, n)) : Append(assertions, n)[i] = n
  BY <1>2 DEF Added
<1>5. \A i \in Added(Append(assertions, n)) : Append(assertions, n)[i].overrides = None
  BY <1>1, <1>4
<1> QED
  BY <1>3, <1>5 DEF n

\* An acceptance copies what is accepted and what that replaces, each once at most.
LEMMA AcceptCopies ==
  ASSUME IInv, EarlierOK, HeadSeq < MaxSeq, NEW r \in Branch, NEW a \in 1..Len(assertions),
         Visible(r, a),
         assertions[a].supersedes # None => Visible(r, assertions[a].supersedes)
  PROVE  CopiesIn(AcceptedList(r, a), r)
<1> DEFINE old == assertions[a].supersedes
           accepted == WithStatus(assertions, r, a, "accepted")
<1>1. CopiesIn(accepted, r) /\ \A c \in Added(accepted) : accepted[c].overrides = a
  BY ChangeCopies DEF IInv
<1>2. CASE old = None
  BY <1>1, <1>2 DEF AcceptedList
<1>3. CASE old # None
  <2>1. old \in 1..Len(assertions)
    BY <1>3 DEF IInv, RefsOK, RefsIn, None, TypeOK
  <2>2. AcceptedList(r, a) = WithStatus(accepted, r, old, "superseded")
    BY <1>3 DEF AcceptedList
  <2>3. CommitShape(accepted, r)
    BY ChangeShape DEF IInv, Status
  <2>4. old # a
    BY DEF EarlierOK, Earlier
  <2>5. Visible(r, old)
    BY <1>3
  <2> HIDE DEF accepted, old
  <2>6. accepted \in Seq(AssertionRec) /\ Len(assertions) <= Len(accepted)
    BY <2>3 DEF CommitShape
  <2> QED
    BY <1>1, <2>1, <2>2, <2>4, <2>5, <2>6, WithStatusCopies DEF IInv
<1> QED
  BY <1>2, <1>3

\* The list of a replacement and its link has the shape of a commit.
LEMMA LinkedShape ==
  ASSUME IInv, HeadSeq < MaxSeq, NEW p \in Actor, NEW r \in Branch,
         NEW old \in 1..Len(assertions), NEW st \in Status,
         Len(SupersededList(p, r, old, st)) <= MaxAssertions
  PROVE  \E linked, e :
           /\ CommitShape(linked, r)
           /\ linked = [Append(assertions, NewAssertion(p, r, st, old)) EXCEPT ![old] = e]
           /\ e.overrides = assertions[old].overrides
           /\ e.supersedes = assertions[old].supersedes
           /\ e.history = assertions[old].history
           /\ Append(assertions, NewAssertion(p, r, st, old)) \in Seq(AssertionRec)
           /\ SupersededList(p, r, old, st) =
                IF st = "accepted" THEN WithStatus(linked, r, old, "superseded") ELSE linked
<1> DEFINE n       == NewAssertion(p, r, st, old)
           added   == Append(assertions, n)
           e       == [added[old] EXCEPT !.supersededBy = Len(added)]
           linked  == [added EXCEPT ![old] = e]
           retired == WithStatus(linked, r, old, "superseded")
<1>1. SupersededList(p, r, old, st) = IF st = "accepted" THEN retired ELSE linked
  BY DEF SupersededList
<1>2. old \in 0..MaxAssertions /\ Len(assertions) \in Nat
  BY BranchingAssumption DEF IInv, TypeOK
<1>3. n \in AssertionRec
  BY <1>2, NewAssertionType DEF IInv
<1>4. CommitShape(added, r)
  BY <1>2, ProposeShape DEF IInv
<1> HIDE DEF n
<1>5. /\ added \in Seq(AssertionRec)
      /\ Len(added) = Len(assertions) + 1
      /\ old \in 1..Len(added)
      /\ added[old] = assertions[old]
      /\ added[old] \in AssertionRec
  BY <1>2, <1>3 DEF IInv, TypeOK
<1> HIDE DEF added
<1>6. /\ e.overrides = assertions[old].overrides
      /\ e.supersedes = assertions[old].supersedes
      /\ e.history = assertions[old].history
  BY <1>5 DEF AssertionRec
<1>7. Len(linked) = Len(added)
  BY <1>5
<1>8. Len(linked) <= Len(retired) /\ Len(retired) \in Nat
  <2> DEFINE R == AssertionRec \cup {e}
  <2>1. added \in Seq(R) /\ e \in R
    BY <1>5
  <2> HIDE DEF R, e
  <2>2. linked \in Seq(R)
    BY <1>5, <2>1, ExceptSeq
  <2> HIDE DEF linked
  <2> QED
    BY <1>5, <1>7, <2>2, WithStatusLen
<1>9. Len(added) \in 0..MaxAssertions
  <2>1. Len(SupersededList(p, r, old, st)) <= MaxAssertions
    OBVIOUS
  <2> HIDE DEF linked, retired
  <2> QED
    BY <1>1, <1>2, <1>5, <1>7, <1>8, <2>1, BranchingAssumption
<1>10. /\ e \in AssertionRec
       /\ e.branch = added[old].branch
       /\ e.created = added[old].created
       /\ e.overrides = added[old].overrides
       /\ e.supersedes = added[old].supersedes
       /\ e.history = added[old].history
  BY <1>5, <1>9, LinkedType
<1>11. CommitShape(linked, r)
  <2> HIDE DEF e
  <2>1. \A s \in 1..MaxSeq : e.history[s] = added[old].history[s]
                               \/ (s >= NextSeq /\ assertions[old].branch = r)
    BY <1>10
  <2> QED
    BY <1>4, <1>10, <2>1, ExceptShape DEF IInv
<1> HIDE DEF e
<1>12. linked = [Append(assertions, NewAssertion(p, r, st, old)) EXCEPT ![old] = e]
       /\ Append(assertions, NewAssertion(p, r, st, old)) \in Seq(AssertionRec)
  BY <1>5 DEF added, n
<1> HIDE DEF linked
<1> QED
  BY <1>1, <1>6, <1>11, <1>12

\* A replacement and the retirement of what it replaces.
LEMMA SupersedeCopies ==
  ASSUME IInv, HeadSeq < MaxSeq, NEW p \in Actor, NEW r \in Branch,
         NEW old \in 1..Len(assertions), NEW st \in Status,
         Len(SupersededList(p, r, old, st)) <= MaxAssertions,
         st = "accepted" => Visible(r, old)
  PROVE  CopiesIn(SupersededList(p, r, old, st), r)
<1> DEFINE added == Append(assertions, NewAssertion(p, r, st, old))
<1>1. PICK linked, e :
        /\ CommitShape(linked, r)
        /\ linked = [added EXCEPT ![old] = e]
        /\ e.overrides = assertions[old].overrides
        /\ e.supersedes = assertions[old].supersedes
        /\ e.history = assertions[old].history
        /\ added \in Seq(AssertionRec)
        /\ SupersededList(p, r, old, st) =
             IF st = "accepted" THEN WithStatus(linked, r, old, "superseded") ELSE linked
  BY LinkedShape
<1>2. CopiesIn(added, r) /\ \A c \in Added(added) : added[c].overrides = None
  BY NewCopies DEF IInv
<1>3. /\ Len(assertions) \in Nat
      /\ Len(added) = Len(assertions) + 1
      /\ old \in 1..Len(added)
      /\ added[old] = assertions[old]
  BY DEF IInv, TypeOK
<1> HIDE DEF added
<1>4. CopiesIn(linked, r)
  BY <1>1, <1>2, <1>3, ExceptCopies
<1>5. linked \in Seq(AssertionRec) /\ Len(assertions) <= Len(linked)
  BY <1>1 DEF CommitShape
<1>6. ASSUME NEW c \in Added(linked)
      PROVE  linked[c].overrides # old
  <2>1. Len(linked) = Len(added)
    BY <1>1, <1>3
  <2>2. c \in Added(added) /\ c # old /\ c \in 1..Len(added)
    BY <1>3, <2>1 DEF Added
  <2>3. linked[c] = added[c]
    BY <1>1, <2>2
  <2> QED
    BY <1>2, <2>2, <2>3 DEF None
<1> QED
  BY <1>1, <1>4, <1>5, <1>6, WithStatusCopies DEF IInv

-----------------------------------------------------------------------------
(* What the requests accept and retire.                                     *)

\* Adding an assertion that is not accepted, or replaces old.
LEMMA AppendFor ==
  ASSUME NEW S, NEW list \in Seq(S), NEW old, AcceptsFor(list, old), NEW n,
         n.supersedes = old \/ \A s \in 1..MaxSeq : n.history[s] # "accepted"
  PROVE  AcceptsFor(Append(list, n), old)
<1> DEFINE more == Append(list, n)
<1>1. /\ Len(list) \in Nat
      /\ Len(more) = Len(list) + 1
      /\ \A i \in 1..Len(list) : more[i] = list[i]
      /\ more[Len(list) + 1] = n
  OBVIOUS
<1> HIDE DEF more
<1>2. \A a \in 1..Len(more) : a = Len(list) + 1 \/ a \in 1..Len(list)
  BY <1>1
<1>3. AcceptsFor(more, old)
  <2> SUFFICES ASSUME NEW a \in 1..Len(more), NEW s \in 1..MaxSeq,
                      more[a].history[s] = "accepted"
               PROVE  \/ a \in 1..Len(assertions) /\ assertions[a].history[s] = "accepted"
                      \/ more[a].supersedes = old
    BY DEF AcceptsFor
  <2>1. CASE a = Len(list) + 1
    BY <1>1, <2>1
  <2>2. CASE a \in 1..Len(list)
    BY <1>1, <2>2 DEF AcceptsFor
  <2> QED
    BY <1>2, <2>1, <2>2
<1> QED
  BY <1>3 DEF more

\* Changing what replaces old, or something without accepting it.
LEMMA ExceptFor ==
  ASSUME NEW S, NEW list \in Seq(S), NEW old, AcceptsFor(list, old),
         NEW k \in 1..Len(list), NEW e, e.supersedes = list[k].supersedes,
         \/ e.supersedes = old
         \/ \A s \in 1..MaxSeq : e.history[s] = list[k].history[s] \/ e.history[s] # "accepted"
  PROVE  AcceptsFor([list EXCEPT ![k] = e], old)
<1> DEFINE new == [list EXCEPT ![k] = e]
           R == S \cup {e}
<1>1. list \in Seq(R) /\ e \in R
  OBVIOUS
<1> HIDE DEF R
<1>2. /\ Len(new) = Len(list)
      /\ \A i \in 1..Len(list) : new[i] = IF i = k THEN e ELSE list[i]
  BY <1>1, ExceptSeq
<1> HIDE DEF new
<1>3. AcceptsFor(new, old)
  BY <1>2 DEF AcceptsFor
<1> QED
  BY <1>3 DEF new

\* status_cmds.
LEMMA WithStatusFor ==
  ASSUME TypeOK, NEW r, NEW list \in Seq(AssertionRec), NEW old, AcceptsFor(list, old),
         Len(assertions) <= Len(list), NEW a \in 1..Len(assertions), NEW st,
         list[a].supersedes = assertions[a].supersedes,
         st # "accepted" \/ assertions[a].supersedes = old
  PROVE  AcceptsFor(WithStatus(list, r, a, st), old)
<1>1. /\ a \in 1..Len(list)
      /\ list[a] \in AssertionRec
      /\ assertions[a] \in AssertionRec
  BY DEF TypeOK
<1>3. CASE assertions[a].branch = r
  <2> DEFINE h == Became(st, list[a].history)
             e == [list[a] EXCEPT !.history = h]
  <2>1. \A s \in 1..MaxSeq : h[s] = list[a].history[s] \/ h[s] = st
    BY DEF Became
  <2>2. WithStatus(list, r, a, st) = [list EXCEPT ![a] = e]
    BY <1>3 DEF WithStatus
  <2> HIDE DEF h
  <2>3. e.history = h /\ e.supersedes = list[a].supersedes
    BY <1>1 DEF AssertionRec
  <2> HIDE DEF e
  <2>4. \/ e.supersedes = old
        \/ \A s \in 1..MaxSeq : e.history[s] = list[a].history[s] \/ e.history[s] # "accepted"
    BY <2>1, <2>3
  <2>5. AcceptsFor([list EXCEPT ![a] = e], old)
    BY <1>1, <2>3, <2>4, ExceptFor
  <2> QED
    BY <2>2, <2>5
<1>4. CASE assertions[a].branch # r
  <2> DEFINE h == Became(st, NeverWas)
             c == [assertions[a] EXCEPT
                     !.branch = r, !.created = NextSeq, !.history = h, !.overrides = a]
  <2>1. \A s \in 1..MaxSeq : h[s] = Unborn \/ h[s] = st
    BY DEF Became, NeverWas
  <2>2. WithStatus(list, r, a, st) = Append(list, c)
    BY <1>4 DEF WithStatus
  <2> HIDE DEF h
  <2>3. c.history = h /\ c.supersedes = assertions[a].supersedes
    BY <1>1 DEF AssertionRec
  <2> HIDE DEF c
  <2>4. c.supersedes = old \/ \A s \in 1..MaxSeq : c.history[s] # "accepted"
    BY <2>1, <2>3 DEF Unborn
  <2>5. AcceptsFor(Append(list, c), old)
    BY <2>4, AppendFor
  <2> QED
    BY <2>2, <2>5
<1> QED
  BY <1>3, <1>4

\* The list that status_cmds makes to supersede shows old as superseded.
LEMMA WithStatusRetires ==
  ASSUME IInv, HeadSeq < MaxSeq, NEW r \in Branch, NEW list, CommitShape(list, r),
         NEW old \in 1..Len(assertions)
  PROVE  Retired(WithStatus(list, r, old, "superseded"), r, old)
<1>1. /\ old \in 1..Len(list)
      /\ list \in Seq(AssertionRec)
      /\ list[old] \in AssertionRec
      /\ list[old].branch = assertions[old].branch
      /\ assertions[old] \in AssertionRec
      /\ Len(list) \in Nat
  BY DEF IInv, TypeOK, CommitShape, KeepsOld
<1>2. NextSeq \in 1..MaxSeq /\ MaxSeq \in 1..MaxSeq /\ MaxSeq >= NextSeq
  BY NextSeqType, BranchingAssumption
<1>3. CASE assertions[old].branch = r
  <2> DEFINE h == Became("superseded", list[old].history)
             e == [list[old] EXCEPT !.history = h]
             new == [list EXCEPT ![old] = e]
  <2>1. h[MaxSeq] = "superseded"
    BY <1>2 DEF Became
  <2>2. WithStatus(list, r, old, "superseded") = new
    BY <1>3 DEF WithStatus
  <2> HIDE DEF h
  <2>3. e.history = h /\ e.branch = r
    BY <1>1, <1>3 DEF AssertionRec
  <2> HIDE DEF e
  <2>4. Len(new) = Len(list) /\ new[old] = e
    BY <1>1
  <2> HIDE DEF new
  <2>5. old \in 1..Len(new) /\ new[old].branch = r /\ new[old].history[MaxSeq] = "superseded"
    BY <1>1, <2>1, <2>3, <2>4
  <2> QED
    BY <2>2, <2>5 DEF Retired
<1>4. CASE assertions[old].branch # r
  <2> DEFINE h == Became("superseded", NeverWas)
             c == [assertions[old] EXCEPT
                     !.branch = r, !.created = NextSeq, !.history = h, !.overrides = old]
             more == Append(list, c)
             x == Len(list) + 1
  <2>1. h[MaxSeq] = "superseded"
    BY <1>2 DEF Became
  <2>2. WithStatus(list, r, old, "superseded") = more
    BY <1>4 DEF WithStatus
  <2> HIDE DEF h
  <2>3. c.history = h /\ c.branch = r /\ c.overrides = old
    BY <1>1 DEF AssertionRec
  <2> HIDE DEF c
  <2>4. x \in 1..Len(more) /\ more[x] = c
    BY <1>1
  <2> HIDE DEF more, x
  <2>5. more[x].branch = r /\ more[x].history[MaxSeq] = "superseded" /\ more[x].overrides = old
    BY <2>1, <2>3, <2>4
  <2> QED
    BY <2>2, <2>4, <2>5 DEF Retired
<1> QED
  BY <1>3, <1>4

\* A commit that accepts nothing retires all it must.
LEMMA NothingReplaces ==
  ASSUME IInv, NEW list, AcceptsNothing(list), NEW r
  PROVE  Replaces(list, r)
<1>1. AcceptsFor(list, None)
  BY DEF AcceptsNothing, AcceptsFor
<1>2. None \in 0..Len(assertions)
  BY DEF None, IInv, TypeOK
<1> QED
  BY <1>1, <1>2 DEF Replaces

\* A new assertion replaces nothing.
LEMMA ProposeReplaces ==
  ASSUME IInv, NEW p, NEW r, NEW st
  PROVE  Replaces(Append(assertions, NewAssertion(p, r, st, None)), r)
<1> DEFINE n == NewAssertion(p, r, st, None)
<1>1. n.supersedes = None
  BY DEF NewAssertion
<1> HIDE DEF n
<1>2. AcceptsFor(assertions, None) /\ assertions \in Seq(AssertionRec)
  BY DEF AcceptsFor, IInv, TypeOK
<1>3. AcceptsFor(Append(assertions, n), None)
  BY <1>1, <1>2, AppendFor
<1>4. None \in 0..Len(assertions)
  BY DEF None, IInv, TypeOK
<1>5. Replaces(Append(assertions, n), r)
  BY <1>3, <1>4 DEF Replaces
<1> QED
  BY <1>5 DEF n

\* An acceptance retires what the accepted assertion replaces.
LEMMA AcceptReplaces ==
  ASSUME IInv, HeadSeq < MaxSeq, NEW r \in Branch, NEW a \in 1..Len(assertions)
  PROVE  Replaces(AcceptedList(r, a), r)
<1> DEFINE old == assertions[a].supersedes
           accepted == WithStatus(assertions, r, a, "accepted")
<1>1. AcceptsFor(assertions, old) /\ assertions \in Seq(AssertionRec)
  BY DEF AcceptsFor, IInv, TypeOK
<1>2. AcceptsFor(accepted, old)
  BY <1>1, WithStatusFor DEF IInv, TypeOK
<1>3. old \in 0..Len(assertions)
  BY DEF IInv, RefsOK, RefsIn
<1>4. CASE old = None
  BY <1>2, <1>3, <1>4 DEF AcceptedList, Replaces
<1>5. CASE old # None
  <2>1. old \in 1..Len(assertions)
    BY <1>3, <1>5 DEF None
  <2>2. AcceptedList(r, a) = WithStatus(accepted, r, old, "superseded")
    BY <1>5 DEF AcceptedList
  <2>3. CommitShape(accepted, r)
    BY ChangeShape DEF IInv, Status
  <2> HIDE DEF accepted, old
  <2>4. /\ accepted \in Seq(AssertionRec) /\ Len(assertions) <= Len(accepted)
        /\ accepted[old].supersedes = assertions[old].supersedes
    BY <2>1, <2>3 DEF CommitShape, KeepsOld
  <2>5. AcceptsFor(WithStatus(accepted, r, old, "superseded"), old)
    BY <1>2, <2>1, <2>4, WithStatusFor DEF IInv
  <2>6. Retired(WithStatus(accepted, r, old, "superseded"), r, old)
    BY <2>1, <2>3, WithStatusRetires
  <2> QED
    BY <1>3, <2>2, <2>5, <2>6 DEF Replaces
<1> QED
  BY <1>4, <1>5

\* A replacement that is accepted at once retires what it replaces.
LEMMA SupersedeReplaces ==
  ASSUME IInv, HeadSeq < MaxSeq, NEW p \in Actor, NEW r \in Branch,
         NEW old \in 1..Len(assertions), NEW st \in Status,
         Len(SupersededList(p, r, old, st)) <= MaxAssertions
  PROVE  Replaces(SupersededList(p, r, old, st), r)
<1> DEFINE n == NewAssertion(p, r, st, old)
           added == Append(assertions, n)
<1>1. PICK linked, e :
        /\ CommitShape(linked, r)
        /\ linked = [added EXCEPT ![old] = e]
        /\ e.overrides = assertions[old].overrides
        /\ e.supersedes = assertions[old].supersedes
        /\ e.history = assertions[old].history
        /\ added \in Seq(AssertionRec)
        /\ SupersededList(p, r, old, st) =
             IF st = "accepted" THEN WithStatus(linked, r, old, "superseded") ELSE linked
  BY LinkedShape
<1>2. n.supersedes = old
  BY DEF NewAssertion
<1>3. AcceptsFor(assertions, old) /\ assertions \in Seq(AssertionRec) /\ Len(assertions) \in Nat
  BY DEF AcceptsFor, IInv, TypeOK
<1> HIDE DEF n
<1>4. AcceptsFor(added, old)
  BY <1>2, <1>3, AppendFor
<1>5. old \in 1..Len(added) /\ added[old] = assertions[old]
  BY <1>3
<1> HIDE DEF added
<1>6. AcceptsFor(linked, old)
  BY <1>1, <1>4, <1>5, ExceptFor
<1>7. CASE st = "accepted"
  <2>1. /\ linked \in Seq(AssertionRec) /\ Len(assertions) <= Len(linked)
        /\ linked[old].supersedes = assertions[old].supersedes
    BY <1>1 DEF CommitShape, KeepsOld
  <2>2. AcceptsFor(WithStatus(linked, r, old, "superseded"), old)
    BY <1>6, <2>1, WithStatusFor DEF IInv
  <2>3. Retired(WithStatus(linked, r, old, "superseded"), r, old)
    BY <1>1, WithStatusRetires
  <2>4. old \in 0..Len(assertions)
    BY <1>3
  <2> QED
    BY <1>1, <1>7, <2>2, <2>3, <2>4 DEF Replaces
<1>8. CASE st # "accepted"
  BY <1>8, SupersedeAccepts, NothingReplaces DEF IInv
<1> QED
  BY <1>7, <1>8

-----------------------------------------------------------------------------
(* The steps.                                                               *)

\* Every request but create_branch copies each assertion once at most, and only what its branch
\* sees; and it retires what the assertion replaces that it accepts.
LEMMA NextVersions ==
  ASSUME IInv, EarlierOK, Next
  PROVE  \E p \in Actor :
           \/ \E r \in Branch :
                /\ CommitShape(assertions', r)
                /\ CopiesIn(assertions', r)
                /\ Replaces(assertions', r)
                /\ Commits(p, r, assertions')
           \/ \E b, parent \in Branch : CreateBranch(p, b, parent)
<1> USE DEF IInv
<1>1. PICK p \in Actor :
         \/ \E b \in Branch, st \in Status : ProposeAssertion(p, b, st)
         \/ \E b \in Branch, a \in 1..Len(assertions) : RetractAssertion(p, b, a)
         \/ \E b \in Branch, a \in 1..Len(assertions) : DisputeAssertion(p, b, a)
         \/ \E b \in Branch, a \in 1..Len(assertions) : AcceptAssertion(p, b, a)
         \/ \E b \in Branch, a \in 1..Len(assertions), st \in Status :
              SupersedeAssertion(p, b, a, st)
         \/ \E a \in 1..Len(assertions) : VerifyAssertion(p, a)
         \/ \E a \in 1..Len(assertions), e \in Evidence : AddEvidence(p, a, e)
         \/ \E b, parent \in Branch : CreateBranch(p, b, parent)
  BY DEF Next
<1> DEFINE Fine(r) == /\ CommitShape(assertions', r)
                      /\ CopiesIn(assertions', r)
                      /\ Replaces(assertions', r)
                      /\ Commits(p, r, assertions')
<1>2. ASSUME NEW b \in Branch, NEW st \in Status, ProposeAssertion(p, b, st)
      PROVE  Fine(b)
  <2> DEFINE list == Append(assertions, NewAssertion(p, b, st, None))
  <2>1. Commits(p, b, list) /\ HeadSeq < MaxSeq /\ assertions' = list
    BY <1>2 DEF ProposeAssertion, Commits
  <2>2. None \in 0..Len(assertions)
    BY DEF None, TypeOK
  <2>3. CommitShape(list, b)
    BY <2>1, <2>2, ProposeShape
  <2>4. CopiesIn(list, b)
    BY NewCopies
  <2>5. Replaces(list, b)
    BY ProposeReplaces
  <2> HIDE DEF list
  <2> QED
    BY <2>1, <2>3, <2>4, <2>5
<1>3. ASSUME NEW b \in Branch, NEW a \in 1..Len(assertions), NEW st \in Status, st # "accepted",
             CanSetStatus(b, a), Commits(p, b, WithStatus(assertions, b, a, st))
      PROVE  Fine(b)
  <2> DEFINE list == WithStatus(assertions, b, a, st)
  <2>1. Commits(p, b, list) /\ HeadSeq < MaxSeq /\ assertions' = list
    BY <1>3 DEF Commits
  <2>2. Visible(b, a)
    BY <1>3 DEF CanSetStatus
  <2>3. CommitShape(list, b)
    BY <2>1, ChangeShape
  <2>4. CopiesIn(list, b)
    BY <2>2, ChangeCopies
  <2>5. AcceptsNothing(list)
    BY <1>3, WithStatusAccepts
  <2> HIDE DEF list
  <2> QED
    BY <2>1, <2>3, <2>4, <2>5, NothingReplaces
<1>4. ASSUME NEW b \in Branch, NEW a \in 1..Len(assertions),
             RetractAssertion(p, b, a) \/ DisputeAssertion(p, b, a)
      PROVE  Fine(b)
  <2>1. RetractedStatus(p, a) \in Status \ {"accepted"} /\ "disputed" \in Status \ {"accepted"}
    BY DEF RetractedStatus, Status
  <2> HIDE DEF Fine
  <2> QED
    BY <1>3, <1>4, <2>1 DEF RetractAssertion, DisputeAssertion
<1>5. ASSUME NEW b \in Branch, NEW a \in 1..Len(assertions), AcceptAssertion(p, b, a)
      PROVE  Fine(b)
  <2> DEFINE list == AcceptedList(b, a)
  <2>1. Commits(p, b, list) /\ HeadSeq < MaxSeq /\ assertions' = list
    BY <1>5 DEF AcceptAssertion, Commits
  <2>2. Visible(b, a) /\ (assertions[a].supersedes # None => Visible(b, assertions[a].supersedes))
    BY <1>5 DEF AcceptAssertion, CanSetStatus
  <2>3. CommitShape(list, b)
    BY <2>1, AcceptShape
  <2>4. CopiesIn(list, b)
    BY <2>1, <2>2, AcceptCopies
  <2>5. Replaces(list, b)
    BY <2>1, AcceptReplaces
  <2> HIDE DEF list
  <2> QED
    BY <2>1, <2>3, <2>4, <2>5
<1>6. ASSUME NEW b \in Branch, NEW a \in 1..Len(assertions), NEW st \in Status,
             SupersedeAssertion(p, b, a, st)
      PROVE  Fine(b)
  <2> DEFINE list == SupersededList(p, b, a, st)
  <2>1. /\ Commits(p, b, list) /\ HeadSeq < MaxSeq /\ assertions' = list
        /\ Len(list) <= MaxAssertions
    BY <1>6 DEF SupersedeAssertion, Commits
  <2>2. st = "accepted" => Visible(b, a)
    BY <1>6 DEF SupersedeAssertion, CanSetStatus
  <2>3. CommitShape(list, b)
    BY <2>1, SupersedeShape
  <2>4. CopiesIn(list, b)
    BY <2>1, <2>2, SupersedeCopies
  <2>5. Replaces(list, b)
    BY <2>1, SupersedeReplaces
  <2> HIDE DEF list
  <2> QED
    BY <2>1, <2>3, <2>4, <2>5
<1>7. ASSUME NEW r \in Branch, NEW a \in 1..Len(assertions), NEW e \in AssertionRec,
             e.branch = assertions[a].branch,
             e.created = assertions[a].created,
             e.overrides = assertions[a].overrides,
             e.supersedes = assertions[a].supersedes,
             e.history = assertions[a].history,
             Commits(p, r, [assertions EXCEPT ![a] = e])
      PROVE  Fine(r)
  <2> DEFINE list == [assertions EXCEPT ![a] = e]
  <2>1. Commits(p, r, list) /\ HeadSeq < MaxSeq /\ assertions' = list
    BY <1>7 DEF Commits
  <2>2. assertions \in Seq(AssertionRec)
    BY DEF TypeOK
  <2>3. CommitShape(list, r)
    BY <1>7, SameShape, ExceptShape
  <2>4. CopiesIn(list, r)
    BY <1>7, <2>2, NoCopies, ExceptCopies
  <2>5. AcceptsNothing(list)
    BY <1>7, <2>2, ExceptAccepts DEF AcceptsNothing
  <2> HIDE DEF list
  <2> QED
    BY <2>1, <2>3, <2>4, <2>5, NothingReplaces
<1>8. ASSUME NEW a \in 1..Len(assertions), VerifyAssertion(p, a)
      PROVE  Fine(Main)
  <2> DEFINE e == [assertions[a] EXCEPT !.verified = TRUE]
  <2>1. /\ e \in AssertionRec
        /\ e.branch = assertions[a].branch
        /\ e.created = assertions[a].created
        /\ e.overrides = assertions[a].overrides
        /\ e.supersedes = assertions[a].supersedes
        /\ e.history = assertions[a].history
    BY VerifiedType DEF TypeOK
  <2>2. Commits(p, Main, [assertions EXCEPT ![a] = e]) /\ Main \in Branch
    BY <1>8, BranchingAssumption DEF VerifyAssertion
  <2> HIDE DEF e, Fine
  <2> QED
    BY <1>7, <2>1, <2>2
<1>9. ASSUME NEW a \in 1..Len(assertions), NEW ev \in Evidence, AddEvidence(p, a, ev)
      PROVE  assertions[a].branch \in Branch /\ Fine(assertions[a].branch)
  <2> DEFINE e == [assertions[a] EXCEPT !.evidence = assertions[a].evidence \cup {ev}]
  <2>1. /\ e \in AssertionRec
        /\ e.branch = assertions[a].branch
        /\ e.created = assertions[a].created
        /\ e.overrides = assertions[a].overrides
        /\ e.supersedes = assertions[a].supersedes
        /\ e.history = assertions[a].history
        /\ assertions[a].branch \in Branch
    <3>1. assertions[a] \in AssertionRec
      BY DEF TypeOK
    <3>2. assertions[a].branch \in Branch
          /\ assertions[a].evidence \cup {ev} \in SUBSET Evidence
      BY <3>1 DEF AssertionRec
    <3> QED
      BY <3>1, <3>2, EvidenceType
  <2>2. Commits(p, assertions[a].branch, [assertions EXCEPT ![a] = e])
    BY <1>9 DEF AddEvidence
  <2> HIDE DEF e, Fine
  <2> QED
    BY <1>7, <2>1, <2>2
<1>10. Main \in Branch
  BY BranchingAssumption
<1>11. (\E r \in Branch : Fine(r)) \/ \E b, parent \in Branch : CreateBranch(p, b, parent)
  <2> HIDE DEF Fine
  <2> QED
    BY <1>1, <1>2, <1>4, <1>5, <1>6, <1>8, <1>9, <1>10
<1> QED
  BY <1>11

\* Copies and replacements keep coming after what they override and replace.
LEMMA NextEarlier ==
  ASSUME IInv, EarlierOK, Next
  PROVE  EarlierOK'
<1>1. ASSUME NEW r \in Branch, CommitShape(assertions', r), CopiesIn(assertions', r)
      PROVE  EarlierOK'
  <2>1. /\ Len(assertions) \in Nat /\ Len(assertions') \in Nat
        /\ Len(assertions) <= Len(assertions')
        /\ \A a \in 1..Len(assertions') : a \in 1..Len(assertions) \/ a \in Added(assertions')
    BY <1>1 DEF CommitShape, IInv, TypeOK, Added
  <2> SUFFICES ASSUME NEW a \in 1..Len(assertions')
               PROVE  /\ assertions'[a].overrides \in 0..a - 1
                      /\ assertions'[a].supersedes \in 0..a - 1
    BY DEF EarlierOK, Earlier
  <2>2. CASE a \in 1..Len(assertions)
    BY <1>1, <2>2 DEF CommitShape, KeepsOld, EarlierOK, Earlier
  <2>3. CASE a \in Added(assertions')
    <3>1. a >= Len(assertions) + 1
      BY <2>1, <2>3 DEF Added
    <3>2. assertions'[a].supersedes \in 0..Len(assertions)
      BY <1>1 DEF CommitShape, RefsIn
    <3>3. assertions'[a].overrides = 0 \/ assertions'[a].overrides \in 1..Len(assertions)
      BY <1>1, <2>3 DEF CopiesIn, None
    <3> QED
      BY <2>1, <3>1, <3>2, <3>3
  <2> QED
    BY <2>1, <2>2, <2>3
<1>2. ASSUME NEW p \in Actor, NEW b \in Branch, NEW parent \in Branch, CreateBranch(p, b, parent)
      PROVE  EarlierOK'
  BY <1>2 DEF CreateBranch, EarlierOK
<1> QED
  BY <1>1, <1>2, NextVersions

-----------------------------------------------------------------------------
(* One version of a claim.                                                  *)

\* A branch is the first of its chain, without limit.
LEMMA OwnLink ==
  ASSUME FInv, WalkOK, NEW r \in DOMAIN branches
  PROVE  /\ InChain(r, r)
         /\ Position(r, r) = 1
         /\ LimitOf(r, r) = MaxSeq
         /\ \A c : c # r /\ InChain(r, c) => Position(r, c) \in Nat /\ 1 < Position(r, c)
<1>1. /\ r \in DOMAIN chain
      /\ chain[r] \in Seq(Link)
      /\ Len(chain[r]) \in Nat
      /\ Len(chain[r]) >= 1
      /\ chain[r][1].branch = r
  BY LinkType DEF FInv, IInv, TypeOK, ChainOK
<1>2. 1 \in 1..Len(chain[r])
  BY <1>1
<1>3. \A i \in 1..Len(chain[r]) : chain[r][i].branch = r => i = 1
  BY <1>1, <1>2 DEF FInv, LinksOK
<1>4. InChain(r, r) /\ Position(r, r) = 1
  BY <1>1, <1>2, <1>3 DEF InChain, Position
<1>5. LimitOf(r, r) = MaxSeq
  <2>1. chain[r][1] = [branch |-> r, limit |-> MaxSeq]
    BY DEF WalkOK
  <2> QED
    BY <1>4, <2>1 DEF LimitOf
<1>6. ASSUME NEW c, c # r, InChain(r, c)
      PROVE  Position(r, c) \in Nat /\ 1 < Position(r, c)
  <2>1. Position(r, c) \in 1..Len(chain[r]) /\ chain[r][Position(r, c)].branch = c
    BY <1>6 DEF InChain, Position
  <2>2. Position(r, c) # 1
    BY <1>1, <1>6, <2>1
  <2> QED
    BY <1>1, <2>1, <2>2
<1> QED
  BY <1>4, <1>5, <1>6

\* After a commit a branch sees all its own assertions, with their newest status.
LEMMA OwnVisible ==
  ASSUME FInv, WalkOK, NEW r \in DOMAIN branches, chain' = chain,
         assertions' \in Seq(AssertionRec),
         NEW a \in 1..Len(assertions'), assertions'[a].branch = r
  PROVE  Visible(r, a)' /\ EffectiveStatus(r, a)' = assertions'[a].history[MaxSeq]
<1>1. /\ InChain(r, r)
      /\ Position(r, r) = 1
      /\ LimitOf(r, r) = MaxSeq
      /\ \A c : c # r /\ InChain(r, c) => Position(r, c) \in Nat /\ 1 < Position(r, c)
  BY OwnLink
<1>2. /\ \A c : InChain(r, c)' <=> InChain(r, c)
      /\ \A c : Position(r, c)' = Position(r, c)
      /\ \A c : LimitOf(r, c)' = LimitOf(r, c)
  BY DEF InChain, Position, LimitOf
<1>3. assertions'[a].created <= MaxSeq
  <2>1. assertions'[a] \in AssertionRec
    OBVIOUS
  <2>2. assertions'[a].created \in 1..MaxSeq
    BY <2>1 DEF AssertionRec
  <2> QED
    BY <2>2, BranchingAssumption
<1>4. \A c : InChain(r, c) => ~ (Position(r, c) < 1)
  BY <1>1
<1>5. ~ OverriddenIn(r, a)'
  BY <1>1, <1>2, <1>4 DEF OverriddenIn
<1>6. InChain(r, assertions[a].branch)' /\ LimitOf(r, assertions[a].branch)' = MaxSeq
  <2>1. InChain(r, assertions[a].branch)' <=> InChain(r, r)
    BY DEF InChain
  <2>2. LimitOf(r, assertions[a].branch)' = LimitOf(r, r)
    BY DEF LimitOf, Position
  <2> QED
    BY <1>1, <2>1, <2>2
<1>7. Visible(r, a)'
  BY <1>3, <1>5, <1>6 DEF Visible
<1> QED
  BY <1>6, <1>7 DEF EffectiveStatus, StatusAt

\* A copy hides what it copies from its branch.
LEMMA CopyHides ==
  ASSUME FInv, WalkOK, NEW r \in DOMAIN branches, chain' = chain, HeadSeq < MaxSeq,
         CommitShape(assertions', r), CopiesIn(assertions', r),
         NEW c \in Added(assertions'), NEW k, k = assertions'[c].overrides, k # None
  PROVE  Visible(r, k) /\ ~ Visible(r, k)'
<1>1. /\ k \in 1..Len(assertions)
      /\ Visible(r, k)
      /\ assertions[k].branch # r
  BY DEF CopiesIn
<1>2. /\ assertions'[c].branch = r /\ assertions'[c].created = NextSeq
      /\ assertions'[k].branch = assertions[k].branch
      /\ c \in 1..Len(assertions')
  BY <1>1 DEF CommitShape, AddsNew, KeepsOld, Added, FInv, IInv, TypeOK
<1>3. InChain(r, assertions[k].branch)
  BY <1>1 DEF Visible
<1>4. /\ InChain(r, r)
      /\ Position(r, r) = 1
      /\ LimitOf(r, r) = MaxSeq
      /\ 1 < Position(r, assertions[k].branch)
  BY <1>1, <1>3, OwnLink
<1>5. NextSeq <= MaxSeq
  BY NextSeqType DEF FInv
<1>6. OverriddenIn(r, k)'
  <2>1. /\ InChain(r, assertions[c].branch)' <=> InChain(r, r)
        /\ Position(r, assertions[c].branch)' = Position(r, r)
        /\ LimitOf(r, assertions[c].branch)' = LimitOf(r, r)
    BY <1>2 DEF InChain, Position, LimitOf
  <2>2. Position(r, assertions[k].branch)' = Position(r, assertions[k].branch)
    BY <1>2 DEF Position
  <2>3. /\ assertions'[c].overrides = k
        /\ InChain(r, assertions[c].branch)'
        /\ Position(r, assertions[c].branch)' < Position(r, assertions[k].branch)'
        /\ assertions'[c].created <= LimitOf(r, assertions[c].branch)'
    <3> USE <1>4, <1>5, <2>1, <2>2
    <3>1. assertions'[c].overrides = k /\ InChain(r, assertions[c].branch)'
      OBVIOUS
    <3>2. Position(r, assertions[c].branch)' < Position(r, assertions[k].branch)'
      OBVIOUS
    <3>3. assertions'[c].created <= LimitOf(r, assertions[c].branch)'
      BY <1>2
    <3> QED
      BY <3>1, <3>2, <3>3
  <2> QED
    BY <1>2, <2>3 DEF OverriddenIn
<1> QED
  BY <1>1, <1>6 DEF Visible

\* OneVersionPerClaim says the same with the roots of the list.
LEMMA OneVersionOf ==
  ASSUME OneVersionPerClaim, NEW b \in DOMAIN branches,
         NEW a1 \in 1..Len(assertions), NEW a2 \in 1..Len(assertions),
         Visible(b, a1), Visible(b, a2), RootsOf(assertions)[a1] = RootsOf(assertions)[a2]
  PROVE  a1 = a2
<1>1. RootOf = RootsOf(assertions)
  BY DEF RootOf, RootsOf
<1> HIDE DEF RootOf
<1> QED
  BY <1>1 DEF OneVersionPerClaim

\* What a commit on r adds, no other branch sees.
LEMMA AddedUnseen ==
  ASSUME IInv, NEW r \in Branch, CommitShape(assertions', r), chain' = chain,
         NEW b \in DOMAIN branches, b # r, NEW a \in Added(assertions')
  PROVE  ~ Visible(b, a)'
<1>1. assertions'[a].branch = r /\ assertions'[a].created = NextSeq
  BY DEF CommitShape, AddsNew, Added
<1>2. InChain(b, r) => LimitOf(b, r) \in Int /\ LimitOf(b, r) <= HeadSeq
  BY LimitOfOther
<1>3. HeadSeq \in Nat
  BY DEF IInv, TypeOK, HeadSeq
<1>4. InChain(b, r) => ~ (NextSeq <= LimitOf(b, r))
  BY <1>2, <1>3 DEF NextSeq
<1>5. /\ InChain(b, r)' <=> InChain(b, r)
      /\ LimitOf(b, r)' = LimitOf(b, r)
  BY DEF InChain, LimitOf, Position
<1> QED
  BY <1>1, <1>4, <1>5 DEF Visible, InChain, LimitOf, Position

\* A commit leaves one version: what it adds hides what it copies from its own branch, and no
\* other branch sees it.
LEMMA CommitOneVersion ==
  ASSUME VInv, Next, EarlierOK', NEW p \in Actor, NEW r \in Branch, Commits(p, r, assertions'),
         CommitShape(assertions', r), CopiesIn(assertions', r)
  PROVE  OneVersionPerClaim'
<1> DEFINE Old == RootsOf(assertions)
           New == RootsOf(assertions')
           n   == Len(assertions)
<1>1. /\ chain' = chain
      /\ branches' = branches
      /\ HeadSeq < MaxSeq
      /\ FInv /\ IInv /\ WalkOK
  BY DEF Commits, VInv, FInv
<1>2. /\ n \in Nat
      /\ Len(assertions') \in Nat
      /\ n <= Len(assertions')
      /\ \A a \in 1..Len(assertions') : a \in 1..n \/ a \in Added(assertions')
      /\ \A a \in Added(assertions') : a \in 1..Len(assertions') /\ a > n
  BY DEF CommitShape, VInv, FInv, IInv, TypeOK, Added
<1>3. Earlier(assertions) /\ Earlier(assertions')
  BY DEF VInv, EarlierOK
<1>4. ASSUME NEW a \in 1..n
      PROVE  New[a] = Old[a] /\ Old[a] \in 1..a /\ a \in 1..Len(assertions')
  <2>1. \A x \in 1..n : assertions'[x].overrides = assertions[x].overrides
    BY DEF CommitShape, KeepsOld
  <2> QED
    BY <1>2, <1>3, <2>1, RootsKept, RootIs
<1>5. ASSUME NEW a \in Added(assertions'), assertions'[a].overrides = None
      PROVE  New[a] = a
  BY <1>2, <1>3, <1>5, RootIs
<1>6. ASSUME NEW a \in Added(assertions'), NEW k, k = assertions'[a].overrides, k # None
      PROVE  k \in 1..n /\ New[a] = Old[k] /\ Old[k] \in 1..n /\ Visible(r, k)
  <2>1. k \in 1..n /\ Visible(r, k)
    BY <1>6 DEF CopiesIn
  <2>2. New[a] = New[k]
    BY <1>2, <1>3, <1>6, RootIs
  <2>3. Old[k] \in 1..k /\ New[k] = Old[k]
    BY <1>4, <2>1
  <2> QED
    BY <1>2, <2>1, <2>2, <2>3
<1> HIDE DEF Old, New, n
<1>7. ASSUME NEW b \in DOMAIN branches, NEW a1 \in 1..n, NEW a2 \in 1..n,
             Visible(b, a1), Visible(b, a2), Old[a1] = Old[a2]
      PROVE  a1 = a2
  BY <1>7, OneVersionOf DEF VInv, Old, n
<1>8. ASSUME r \in DOMAIN branches, NEW x \in Added(assertions'), NEW y \in 1..Len(assertions'),
             Visible(r, y)', New[x] = New[y]
      PROVE  x = y
  <2>1. CASE assertions'[x].overrides = None
    <3>1. New[x] = x /\ x > n
      BY <1>2, <1>5, <2>1
    <3>2. CASE y \in 1..n
      <4>1. New[y] \in 1..y
        BY <1>4, <3>2
      <4> QED
        BY <1>2, <1>8, <3>1, <3>2, <4>1
    <3>3. CASE y \in Added(assertions') /\ assertions'[y].overrides = None
      BY <1>5, <1>8, <3>1, <3>3
    <3>4. CASE y \in Added(assertions') /\ assertions'[y].overrides # None
      <4>1. New[y] \in 1..n
        BY <1>6, <3>4
      <4> QED
        BY <1>2, <1>8, <3>1, <4>1
    <3> QED
      BY <1>2, <3>2, <3>3, <3>4
  <2>2. CASE assertions'[x].overrides # None
    <3>1. PICK k : k = assertions'[x].overrides /\ k # None
      BY <2>2
    <3>2. k \in 1..n /\ New[x] = Old[k] /\ Old[k] \in 1..n /\ Visible(r, k)
      BY <1>6, <3>1
    <3>3. ~ Visible(r, k)'
      BY <1>1, <1>8, <3>1, CopyHides
    <3>4. CASE y \in 1..n
      <4>1. Visible(r, y)
        BY <1>1, <1>8, <3>4, VisibleBefore DEF n
      <4>2. Old[y] = Old[k]
        BY <1>4, <1>8, <3>2, <3>4
      <4>3. y = k
        BY <1>7, <1>8, <3>2, <3>4, <4>1, <4>2
      <4> QED
        BY <1>8, <3>3, <4>3
    <3>5. CASE y \in Added(assertions') /\ assertions'[y].overrides = None
      <4>1. New[y] = y /\ y > n
        BY <1>2, <1>5, <3>5
      <4>2. y = Old[k]
        BY <1>8, <3>2, <4>1
      <4>3. y \in 1..n
        BY <3>2, <4>2
      <4> QED
        BY <1>2, <4>1, <4>3
    <3>6. CASE y \in Added(assertions') /\ assertions'[y].overrides # None
      <4>1. PICK m : m = assertions'[y].overrides /\ m # None
        BY <3>6
      <4>2. m \in 1..n /\ New[y] = Old[m] /\ Visible(r, m)
        BY <1>6, <3>6, <4>1
      <4>3. m = k
        BY <1>7, <1>8, <3>2, <4>2
      <4> QED
        BY <3>1, <3>6, <4>1, <4>3 DEF CopiesIn
    <3> QED
      BY <1>2, <3>4, <3>5, <3>6
  <2> QED
    BY <2>1, <2>2
<1>9. RootOf' = New
  BY DEF RootOf, RootsOf, New
<1> SUFFICES ASSUME NEW b \in DOMAIN branches,
                    NEW a1 \in 1..Len(assertions'), NEW a2 \in 1..Len(assertions'),
                    Visible(b, a1)', Visible(b, a2)', New[a1] = New[a2]
             PROVE  a1 = a2
  <2> HIDE DEF RootOf
  <2> QED
    BY <1>1, <1>9 DEF OneVersionPerClaim
<1>10. CASE a1 \in 1..n /\ a2 \in 1..n
  <2>1. Visible(b, a1) /\ Visible(b, a2)
    BY <1>1, <1>10, VisibleBefore DEF n
  <2> QED
    BY <1>4, <1>7, <1>10, <2>1
<1>11. CASE b # r
  BY <1>1, <1>2, <1>10, <1>11, AddedUnseen
<1>12. CASE b = r
  BY <1>2, <1>8, <1>10, <1>12
<1> QED
  BY <1>11, <1>12

\* Where neither its chain nor the assertions change, a branch sees the same.
LEMMA SameSight ==
  ASSUME NEW b, chain'[b] = chain[b], assertions' = assertions, NEW a
  PROVE  (Visible(b, a)' <=> Visible(b, a)) /\ EffectiveStatus(b, a)' = EffectiveStatus(b, a)
<1>1. /\ \A c : InChain(b, c)' <=> InChain(b, c)
      /\ \A c : Position(b, c)' = Position(b, c)
      /\ \A c : LimitOf(b, c)' = LimitOf(b, c)
  BY DEF InChain, Position, LimitOf
<1>2. OverriddenIn(b, a)' <=> OverriddenIn(b, a)
  BY <1>1 DEF OverriddenIn
<1>3. Visible(b, a)' <=> Visible(b, a)
  BY <1>1, <1>2 DEF Visible
<1>4. EffectiveStatus(b, a)' = EffectiveStatus(b, a)
  BY <1>1, <1>3 DEF EffectiveStatus, StatusAt
<1> QED
  BY <1>3, <1>4

\* What a new branch sees, its parent saw.
LEMMA NewSees ==
  ASSUME FInv, NEW p \in Actor, NEW b \in Branch, NEW parent \in Branch,
         CreateBranch(p, b, parent), NEW a \in 1..Len(assertions), Visible(b, a)'
  PROVE  Visible(parent, a)
<1> DEFINE c == assertions[a].branch
<1>1. /\ assertions' = assertions /\ parent \in DOMAIN branches
      /\ assertions[a] \in AssertionRec
      /\ c \in DOMAIN branches
  BY DEF CreateBranch, Exists, FInv, IInv, TypeOK, HomesOK, AllAtHome, AtHome
<1>2. InChain(b, c)' /\ assertions[a].created <= LimitOf(b, c)'
  BY <1>1 DEF Visible
<1>3. InChain(parent, c) /\ LimitOf(b, c)' = Min2(LimitOf(parent, c), HeadSeq)
  BY <1>1, <1>2, NewPosition
<1>4. LimitOf(parent, c) \in 0..MaxSeq /\ HeadSeq \in 0..MaxSeq
  BY <1>1, <1>3, LimitOfOther DEF FInv, IInv, TypeOK, HeadSeq
<1>5. /\ assertions[a].created \in 1..MaxSeq
      /\ assertions[a].history \in [1..MaxSeq -> Status \cup {Unborn}]
  BY <1>1 DEF AssertionRec
<1> HIDE DEF c
<1>6. Min2(LimitOf(parent, c), HeadSeq) \in 1..MaxSeq
  BY <1>2, <1>3, <1>4, <1>5, BranchingAssumption DEF Min2
<1>7. assertions[a].history[Min2(LimitOf(parent, c), HeadSeq)] # Hidden
  BY <1>5, <1>6 DEF Status, Unborn, Hidden
<1>8. EffectiveStatus(b, a)' # Hidden
  <2>1. EffectiveStatus(b, a)' = assertions[a].history[LimitOf(b, c)']
    BY <1>1 DEF EffectiveStatus, StatusAt, c
  <2> QED
    BY <1>3, <1>7, <2>1
<1>9. EffectiveStatus(parent, a) # Hidden
  BY <1>8, NewStatus
<1> QED
  BY <1>9 DEF EffectiveStatus

\* A new branch leaves one version: it sees what its parent does.
LEMMA CreateOneVersion ==
  ASSUME VInv, NEW p \in Actor, NEW b \in Branch, NEW parent \in Branch,
         CreateBranch(p, b, parent)
  PROVE  OneVersionPerClaim'
<1>1. /\ assertions' = assertions
      /\ parent \in DOMAIN branches
      /\ DOMAIN branches' = DOMAIN branches \cup {b}
      /\ \A c \in DOMAIN branches : chain'[c] = chain[c]
      /\ FInv
  BY DEF CreateBranch, Exists, VInv, FInv, IInv, TypeOK
<1>2. ASSUME NEW c \in DOMAIN branches, c # b, NEW a \in 1..Len(assertions), Visible(c, a)'
      PROVE  Visible(c, a)
  <2>1. chain'[c] = chain[c]
    BY <1>1
  <2> QED
    BY <1>1, <1>2, <2>1, SameSight
<1>3. ASSUME NEW a \in 1..Len(assertions), Visible(b, a)'
      PROVE  Visible(parent, a)
  BY <1>1, <1>3, NewSees
<1>4. RootOf' = RootsOf(assertions) /\ b \notin DOMAIN branches
  BY <1>1 DEF RootOf, RootsOf, CreateBranch, Exists
<1> SUFFICES ASSUME NEW c \in DOMAIN branches \cup {b},
                    NEW a1 \in 1..Len(assertions), NEW a2 \in 1..Len(assertions),
                    Visible(c, a1)', Visible(c, a2)',
                    RootsOf(assertions)[a1] = RootsOf(assertions)[a2]
             PROVE  a1 = a2
  <2> HIDE DEF RootOf
  <2> QED
    BY <1>1, <1>4 DEF OneVersionPerClaim
<1>5. CASE c = b
  <2>1. Visible(parent, a1) /\ Visible(parent, a2)
    BY <1>3, <1>5
  <2> QED
    BY <1>1, <2>1, OneVersionOf DEF VInv
<1>6. CASE c # b
  <2>1. Visible(c, a1) /\ Visible(c, a2)
    BY <1>2, <1>6
  <2> QED
    BY <1>6, <2>1, OneVersionOf DEF VInv
<1> QED
  BY <1>5, <1>6

\* The invariant holds in the initial state ...
LEMMA InitVInv ==
  ASSUME Init
  PROVE  VInv
<1>1. WalkOK
  <2> SUFFICES ASSUME NEW b \in DOMAIN branches
               PROVE  /\ chain[b][1] = [branch |-> b, limit |-> MaxSeq]
                      /\ \A n \in 2..Len(chain[b]) :
                           chain[b][n] = LinkAfter(branches, chain[b][n - 1])
                      /\ chain[b][Len(chain[b])].branch = Main
    BY DEF WalkOK
  <2>1. b = Main /\ chain[b] = <<[branch |-> Main, limit |-> MaxSeq]>>
    BY DEF Init
  <2>2. Len(chain[b]) = 1 /\ chain[b][1] = [branch |-> Main, limit |-> MaxSeq]
    BY <2>1
  <2> QED
    BY <2>1, <2>2
<1>2. EarlierOK /\ OneVersionPerClaim
  BY DEF Init, EarlierOK, Earlier, OneVersionPerClaim
<1> QED
  BY <1>1, <1>2, InitFInv DEF VInv

\* ... and every step preserves it.
LEMMA StepVInv ==
  ASSUME VInv, [Next]_vars
  PROVE  VInv'
<1>1. FInv'
  BY StepFInv DEF VInv
<1>2. CASE UNCHANGED vars
  <2>1. OneVersionPerClaim'
    <3>1. RootOf' = RootOf
      BY <1>2 DEF vars, RootOf
    <3>2. \A b, a : Visible(b, a)' <=> Visible(b, a)
      BY <1>2 DEF vars, Visible, OverriddenIn, LimitOf, Position, InChain
    <3> HIDE DEF RootOf
    <3> QED
      BY <1>2, <3>1, <3>2 DEF vars, VInv, OneVersionPerClaim
  <2>2. WalkOK' /\ EarlierOK'
    BY <1>2 DEF vars, VInv, WalkOK, EarlierOK
  <2> QED
    BY <1>1, <2>1, <2>2 DEF VInv
<1>3. CASE Next
  <2>1. WalkOK' /\ EarlierOK'
    BY <1>3, NextWalk, NextEarlier DEF VInv, FInv
  <2>2. OneVersionPerClaim'
    BY <1>3, <2>1, NextVersions, CommitOneVersion, CreateOneVersion DEF VInv, FInv
  <2> QED
    BY <1>1, <2>1, <2>2 DEF VInv
<1> QED
  BY <1>2, <1>3

-----------------------------------------------------------------------------
(* Replacements.                                                            *)

\* What a commit makes accepted in its branch replaces what AcceptsFor says.
LEMMA AcceptedReplaces ==
  ASSUME VInv, Next, NEW p \in Actor, NEW r \in Branch, Commits(p, r, assertions'),
         r \in DOMAIN branches, CommitShape(assertions', r),
         NEW old, AcceptsFor(assertions', old),
         NEW a \in 1..Len(assertions'), EffectiveStatus(r, a)' = "accepted",
         a > Len(assertions) \/ EffectiveStatus(r, a) # "accepted"
  PROVE  assertions'[a].supersedes = old
<1>1. /\ chain' = chain
      /\ FInv /\ IInv /\ WalkOK
      /\ assertions' \in Seq(AssertionRec)
      /\ Len(assertions) \in Nat
      /\ a \in 1..Len(assertions) \/ a \in Added(assertions')
      /\ MaxSeq \in 1..MaxSeq
  BY NextSeqType, BranchingAssumption
     DEF Commits, VInv, FInv, CommitShape, IInv, TypeOK, Added
<1>2. CASE a \in Added(assertions')
  <2>1. assertions'[a].branch = r /\ a \notin 1..Len(assertions)
    BY <1>1, <1>2 DEF CommitShape, AddsNew, Added
  <2>2. assertions'[a].history[MaxSeq] = "accepted"
    BY <1>1, <2>1, OwnVisible
  <2> QED
    BY <1>1, <2>1, <2>2 DEF AcceptsFor
<1>3. CASE a \in 1..Len(assertions)
  <2> DEFINE l == LimitOf(r, assertions[a].branch)
  <2>1. Visible(r, a)'
    BY DEF EffectiveStatus, Hidden
  <2>2. Visible(r, a) /\ LimitOf(r, assertions[a].branch)' = l
    BY <1>1, <1>3, <2>1, VisibleBefore
  <2>3. EffectiveStatus(r, a) = assertions[a].history[l]
    BY <2>2 DEF EffectiveStatus, StatusAt
  <2>4. EffectiveStatus(r, a)' = assertions'[a].history[l]
    BY <2>1, <2>2 DEF EffectiveStatus, StatusAt
  <2>5. l \in 1..MaxSeq
    <3>1. assertions[a] \in AssertionRec
      BY <1>1, <1>3 DEF IInv, TypeOK
    <3>2. assertions[a].created \in 1..MaxSeq
      BY <3>1 DEF AssertionRec
    <3>3. InChain(r, assertions[a].branch) /\ assertions[a].created <= l
      BY <2>2 DEF Visible
    <3>4. l \in 0..MaxSeq
      BY <1>1, <3>3, LimitOfOther
    <3> HIDE DEF l
    <3> QED
      BY <3>2, <3>3, <3>4, BranchingAssumption
  <2>6. assertions[a].history[l] # "accepted"
    BY <1>1, <1>3, <2>3
  <2> HIDE DEF l
  <2> QED
    BY <2>4, <2>5, <2>6 DEF AcceptsFor
<1> QED
  BY <1>1, <1>2, <1>3

\* After a commit that retires old, its branch shows no version of old as live: the retired one is
\* the one version that it sees.
LEMMA RetiredNotLive ==
  ASSUME VInv', EarlierOK, FInv, WalkOK, NEW p \in Actor, NEW r \in Branch,
         Commits(p, r, assertions'), r \in DOMAIN branches, CommitShape(assertions', r),
         NEW old, Retired(assertions', r, old),
         NEW o \in 1..Len(assertions'),
         RootsOf(assertions')[o] = RootsOf(assertions')[old]
  PROVE  EffectiveStatus(r, o)' \notin Live
<1>1. PICK x \in 1..Len(assertions') :
        /\ assertions'[x].branch = r
        /\ assertions'[x].history[MaxSeq] = "superseded"
        /\ x = old \/ assertions'[x].overrides = old
  BY DEF Retired
<1>2. /\ chain' = chain /\ branches' = branches
      /\ assertions' \in Seq(AssertionRec)
      /\ Len(assertions') \in Nat
      /\ Earlier(assertions')
      /\ OneVersionPerClaim'
      /\ old \in 1..Len(assertions)
  BY DEF Commits, CommitShape, VInv, EarlierOK, Retired
<1>3. Visible(r, x)' /\ EffectiveStatus(r, x)' = "superseded"
  BY <1>1, <1>2, OwnVisible
<1>4. RootsOf(assertions')[x] = RootsOf(assertions')[old]
  <2>1. old # None
    BY <1>2 DEF None
  <2> QED
    BY <1>1, <1>2, <2>1, RootIs
<1>5. CASE Visible(r, o)'
  <2>1. RootOf' = RootsOf(assertions')
    BY DEF RootOf, RootsOf
  <2>2. RootOf'[x] = RootOf'[o]
    BY <1>4, <2>1
  <2> HIDE DEF RootOf
  <2>3. x = o
    BY <1>2, <1>3, <1>5, <2>2 DEF OneVersionPerClaim
  <2> QED
    BY <1>3, <2>3 DEF Live
<1>6. CASE ~ Visible(r, o)'
  BY <1>6 DEF EffectiveStatus, Hidden, Live
<1> QED
  BY <1>5, <1>6

\* From the invariant, every step that accepts a replacement retires what it replaces.
LEMMA StepReplacement ==
  ASSUME VInv, Next
  PROVE  ReplacementStep
<1>1. VInv' /\ IInv /\ FInv /\ WalkOK /\ EarlierOK
  BY StepVInv DEF VInv, FInv
<1>2. RootOf' = RootsOf(assertions')
  BY DEF RootOf, RootsOf
<1> HIDE DEF RootOf
<1> SUFFICES ASSUME NEW b \in DOMAIN branches, NEW a \in 1..Len(assertions'),
                    assertions'[a].supersedes # None,
                    EffectiveStatus(b, a)' = "accepted",
                    a > Len(assertions) \/ EffectiveStatus(b, a) # "accepted",
                    NEW o \in 1..Len(assertions'),
                    RootsOf(assertions')[o] = RootsOf(assertions')[assertions'[a].supersedes]
             PROVE  EffectiveStatus(b, o)' \notin Live
  BY <1>2 DEF ReplacementStep
<1>3. ASSUME NEW p \in Actor, NEW r \in Branch, CommitShape(assertions', r),
             CopiesIn(assertions', r), Replaces(assertions', r), Commits(p, r, assertions')
      PROVE  EffectiveStatus(b, o)' \notin Live
  <2>1. chain' = chain
    BY <1>3 DEF Commits
  <2>2. CASE b # r
    <3>1. a \in 1..Len(assertions) \/ a \in Len(assertions)+1..Len(assertions')
      BY <1>1 DEF IInv, TypeOK
    <3>2. a \notin 1..Len(assertions)
      BY <1>1, <1>3, <2>1, <2>2, StatusUnchanged DEF IInv, TypeOK
    <3>3. EffectiveStatus(b, a)' = Hidden
      BY <1>1, <1>3, <2>1, <2>2, <3>1, <3>2, AddedHidden
    <3> QED
      BY <3>3 DEF Hidden
  <2>3. CASE b = r
    <3>1. PICK old \in 0..Len(assertions) :
            /\ AcceptsFor(assertions', old)
            /\ old # None => Retired(assertions', r, old)
      BY <1>3 DEF Replaces
    <3>2. assertions'[a].supersedes = old
      BY <1>1, <1>3, <2>3, <3>1, AcceptedReplaces
    <3> QED
      BY <1>1, <1>3, <2>3, <3>1, <3>2, RetiredNotLive
  <2> QED
    BY <2>2, <2>3
<1>4. ASSUME NEW p \in Actor, NEW new \in Branch, NEW parent \in Branch,
             CreateBranch(p, new, parent)
      PROVE  EffectiveStatus(b, o)' \notin Live
  <2>1. assertions' = assertions /\ chain'[b] = chain[b]
    BY <1>1, <1>4 DEF CreateBranch, Exists, IInv, TypeOK
  <2>2. EffectiveStatus(b, a)' = EffectiveStatus(b, a)
    BY <2>1, SameSight
  <2> QED
    BY <1>1, <2>1, <2>2 DEF IInv, TypeOK
<1> QED
  BY <1>1, <1>3, <1>4, NextVersions

-----------------------------------------------------------------------------
(* Theorems.                                                                *)

\* The invariant holds of every state that Branching reaches.
LEMMA VersionsInvariant == Spec => []VInv
<1>1. Init => VInv
  BY InitVInv
<1>2. VInv /\ [Next]_vars => VInv'
  BY StepVInv
<1> QED
  BY <1>1, <1>2, PTL DEF Spec

\* The chain that a view goes by is what the walk of branch_chain computes at any later time, and it
\* ends at main: no fork, however deep, and no later branch changes where a branch looks.
THEOREM ChainsAreWalks == Spec => []ChainIsWalk
<1>1. VInv => ChainIsWalk
  BY WalkedIsChain DEF VInv, ChainIsWalk, WalkOK
<1> QED
  BY <1>1, VersionsInvariant, PTL

\* Of an assertion and the copies made of it on branches, a branch sees at most one, whatever was
\* copied where and in which order (status_cmds, effective_status).
THEOREM OneVersion == Spec => []OneVersionPerClaim
<1>1. VInv => OneVersionPerClaim
  BY DEF VInv
<1> QED
  BY <1>1, VersionsInvariant, PTL

\* The request that makes a replacement accepted in a branch leaves no version of what it replaces
\* live there, whichever branch the two were made on (accept_assertion, supersede_assertion).
THEOREM ReplacedIsRetired == Spec => ReplacementRetiresOld
<1>1. VInv /\ [Next]_vars => [ReplacementStep]_vars
  BY StepReplacement
<1> QED
  BY <1>1, VersionsInvariant, PTL DEF Spec, ReplacementRetiresOld
=============================================================================
