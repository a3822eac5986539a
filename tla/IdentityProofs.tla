--------------------------- MODULE IdentityProofs ---------------------------
(***************************************************************************)
(* The proof that an id stands for one resource, for any resources and any   *)
(* merges, as long as there cannot be more of them than redirects that        *)
(* resolve_id follows.                                                       *)
(***************************************************************************)
EXTENDS Identity, Counting, FiniteSetTheorems, TLAPS

-----------------------------------------------------------------------------
(* The inductive invariant: the redirects are a forest.                     *)

ApprovedOnes == {n \in 1..Len(proposals) : proposals[n].status = "approved"}

\* root is where a resource's redirects end, depth how many they are.
Tree(root, depth) ==
  \A r \in Resource :
    /\ depth[r] <= Cardinality(ApprovedOnes)
    /\ ~ Merged(root[r])
    /\ Merged(r) => root[r] = root[redirects[r]] /\ depth[r] = depth[redirects[r]] + 1
    /\ ~ Merged(r) => root[r] = r /\ depth[r] = 0

\* There are no more redirects in a row than there were merges.
Forest == \E root \in [Resource -> Resource], depth \in [Resource -> Nat] : Tree(root, depth)

\* The members are those that were merged into it.
MembersFollow == \A r, s \in Resource : r \in members[s] <=> redirects[r] = s

IdInv == IdentityTypeOK /\ MembersFollow /\ Forest

-----------------------------------------------------------------------------
(* Following redirects, and collecting members.                             *)

\* What f applied to a leads to, once, twice, up to n times.
Orbit(A, n, f, a, at) ==
  /\ at \in [0..n -> A]
  /\ at[0] = a
  /\ \A m \in 1..n : at[m] = f[at[m - 1]]
  /\ Iterated(n, f, a) = at[n]

\* The recursion that Iterated is defined by has a solution.
LEMMA Iterates ==
  ASSUME NEW A, NEW a \in A, NEW n \in Nat, NEW f \in [A -> A]
  PROVE  \E at : Orbit(A, n, f, a, at)
<1> DEFINE next == [p \in (1..n) \X A |-> f[p[2]]]
           Body(g) == [m \in 0..n |-> IF m = 0 THEN a ELSE f[g[m - 1]]]
           at == CHOOSE g : g = Body(g)
<1>1. next \in [(1..n) \X A -> A]
  OBVIOUS
<1> HIDE DEF Body, at
<1>2. PICK g \in [0..n -> A] : Steps(g, n, a, next)
  <2> HIDE DEF next
  <2> QED
    BY <1>1, StepsExist
<1>3. ASSUME NEW m \in 1..n
      PROVE  g[m] = f[g[m - 1]]
  <2>1. g[m - 1] \in A /\ <<m, g[m - 1]>> \in (1..n) \X A
    OBVIOUS
  <2>2. g[m] = next[<<m, g[m - 1]>>]
    BY <1>2 DEF Steps
  <2> QED
    BY <2>1, <2>2
<1>4. g[0] = a
  BY <1>2 DEF Steps
<1>5. ASSUME NEW h
      PROVE  Body(h)[0] = a /\ \A m \in 1..n : Body(h)[m] = f[h[m - 1]]
  <2>1. Body(h)[0] = a
    BY DEF Body
  <2>2. ASSUME NEW m \in 1..n
        PROVE  Body(h)[m] = f[h[m - 1]]
    <3>1. m \in 0..n /\ m # 0
      OBVIOUS
    <3> QED
      BY <3>1 DEF Body
  <2> QED
    BY <2>1, <2>2
<1>6. g = Body(g)
  <2>1. Body(g) = [m \in 0..n |-> Body(g)[m]]
    BY DEF Body
  <2>2. g = [m \in 0..n |-> g[m]]
    OBVIOUS
  <2>3. ASSUME NEW m \in 0..n
        PROVE  Body(g)[m] = g[m]
    <3>1. CASE m = 0
      BY <1>4, <1>5, <3>1
    <3>2. CASE m \in 1..n
      BY <1>3, <1>5, <3>2
    <3> QED
      BY <3>1, <3>2
  <2> QED
    BY <2>1, <2>2, <2>3
<1>7. at = Body(at)
  BY <1>6 DEF at
<1>8. at[0] = a /\ \A m \in 1..n : at[m] = f[at[m - 1]]
  BY <1>5, <1>7
<1>9. 0..n \subseteq {m \in 0..n : at[m] \in A}
  <2> DEFINE S == {m \in 0..n : at[m] \in A}
  <2>1. 0 \in S
    BY <1>8
  <2>2. ASSUME NEW m \in 1..n, m - 1 \in S
        PROVE  m \in S
    <3>1. at[m - 1] \in A
      BY <2>2
    <3>2. at[m] \in A
      BY <1>8, <3>1
    <3> QED
      BY <3>2
  <2> HIDE DEF S
  <2>3. 0..n \subseteq S
    BY <2>1, <2>2, InductionUpTo
  <2> QED
    BY <2>3 DEF S
<1>10. at \in [0..n -> A]
  <2>1. Body(at) = [m \in 0..n |-> Body(at)[m]]
    BY DEF Body
  <2>2. at = [m \in 0..n |-> at[m]]
    BY <1>7, <2>1
  <2> QED
    BY <1>9, <2>2
<1>11. Iterated(n, f, a) = at[n]
  BY DEF Iterated, at, Body
<1>12. Orbit(A, n, f, a, at)
  BY <1>8, <1>10, <1>11 DEF Orbit
<1> QED
  BY <1>12

\* One redirect leads to a resource with the same root.
LEMMA FollowsTree ==
  ASSUME IdentityTypeOK, NEW root \in [Resource -> Resource], NEW depth \in [Resource -> Nat],
         Tree(root, depth), NEW r \in Resource
  PROVE  /\ Follow \in [Resource -> Resource]
         /\ root[Follow[r]] = root[r]
         /\ depth[r] > 0 => depth[Follow[r]] = depth[r] - 1
         /\ depth[r] = 0 => Follow[r] = r /\ root[r] = r
<1>1. \A s \in Resource : (IF Merged(s) THEN redirects[s] ELSE s) \in Resource
  BY DEF IdentityTypeOK, Merged
<1>2. Follow \in [Resource -> Resource] /\ Follow[r] = IF Merged(r) THEN redirects[r] ELSE r
  BY <1>1 DEF Follow
<1>3. CASE Merged(r)
  <2>1. Follow[r] = redirects[r] /\ redirects[r] \in Resource
    BY <1>1, <1>2, <1>3
  <2>2. root[r] = root[redirects[r]] /\ depth[r] = depth[redirects[r]] + 1
    BY <1>3 DEF Tree
  <2>3. depth[redirects[r]] \in Nat
    BY <2>1
  <2> QED
    BY <1>2, <2>1, <2>2, <2>3
<1>4. CASE ~ Merged(r)
  <2>1. Follow[r] = r /\ root[r] = r /\ depth[r] = 0
    BY <1>2, <1>4 DEF Tree
  <2> QED
    BY <1>2, <2>1
<1> QED
  BY <1>3, <1>4

\* Following all redirects leads to the root.
LEMMA ResolvesToRoot ==
  ASSUME IdentityTypeOK, MaxProposals <= MaxHops,
         NEW root \in [Resource -> Resource], NEW depth \in [Resource -> Nat],
         Tree(root, depth), Cardinality(ApprovedOnes) \in 0..MaxProposals, NEW r \in Resource
  PROVE  Resolve(r) = root[r]
<1>1. MaxHops \in Nat /\ MaxProposals \in Nat /\ Cardinality(ApprovedOnes) \in Nat
  BY IdentityAssumption
<1>2. Follow \in [Resource -> Resource]
  BY FollowsTree
<1>3. PICK at : Orbit(Resource, MaxHops, Follow, r, at)
  <2> HIDE DEF Follow
  <2> QED
    BY <1>1, <1>2, Iterates
<1>4. /\ at \in [0..MaxHops -> Resource]
      /\ at[0] = r
      /\ \A m \in 1..MaxHops : at[m] = Follow[at[m - 1]]
      /\ Resolve(r) = at[MaxHops]
  BY <1>3 DEF Orbit, Resolve
<1>5. \A x \in Resource :
        /\ root[Follow[x]] = root[x]
        /\ depth[x] > 0 => depth[Follow[x]] = depth[x] - 1
        /\ depth[x] = 0 => Follow[x] = x /\ root[x] = x
  BY FollowsTree
<1> DEFINE S == {m \in 0..MaxHops : root[at[m]] = root[r] /\ (depth[at[m]] = 0 \/ depth[at[m]] + m <= depth[r])}
<1>6. 0 \in S
  <2>1. at[0] = r /\ depth[r] \in Nat /\ 0 \in 0..MaxHops
    BY <1>1, <1>4
  <2> QED
    BY <2>1
<1>7. ASSUME NEW m \in 1..MaxHops, m - 1 \in S
      PROVE  m \in S
  <2>1. at[m - 1] \in Resource /\ at[m] = Follow[at[m - 1]] /\ at[m] \in Resource /\ m \in 0..MaxHops
    BY <1>1, <1>4
  <2>2. root[at[m - 1]] = root[r] /\ (depth[at[m - 1]] = 0 \/ depth[at[m - 1]] + (m - 1) <= depth[r])
    BY <1>7
  <2>3. /\ root[at[m]] = root[at[m - 1]]
        /\ depth[at[m - 1]] > 0 => depth[at[m]] = depth[at[m - 1]] - 1
        /\ depth[at[m - 1]] = 0 => at[m] = at[m - 1]
    BY <1>5, <2>1
  <2>4. depth[at[m]] \in Nat /\ depth[at[m - 1]] \in Nat /\ depth[r] \in Nat
    BY <2>1
  <2>5. depth[at[m]] = 0 \/ depth[at[m]] + m <= depth[r]
    BY <2>2, <2>3, <2>4
  <2> QED
    BY <2>1, <2>2, <2>3, <2>5
<1> HIDE DEF S
<1>8. 0..MaxHops \subseteq S
  BY <1>1, <1>6, <1>7, InductionUpTo
<1>9. MaxHops \in S
  BY <1>1, <1>8
<1>10. at[MaxHops] \in Resource /\ depth[r] <= Cardinality(ApprovedOnes) /\ depth[r] \in Nat
  BY <1>1, <1>4 DEF Tree
<1>11. depth[at[MaxHops]] \in Nat
  BY <1>10
<1>12. root[at[MaxHops]] = root[r] /\ (depth[at[MaxHops]] = 0 \/ depth[at[MaxHops]] + MaxHops <= depth[r])
  BY <1>9 DEF S
<1>13. depth[at[MaxHops]] = 0
  BY <1>1, <1>10, <1>11, <1>12
<1>14. root[at[MaxHops]] = at[MaxHops]
  BY <1>10, <1>13, <1>5
<1> QED
  BY <1>4, <1>12, <1>14

\* There are as many approved proposals as proposals at most.
LEMMA ApprovedFinite ==
  ASSUME IdentityTypeOK
  PROVE  /\ IsFiniteSet(ApprovedOnes)
         /\ Cardinality(ApprovedOnes) \in 0..MaxProposals
<1>1. Len(proposals) \in Nat /\ Len(proposals) <= MaxProposals /\ MaxProposals \in Nat
  BY IdentityAssumption DEF IdentityTypeOK
<1>2. IsFiniteSet(1..Len(proposals)) /\ Cardinality(1..Len(proposals)) = Len(proposals)
  <2>1. 1 \in Int /\ Len(proposals) \in Int
    BY <1>1
  <2>2. IsFiniteSet(1..Len(proposals))
        /\ Cardinality(1..Len(proposals)) = IF 1 > Len(proposals) THEN 0 ELSE Len(proposals) - 1 + 1
    BY <2>1, FS_Interval
  <2> QED
    BY <1>1, <2>2
<1>3. ApprovedOnes \subseteq 1..Len(proposals)
  BY DEF ApprovedOnes
<1>4. IsFiniteSet(ApprovedOnes) /\ Cardinality(ApprovedOnes) <= Len(proposals)
  BY <1>2, <1>3, FS_Subset
<1>5. Cardinality(ApprovedOnes) \in Nat
  BY <1>4, FS_CardinalityType
<1> QED
  BY <1>1, <1>4, <1>5

\* A root's group are the resources with that root.
LEMMA GroupHasRoot ==
  ASSUME IdentityTypeOK, MembersFollow,
         NEW root \in [Resource -> Resource], NEW depth \in [Resource -> Nat],
         Tree(root, depth), NEW r \in Resource, NEW s \in Resource, ~ Merged(s)
  PROVE  r \in IdentityGroup(s) <=> root[r] = s
<1>1. MaxProposals \in Nat /\ Cardinality(ApprovedOnes) \in 0..MaxProposals
  BY ApprovedFinite, IdentityAssumption
<1>2. WithMerged \in [SUBSET Resource -> SUBSET Resource]
  <2>1. \A ids \in SUBSET Resource : ids \cup UNION {members[x] : x \in ids} \in SUBSET Resource
    BY DEF IdentityTypeOK
  <2> QED
    BY <2>1 DEF WithMerged
<1>3. PICK at : Orbit(SUBSET Resource, MaxProposals, WithMerged, {s}, at)
  <2>1. {s} \in SUBSET Resource
    OBVIOUS
  <2> HIDE DEF WithMerged
  <2> QED
    BY <1>1, <1>2, <2>1, Iterates
<1>4. /\ at \in [0..MaxProposals -> SUBSET Resource]
      /\ at[0] = {s}
      /\ \A m \in 1..MaxProposals : at[m] = WithMerged[at[m - 1]]
      /\ IdentityGroup(s) = at[MaxProposals]
  BY <1>3 DEF Orbit, IdentityGroup
<1>5. ASSUME NEW m \in 1..MaxProposals
      PROVE  /\ m \in 0..MaxProposals /\ m - 1 \in 0..MaxProposals
             /\ at[m] \subseteq Resource /\ at[m - 1] \subseteq Resource
             /\ \A x : x \in at[m] <=> x \in at[m - 1] \/ \E y \in at[m - 1] : x \in members[y]
  <2>1. m \in 0..MaxProposals /\ m - 1 \in 0..MaxProposals
    BY <1>1
  <2>2. at[m - 1] \in SUBSET Resource /\ at[m] \in SUBSET Resource
    BY <1>4, <2>1
  <2>3. at[m] = at[m - 1] \cup UNION {members[y] : y \in at[m - 1]}
    BY <1>4, <2>2 DEF WithMerged
  <2> QED
    BY <2>1, <2>2, <2>3
<1>6. \A x \in Resource : Merged(x) => /\ redirects[x] \in Resource
                                       /\ root[x] = root[redirects[x]]
                                       /\ depth[x] = depth[redirects[x]] + 1
                                       /\ x \in members[redirects[x]]
  BY DEF Tree, Merged, MembersFollow, IdentityTypeOK
<1>7. \A x, y \in Resource : x \in members[y] => Merged(x) /\ redirects[x] = y
  BY IdentityAssumption DEF Merged, MembersFollow
<1>8. \A x \in Resource : ~ Merged(x) => root[x] = x /\ depth[x] = 0
  BY DEF Tree
<1> DEFINE In == {m \in 0..MaxProposals : \A x \in at[m] : root[x] = s}
           All == {m \in 0..MaxProposals : \A x \in Resource : root[x] = s /\ depth[x] <= m => x \in at[m]}
<1>9. 0..MaxProposals \subseteq In
  <2>1. 0 \in In
    BY <1>1, <1>4, <1>8
  <2>2. ASSUME NEW m \in 1..MaxProposals, m - 1 \in In
        PROVE  m \in In
    <3>1. ASSUME NEW x \in at[m]
          PROVE  root[x] = s
      BY <1>5, <1>6, <1>7, <2>2, <3>1
    <3> QED
      BY <1>5, <3>1
  <2> HIDE DEF In
  <2> QED
    BY <1>1, <2>1, <2>2, InductionUpTo
<1>10. 0..MaxProposals \subseteq All
  <2>1. 0 \in All
    <3>1. ASSUME NEW x \in Resource, root[x] = s, depth[x] <= 0
          PROVE  x \in at[0]
      <4>1. ~ Merged(x)
        <5>1. SUFFICES ASSUME Merged(x) PROVE FALSE
          OBVIOUS
        <5>2. redirects[x] \in Resource /\ depth[x] = depth[redirects[x]] + 1
          BY <1>6, <5>1
        <5>3. depth[redirects[x]] \in Nat
          BY <5>2
        <5> QED
          BY <3>1, <5>2, <5>3
      <4> QED
        BY <1>4, <1>8, <3>1, <4>1
    <3> QED
      BY <1>1, <3>1
  <2>2. ASSUME NEW m \in 1..MaxProposals, m - 1 \in All
        PROVE  m \in All
    <3>1. ASSUME NEW x \in Resource, root[x] = s, depth[x] <= m
          PROVE  x \in at[m]
      <4>1. CASE Merged(x)
        <5>1. /\ redirects[x] \in Resource /\ root[redirects[x]] = s
              /\ depth[x] = depth[redirects[x]] + 1 /\ x \in members[redirects[x]]
          BY <1>6, <3>1, <4>1
        <5>2. depth[redirects[x]] \in Nat /\ depth[x] \in Nat
          BY <5>1
        <5>3. depth[redirects[x]] <= m - 1
          BY <3>1, <5>1, <5>2
        <5>4. redirects[x] \in at[m - 1]
          BY <2>2, <5>1, <5>3
        <5> QED
          BY <1>5, <5>1, <5>4
      <4>2. CASE ~ Merged(x)
        <5>1. depth[x] <= m - 1
          BY <1>8, <4>2
        <5>2. x \in at[m - 1]
          BY <2>2, <3>1, <5>1
        <5> QED
          BY <1>5, <5>2
      <4> QED
        BY <4>1, <4>2
    <3> QED
      BY <1>5, <3>1
  <2> HIDE DEF All
  <2> QED
    BY <1>1, <2>1, <2>2, InductionUpTo
<1>11. MaxProposals \in In /\ MaxProposals \in All
  <2> HIDE DEF In, All
  <2> QED
    BY <1>1, <1>9, <1>10
<1>12. depth[r] <= MaxProposals
  <2>1. depth[r] <= Cardinality(ApprovedOnes) /\ depth[r] \in Nat
    BY DEF Tree
  <2> QED
    BY <1>1, <2>1
<1> QED
  BY <1>4, <1>11, <1>12

\* In a forest an id stands for one resource.
LEMMA ForestIsOneIdentity ==
  ASSUME MaxProposals <= MaxHops, IdInv
  PROVE  OneIdentity
<1>1. IdentityTypeOK /\ MembersFollow
  BY DEF IdInv
<1>2. PICK root \in [Resource -> Resource], depth \in [Resource -> Nat] : Tree(root, depth)
  BY DEF IdInv, Forest
<1>3. Cardinality(ApprovedOnes) \in 0..MaxProposals
  BY <1>1, ApprovedFinite
<1>4. ASSUME NEW r \in Resource
      PROVE  Resolve(r) = root[r] /\ ~ Merged(root[r])
  BY <1>1, <1>2, <1>3, ResolvesToRoot DEF Tree
<1>5. ASSUME NEW r \in Resource, NEW s \in Resource, ~ Merged(s)
      PROVE  r \in IdentityGroup(s) <=> s = Resolve(r)
  <2>1. r \in IdentityGroup(s) <=> root[r] = s
    BY <1>1, <1>2, <1>5, GroupHasRoot
  <2> QED
    BY <1>4, <2>1
<1> QED
  BY <1>4, <1>5 DEF OneIdentity

-----------------------------------------------------------------------------
(* The invariant is inductive.                                              *)

\* What ended at from ends at into.
MergedRoot(root, from, into) == [r \in Resource |-> IF root[r] = from THEN into ELSE root[r]]

\* An approved merge of one root into another: what ended at from ends at into, one
\* redirect later.
LEMMA MergedTree ==
  ASSUME IdentityTypeOK, IdentityTypeOK',
         NEW root \in [Resource -> Resource], NEW depth \in [Resource -> Nat], Tree(root, depth),
         NEW from \in Resource, NEW into \in Resource, from # into,
         ~ Merged(from), ~ Merged(into),
         redirects' = [redirects EXCEPT ![from] = into],
         Cardinality(ApprovedOnes)' = Cardinality(ApprovedOnes) + 1,
         Cardinality(ApprovedOnes) \in Nat
  PROVE  \E depth1 \in [Resource -> Nat] : Tree(MergedRoot(root, from, into), depth1)'
<1> DEFINE root1 == [r \in Resource |-> IF root[r] = from THEN into ELSE root[r]]
           depth1 == [r \in Resource |-> IF root[r] = from THEN depth[r] + 1 ELSE depth[r]]
<1>1. root1 \in [Resource -> Resource] /\ depth1 \in [Resource -> Nat]
  OBVIOUS
<1>2. \A r \in Resource : redirects'[r] = IF r = from THEN into ELSE redirects[r]
  BY DEF IdentityTypeOK
<1>3. into # NoResource
  BY IdentityAssumption
<1>4. root[from] = from /\ root[into] = into /\ depth[from] = 0 /\ depth[into] = 0
  BY DEF Tree
<1>5. ASSUME NEW r \in Resource
      PROVE  /\ depth1[r] <= Cardinality(ApprovedOnes)'
             /\ ~ Merged(root1[r])'
             /\ Merged(r)' => root1[r] = root1[redirects'[r]] /\ depth1[r] = depth1[redirects'[r]] + 1
             /\ ~ Merged(r)' => root1[r] = r /\ depth1[r] = 0
  <2>1. depth[r] \in Nat /\ depth[r] <= Cardinality(ApprovedOnes) /\ root[r] \in Resource /\ ~ Merged(root[r])
    BY DEF Tree
  <2>2. depth1[r] <= Cardinality(ApprovedOnes)'
    BY <2>1
  <2>3. ~ Merged(root1[r])'
    <3>1. root1[r] \in Resource /\ root1[r] # from /\ redirects[root1[r]] = NoResource
      BY <2>1 DEF Merged
    <3>2. redirects'[root1[r]] = NoResource
      BY <1>2, <3>1
    <3> QED
      BY <3>2 DEF Merged
  <2>4. CASE r = from
    <3>1. redirects'[r] = into /\ Merged(r)'
      BY <1>2, <1>3, <2>4 DEF Merged
    <3>2. root1[r] = into /\ depth1[r] = 1 /\ root1[into] = into /\ depth1[into] = 0
      BY <1>4, <2>4
    <3> QED
      BY <2>2, <2>3, <3>1, <3>2
  <2>5. CASE r # from
    <3>1. redirects'[r] = redirects[r]
      BY <1>2, <2>5
    <3>2. CASE Merged(r)
      <4>1. redirects[r] \in Resource
        BY <3>2 DEF Merged, IdentityTypeOK
      <4>2. root[r] = root[redirects[r]] /\ depth[r] = depth[redirects[r]] + 1 /\ depth[redirects[r]] \in Nat
        BY <3>2, <4>1 DEF Tree
      <4>3. root1[r] = root1[redirects[r]] /\ depth1[r] = depth1[redirects[r]] + 1
        BY <4>1, <4>2
      <4>4. Merged(r)'
        BY <3>1, <3>2 DEF Merged
      <4> QED
        BY <2>2, <2>3, <3>1, <4>3, <4>4
    <3>3. CASE ~ Merged(r)
      <4>1. root[r] = r /\ depth[r] = 0
        BY <3>3 DEF Tree
      <4>2. root1[r] = r /\ depth1[r] = 0
        BY <2>5, <4>1
      <4>3. ~ Merged(r)'
        BY <3>1, <3>3 DEF Merged
      <4> QED
        BY <2>2, <2>3, <4>2, <4>3
    <3> QED
      BY <3>2, <3>3
  <2> QED
    BY <2>4, <2>5
<1>6. MergedRoot(root, from, into) = root1
  BY DEF MergedRoot
<1> HIDE DEF root1, depth1
<1>7. Tree(root1, depth1)'
  BY <1>5 DEF Tree
<1> QED
  BY <1>1, <1>6, <1>7

\* Nothing is merged at first, and every proposal is open.
LEMMA IdentityInit ==
  ASSUME InitIdentity
  PROVE  IdInv
<1>1. PICK n \in 0..MaxProposals : proposals \in [1..n -> Proposal]
  BY DEF InitIdentity
<1>2. Len(proposals) = n /\ proposals \in Seq(Proposal) /\ n <= MaxProposals
  BY <1>1, IdentityAssumption
<1>3. IdentityTypeOK
  <2>1. /\ redirects \in [Resource -> Resource \cup {NoResource}]
        /\ members \in [Resource -> SUBSET Resource]
    BY DEF InitIdentity
  <2> QED
    BY <1>2, <2>1 DEF IdentityTypeOK
<1>4. MembersFollow
  BY IdentityAssumption DEF InitIdentity, MembersFollow
<1>5. ApprovedOnes = {}
  BY DEF InitIdentity, ApprovedOnes
<1>6. Cardinality(ApprovedOnes) = 0
  BY <1>5, FS_EmptySet
<1> DEFINE root == [r \in Resource |-> r]
           depth == [r \in Resource |-> 0]
<1>7. root \in [Resource -> Resource] /\ depth \in [Resource -> Nat]
  OBVIOUS
<1>8. \A r \in Resource : ~ Merged(r)
  BY DEF InitIdentity, Merged
<1>9. Tree(root, depth)
  <2>1. ASSUME NEW r \in Resource
        PROVE  root[r] = r /\ depth[r] = 0 /\ ~ Merged(r) /\ ~ Merged(root[r])
    <3>1. root[r] = r /\ depth[r] = 0
      OBVIOUS
    <3>2. ~ Merged(r)
      BY <1>8
    <3> QED
      BY <3>1, <3>2
  <2>2. 0 <= Cardinality(ApprovedOnes)
    BY <1>6
  <2> QED
    BY <1>6, <2>1, <2>2 DEF Tree
<1>10. Forest
  <2> HIDE DEF root, depth
  <2> QED
    BY <1>7, <1>9 DEF Forest
<1> QED
  BY <1>3, <1>4, <1>10 DEF IdInv

\* As long as the approved ones and the redirects stay, the invariant does.
LEMMA SameForest ==
  ASSUME IdInv, IdentityTypeOK', UNCHANGED <<redirects, members>>, ApprovedOnes' = ApprovedOnes
  PROVE  IdInv'
<1>1. PICK root \in [Resource -> Resource], depth \in [Resource -> Nat] : Tree(root, depth)
  BY DEF IdInv, Forest
<1>2. Tree(root, depth)'
  BY <1>1 DEF Tree, Merged
<1>3. Forest'
  BY <1>2 DEF Forest
<1>4. MembersFollow'
  BY DEF IdInv, MembersFollow
<1> QED
  BY <1>3, <1>4 DEF IdInv

\* A resolved id is a resource that was not merged away.
LEMMA ResolvesToUnmerged ==
  ASSUME MaxProposals <= MaxHops, IdInv, NEW r \in Resource
  PROVE  Resolve(r) \in Resource /\ ~ Merged(Resolve(r))
<1>1. IdentityTypeOK
  BY DEF IdInv
<1>2. PICK root \in [Resource -> Resource], depth \in [Resource -> Nat] : Tree(root, depth)
  BY DEF IdInv, Forest
<1>3. Resolve(r) = root[r]
  BY <1>1, <1>2, ApprovedFinite, ResolvesToRoot
<1> QED
  BY <1>2, <1>3 DEF Tree

\* A proposal is open when it is made.
LEMMA ProposalKept ==
  ASSUME MaxProposals <= MaxHops, IdInv,
         NEW from \in Resource, NEW into \in Resource, NewProposal(from, into)
  PROVE  IdInv'
<1> DEFINE p == [from |-> Resolve(from), into |-> Resolve(into), status |-> "proposed"]
<1>1. p \in Proposal /\ p.status = "proposed"
  BY ResolvesToUnmerged DEF Proposal, MergeStatus
<1>2. /\ proposals \in Seq(Proposal) /\ Len(proposals) < MaxProposals /\ MaxProposals \in Nat
      /\ proposals' = Append(proposals, p)
      /\ UNCHANGED <<redirects, members>>
      /\ IdentityTypeOK
  BY IdentityAssumption DEF NewProposal, IdInv, IdentityTypeOK
<1> HIDE DEF p
<1>3. /\ proposals' \in Seq(Proposal)
      /\ Len(proposals') = Len(proposals) + 1
      /\ \A n \in 1..Len(proposals) : proposals'[n] = proposals[n]
      /\ proposals'[Len(proposals) + 1] = p
      /\ Len(proposals) \in Nat
  BY <1>1, <1>2
<1>4. IdentityTypeOK'
  BY <1>2, <1>3 DEF IdentityTypeOK
<1>5. ApprovedOnes' = ApprovedOnes
  <2>1. ASSUME NEW n
        PROVE  n \in 1..Len(proposals') <=> n \in 1..Len(proposals) \/ n = Len(proposals) + 1
    BY <1>3
  <2> QED
    BY <1>1, <1>3, <2>1 DEF ApprovedOnes
<1> QED
  BY <1>2, <1>4, <1>5, SameForest

\* The merge of a proposal: of what its ids stand for.
Rerooted(n) ==
  \E from, into \in Resource :
    /\ from = Current(proposals[n].from) /\ into = Current(proposals[n].into)
    /\ from # into /\ ~ Merged(from) /\ ~ Merged(into)
    /\ redirects' = [redirects EXCEPT ![from] = into]
    /\ \E root \in [Resource -> Resource], depth, depth1 \in [Resource -> Nat] :
         Tree(root, depth) /\ Tree(MergedRoot(root, from, into), depth1)'

\* A decision is about an open proposal, and about what its ids stand for by then.
LEMMA DecisionKept ==
  ASSUME MaxProposals <= MaxHops, IdInv,
         NEW n \in 1..Len(proposals), NEW approve \in BOOLEAN, Decision(n, approve)
  PROVE  IdInv' /\ (approve => Rerooted(n))
<1>1. /\ proposals \in Seq(Proposal) /\ proposals[n] \in Proposal
      /\ proposals[n].status = "proposed" /\ IdentityTypeOK /\ MembersFollow
  BY DEF IdInv, IdentityTypeOK, Decision
<1>2. PICK status \in MergeStatus :
        /\ status = IF approve THEN "approved" ELSE "rejected"
        /\ proposals' = [proposals EXCEPT ![n].status = status]
  BY DEF Decision, MergeStatus
<1>3. /\ proposals' \in Seq(Proposal) /\ Len(proposals') = Len(proposals)
      /\ proposals'[n].status = status
      /\ \A k \in 1..Len(proposals) : k # n => proposals'[k] = proposals[k]
  BY <1>1, <1>2 DEF Proposal
<1>4. CASE ~ approve
  <2>1. UNCHANGED <<redirects, members>> /\ status = "rejected"
    BY <1>2, <1>4 DEF Decision
  <2>2. IdentityTypeOK'
    BY <1>1, <1>3, <2>1 DEF IdentityTypeOK
  <2>3. ApprovedOnes' = ApprovedOnes
    BY <1>1, <1>3, <2>1 DEF ApprovedOnes
  <2> QED
    BY <1>4, <2>1, <2>2, <2>3, SameForest
<1>5. CASE approve
  <2>1. /\ Current(proposals[n].from) \in Resource /\ ~ Merged(Current(proposals[n].from))
        /\ Current(proposals[n].into) \in Resource /\ ~ Merged(Current(proposals[n].into))
    <3>1. proposals[n].from \in Resource /\ proposals[n].into \in Resource
      BY <1>1 DEF Proposal
    <3> QED
      BY <3>1, ResolvesToUnmerged DEF Current
  <2>2. PICK from \in Resource, into \in Resource :
          from = Current(proposals[n].from) /\ into = Current(proposals[n].into)
    BY <2>1
  <2>3. /\ from \in Resource /\ ~ Merged(from)
        /\ into \in Resource /\ ~ Merged(into)
    BY <2>1, <2>2
  <2>4. /\ from # into
        /\ redirects' = [redirects EXCEPT ![from] = into]
        /\ members' = [members EXCEPT ![into] = @ \cup {from}]
        /\ status = "approved"
    BY <1>2, <1>5, <2>2 DEF Decision, Approved
  <2>5. IdentityTypeOK'
    BY <1>1, <1>3, <2>3, <2>4 DEF IdentityTypeOK
  <2>6. ApprovedOnes' = ApprovedOnes \cup {n} /\ n \notin ApprovedOnes
    BY <1>1, <1>3, <2>4 DEF ApprovedOnes
  <2>7. /\ Cardinality(ApprovedOnes)' = Cardinality(ApprovedOnes) + 1
        /\ Cardinality(ApprovedOnes) \in Nat
    <3>1. IsFiniteSet(ApprovedOnes) /\ Cardinality(ApprovedOnes) \in 0..MaxProposals
      BY <1>1, ApprovedFinite
    <3>2. Cardinality(ApprovedOnes \cup {n}) = Cardinality(ApprovedOnes) + 1
      BY <2>6, <3>1, FS_AddElement
    <3>3. Cardinality(ApprovedOnes)' = Cardinality(ApprovedOnes \cup {n})
      BY <2>6
    <3> QED
      BY <3>1, <3>2, <3>3, IdentityAssumption
  <2>8. Forest' /\ Rerooted(n)
    <3>1. PICK root \in [Resource -> Resource], depth \in [Resource -> Nat] : Tree(root, depth)
      BY DEF IdInv, Forest
    <3>2. PICK depth1 \in [Resource -> Nat] : Tree(MergedRoot(root, from, into), depth1)'
      BY <1>1, <2>3, <2>4, <2>5, <2>7, <3>1, MergedTree
    <3>3. MergedRoot(root, from, into) \in [Resource -> Resource]
      BY DEF MergedRoot
    <3>4. Forest'
      BY <3>2, <3>3 DEF Forest
    <3>5. Rerooted(n)
      BY <2>3, <2>4, <2>2, <3>1, <3>2 DEF Rerooted
    <3> QED
      BY <3>4, <3>5
  <2>9. MembersFollow'
    <3>1. /\ \A r \in Resource : redirects'[r] = IF r = from THEN into ELSE redirects[r]
          /\ \A s \in Resource : members'[s] = IF s = into THEN members[s] \cup {from} ELSE members[s]
      BY <1>1, <2>3, <2>4 DEF IdentityTypeOK
    <3>2. \A s \in Resource : from \notin members[s]
      BY <1>1, <2>3, IdentityAssumption DEF MembersFollow, Merged
    <3>3. ASSUME NEW r \in Resource, NEW s \in Resource
          PROVE  r \in members'[s] <=> redirects'[r] = s
      <4>1. CASE r = from
        <5>1. redirects'[r] = into
          BY <3>1, <4>1
        <5>2. r \notin members[s]
          BY <3>2, <4>1
        <5>3. r \in members'[s] <=> s = into
          <6>1. CASE s = into
            BY <3>1, <4>1, <6>1
          <6>2. CASE s # into
            BY <3>1, <5>2, <6>2
          <6> QED
            BY <6>1, <6>2
        <5> QED
          BY <5>1, <5>3
      <4>2. CASE r # from
        <5>1. redirects'[r] = redirects[r]
          BY <3>1, <4>2
        <5>2. r \in members'[s] <=> r \in members[s]
          <6>1. CASE s = into
            BY <3>1, <4>2, <6>1
          <6>2. CASE s # into
            BY <3>1, <6>2
          <6> QED
            BY <6>1, <6>2
        <5> QED
          BY <1>1, <5>1, <5>2 DEF MembersFollow
      <4> QED
        BY <4>1, <4>2
    <3> QED
      BY <3>3 DEF MembersFollow
  <2> QED
    BY <2>5, <2>8, <2>9 DEF IdInv
<1> QED
  BY <1>4, <1>5

\* What each id stands for.
Canon == [r \in Resource |-> Resolve(r)]

RootIsCanon ==
  \A root \in [Resource -> Resource], depth \in [Resource -> Nat] :
    IdentityTypeOK /\ Tree(root, depth) => Canon = root

\* An id stands for its root.
LEMMA RootsAreCanon ==
  ASSUME MaxProposals <= MaxHops
  PROVE  RootIsCanon
<1>1. ASSUME NEW root \in [Resource -> Resource], NEW depth \in [Resource -> Nat],
             IdentityTypeOK, Tree(root, depth)
      PROVE  Canon = root
  <2>1. ASSUME NEW r \in Resource
        PROVE  Resolve(r) = root[r]
    BY <1>1, ApprovedFinite, ResolvesToRoot
  <2> QED
    BY <2>1 DEF Canon
<1> QED
  BY <1>1 DEF RootIsCanon

\* Also after a step.
LEMMA RootsAreCanonNext ==
  ASSUME MaxProposals <= MaxHops
  PROVE  RootIsCanon'
<1>1. RootIsCanon
  BY RootsAreCanon
<1> QED
  BY <1>1, PTL

\* What an approved merge makes of the ids.
MergesInto(n) ==
  \E from, into \in Resource :
    /\ from = Resolve(proposals[n].from) /\ into = Resolve(proposals[n].into)
    /\ from # into /\ ~ Merged(from) /\ ~ Merged(into)
    /\ redirects' = [redirects EXCEPT ![from] = into]
    /\ Canon' = MergedRoot(Canon, from, into)

\* What stood for one of the two stands for the other.
LEMMA DecisionMerges ==
  ASSUME MaxProposals <= MaxHops, IdInv, NEW n \in 1..Len(proposals), Decision(n, TRUE)
  PROVE  MergesInto(n)
<1>1. IdInv' /\ Rerooted(n)
  BY DecisionKept
<1>2. PICK from \in Resource, into \in Resource :
        /\ from = Current(proposals[n].from) /\ into = Current(proposals[n].into)
        /\ from # into /\ ~ Merged(from) /\ ~ Merged(into)
        /\ redirects' = [redirects EXCEPT ![from] = into]
        /\ \E root \in [Resource -> Resource], depth, depth1 \in [Resource -> Nat] :
             Tree(root, depth) /\ Tree(MergedRoot(root, from, into), depth1)'
  BY <1>1 DEF Rerooted
<1>3. PICK root \in [Resource -> Resource], depth \in [Resource -> Nat], depth1 \in [Resource -> Nat] :
        Tree(root, depth) /\ Tree(MergedRoot(root, from, into), depth1)'
  BY <1>2
<1>4. Canon = root
  BY <1>3, RootsAreCanon DEF RootIsCanon, IdInv
<1>5. MergedRoot(root, from, into) \in [Resource -> Resource]
  BY DEF MergedRoot
<1>6. Canon' = MergedRoot(root, from, into)
  <2>1. IdentityTypeOK'
    BY <1>1 DEF IdInv
  <2>2. RootIsCanon'
    BY RootsAreCanonNext
  <2> QED
    BY <1>3, <1>5, <2>1, <2>2 DEF RootIsCanon
<1> QED
  BY <1>2, <1>4, <1>6 DEF MergesInto, Current

-----------------------------------------------------------------------------
(* The theorem.                                                             *)

\* Every id stands for one resource that was not merged away itself, and belongs to that
\* resource's group and to no other's, in whatever order merges are proposed and decided
\* (merge_identity, decide_merge), as long as there are no more of them than redirects
\* that resolve_id follows.
THEOREM OneResourceEach ==
  ASSUME MaxProposals <= MaxHops
  PROVE  IdentitySpec => []OneIdentity
<1>1. InitIdentity => IdInv
  BY IdentityInit
<1>2. IdInv /\ [ChangeIdentity]_identityVars => IdInv'
  <2>1. ASSUME IdInv, ChangeIdentity
        PROVE  IdInv'
    <3>1. CASE \E from, into \in Resource : NewProposal(from, into)
      BY <2>1, <3>1, ProposalKept
    <3>2. CASE \E n \in 1..Len(proposals), approve \in BOOLEAN : Decision(n, approve)
      BY <2>1, <3>2, DecisionKept
    <3> QED
      BY <2>1, <3>1, <3>2 DEF ChangeIdentity
  <2>2. ASSUME IdInv, UNCHANGED identityVars
        PROVE  IdInv'
    <3>1. UNCHANGED <<redirects, members, proposals>>
      BY <2>2 DEF identityVars
    <3>2. IdentityTypeOK' /\ ApprovedOnes' = ApprovedOnes
      BY <2>2, <3>1 DEF IdInv, IdentityTypeOK, ApprovedOnes
    <3> QED
      BY <2>2, <3>1, <3>2, SameForest
  <2> QED
    BY <2>1, <2>2
<1>3. IdInv => OneIdentity
  BY ForestIsOneIdentity
<1> QED
  BY <1>1, <1>2, <1>3, PTL DEF IdentitySpec
=============================================================================
