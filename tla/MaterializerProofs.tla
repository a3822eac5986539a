------------------------- MODULE MaterializerProofs -------------------------
(***************************************************************************)
(* The proof that a row that is not flagged stale is what the store says     *)
(* now, for any resources, claims, merges and any depth limit.               *)
(*                                                                         *)
(* What decides a resource's time is its best ranked claim: it gives a time  *)
(* or a link to one other resource.  The walk along these links is what a    *)
(* search without a cache does.  The invariant says of the cache that each   *)
(* entry follows from the entry it links to and that the link is among the   *)
(* dependents, and of a row that its whole walk is among them.               *)
(***************************************************************************)
EXTENDS Materializer, IdentityProofs, SequenceTheorems

-----------------------------------------------------------------------------
(* The links.                                                               *)

\* The live claims about a resource, given what each id stands for.
About(canon, cs, y) == {n \in 1..Len(cs) : cs[n].live /\ canon[cs[n].subject] = y}

Link == [to : Resource \cup {NoResource}, anchor : Resource \cup {NoResource}, time : Time]

EndOf(time) == [to |-> NoResource, anchor |-> NoResource, time |-> time]

LinkBy(canon, expr) ==
  IF expr.kind = "absolute"
    THEN EndOf(Found(expr.tick))
    ELSE [to |-> canon[expr.anchor], anchor |-> expr.anchor, time |-> Unknown]

\* The best ranked claim decides; what was merged away has none.
LinksOf(canon, cs) ==
  [y \in Resource |->
     IF canon[y] # y \/ About(canon, cs, y) = {}
       THEN EndOf(Unknown)
       ELSE LinkBy(canon, cs[Min(About(canon, cs, y))].expr)]

Links == LinksOf(Canon, claims)

-----------------------------------------------------------------------------
(* The walks.                                                               *)

Pairs == Resource \X Resource

\* A resource, with those whose times are being computed.
Places == Resource \X SUBSET Resource

WalkResult == [time : Time, edges : SUBSET Pairs]

Ended(time) == [time |-> time, edges |-> {}]

\* No hops are left.
NoHops ==
  [p \in Places |->
     Ended(Unresolved(IF p[1] \in p[2] THEN "cycle" ELSE "depth_exceeded", NoResource))]

Onward(link, y, inner) ==
  [time |-> After(link.anchor, inner.time), edges |-> inner.edges \cup {<<link.to, y>>}]

OneHopMore(L, before) ==
  [p \in Places |->
     IF p[1] \in p[2] THEN Ended(Unresolved("cycle", NoResource))
     ELSE IF L[p[1]].to = NoResource THEN Ended(L[p[1]].time)
     ELSE Onward(L[p[1]], p[1], before[<<L[p[1]].to, p[2] \cup {p[1]}>>])]

\* The walks along these links, with so many hops left.
IsWalk(L, w) ==
  /\ w \in [0..(MaxDepth + 1) -> [Places -> WalkResult]]
  /\ w[0] = NoHops
  /\ \A k \in 1..(MaxDepth + 1) : w[k] = OneHopMore(L, w[k - 1])

Walk(L) == CHOOSE w : IsWalk(L, w)

\* The walk of a search that starts at x.
WalkFrom(L, x) == Walk(L)[MaxDepth + 1][<<x, {}>>]

-----------------------------------------------------------------------------
(* The inductive invariant.                                                 *)

Edges(deps) == {e \in Pairs : e[2] \in deps[e[1]]}

\* Each entry of the cache follows from the one it links to, of a lower rank.
Ranked(L, c, E, rank) ==
  \A x \in Resource :
    c[x] # NoSlot =>
      /\ ~ PathDependent(c[x].time)
      /\ L[x].to = NoResource => c[x].time = L[x].time
      /\ L[x].to # NoResource =>
           /\ c[L[x].to] # NoSlot
           /\ c[x].time = After(L[x].anchor, c[L[x].to].time)
           /\ <<L[x].to, x>> \in E
           /\ rank[L[x].to] < rank[x]

CacheFollows(L, c, E) == \E rank \in [Resource -> Nat] : Ranked(L, c, E, rank)

\* A row that is not stale is where its walk leads, which is among the dependents.
RowFollows(canon, L, x, row, E) ==
  row # NoRow /\ ~ row.stale =>
    /\ canon[x] = x
    /\ WalkFrom(L, x).edges \subseteq E
    /\ row.time = WalkFrom(L, x).time \/ WalkFrom(L, x).time.kind = "depth_exceeded"

RowsFollow(canon, L, rs, E) == \A x \in Resource : RowFollows(canon, L, x, rs[x], E)

Unique(ids) == \A i, j \in 1..Len(ids) : ids[i] = ids[j] => i = j

Shape ==
  /\ claims \in Seq(Claim)
  /\ rows \in [Resource -> Row \cup {NoRow}]
  /\ cache \in [Resource -> Slot \cup {NoSlot}]
  /\ dependents \in [Resource -> SUBSET Resource]
  /\ queue \in Seq(Resource) /\ Unique(queue)

Follows ==
  /\ CacheFollows(Links, cache, Edges(dependents))
  /\ RowsFollow(Canon, Links, rows, Edges(dependents))

\* What was approved was merged.
ApprovedMerged ==
  \A n \in 1..Len(proposals) : proposals[n].status = "approved" => Merged(proposals[n].from)

MaterializerInv ==
  /\ IdInv
  /\ Shape
  /\ ApprovedMerged
  /\ MergesAsProposed => Follows

-----------------------------------------------------------------------------
(* What the operators give.                                                 *)

\* The time after a time: it depends on the path when that time does.
LEMMA AfterTyped ==
  ASSUME NEW time \in Time, NEW anchor \in Resource \cup {NoResource}
  PROVE  /\ After(anchor, time) \in Time
         /\ PathDependent(After(anchor, time)) <=> PathDependent(time)
         /\ time.kind = "depth_exceeded" => After(anchor, time).kind = "depth_exceeded"
<1>1. CASE time.kind = "found"
  <2>1. time.tick \in Nat
    BY <1>1 DEF Time
  <2>2. ~ PathDependent(time)
    BY <1>1 DEF PathDependent
  <2>3. After(anchor, time) = Found(time.tick + 1)
    BY <1>1, <2>2 DEF After
  <2> QED
    BY <1>1, <2>1, <2>2, <2>3 DEF Found, Time, PathDependent
<1>2. CASE PathDependent(time)
  <2>1. time.kind # "found" /\ time.kind \in {"cycle", "depth_exceeded"}
    BY <1>2 DEF PathDependent
  <2>2. After(anchor, time) = Unresolved(time.kind, anchor)
    BY <1>2, <2>1 DEF After
  <2> QED
    BY <1>2, <2>1, <2>2 DEF Unresolved, Time, PathDependent
<1>3. CASE time.kind # "found" /\ ~ PathDependent(time)
  <2>1. After(anchor, time) = Unresolved("anchor_unresolved", anchor)
    BY <1>3 DEF After
  <2>2. time.kind # "depth_exceeded"
    BY <1>3 DEF PathDependent
  <2> QED
    BY <1>3, <2>1, <2>2 DEF Unresolved, Time, PathDependent
<1> QED
  BY <1>1, <1>2, <1>3

\* A resource or an end at each link, and a time that does not depend on the path.
World(canon, L) ==
  /\ canon \in [Resource -> Resource]
  /\ L \in [Resource -> Link]
  /\ \A x \in Resource :
       /\ ~ PathDependent(L[x].time)
       /\ L[x].to # NoResource => L[x].to \in Resource /\ canon[L[x].to] = L[x].to

\* A set of positions in a sequence has a first one.
LEMMA FirstIs ==
  ASSUME NEW S, S \subseteq Nat, S # {}
  PROVE  Min(S) \in S /\ \A n \in S : Min(S) <= n
<1>1. \E x \in S : \A n \in S : x <= n
  BY LeastExists
<1> QED
  BY <1>1 DEF Min

\* The links of any claims make such a world.
LEMMA LinksTyped ==
  ASSUME NEW canon \in [Resource -> Resource], NEW cs \in Seq(Claim),
         \A r \in Resource : canon[canon[r]] = canon[r]
  PROVE  World(canon, LinksOf(canon, cs))
<1> DEFINE L == LinksOf(canon, cs)
<1>1. ASSUME NEW y \in Resource
      PROVE  /\ L[y] \in Link
             /\ ~ PathDependent(L[y].time)
             /\ L[y].to # NoResource => L[y].to \in Resource /\ canon[L[y].to] = L[y].to
  <2>1. Unknown \in Time /\ ~ PathDependent(Unknown)
    BY DEF Unknown, Unresolved, Time, PathDependent
  <2>2. CASE canon[y] # y \/ About(canon, cs, y) = {}
    <3>1. L[y] = EndOf(Unknown)
      BY <2>2 DEF LinksOf
    <3> QED
      BY <2>1, <3>1 DEF EndOf, Link
  <2>3. CASE ~ (canon[y] # y \/ About(canon, cs, y) = {})
    <3> DEFINE first == Min(About(canon, cs, y))
    <3>1. L[y] = LinkBy(canon, cs[first].expr)
      BY <2>3 DEF LinksOf
    <3>2. first \in 1..Len(cs)
      <4>1. About(canon, cs, y) \subseteq 1..Len(cs) /\ Len(cs) \in Nat
        BY DEF About
      <4>2. About(canon, cs, y) \subseteq Nat
        BY <4>1
      <4> QED
        BY <2>3, <4>1, <4>2, FirstIs
    <3> HIDE DEF first
    <3>3. PICK expr \in Expression : expr = cs[first].expr
      <4>1. cs[first] \in Claim
        BY <3>2
      <4> QED
        BY <4>1 DEF Claim
    <3>4. CASE expr.kind = "absolute"
      <4>1. expr.tick \in Nat
        BY <3>4, MaterializerAssumption DEF Expression
      <4>2. Found(expr.tick) \in Time /\ ~ PathDependent(Found(expr.tick))
        BY <4>1 DEF Found, Time, PathDependent
      <4>3. L[y] = EndOf(Found(expr.tick))
        BY <3>1, <3>3, <3>4 DEF LinkBy
      <4> QED
        BY <4>2, <4>3 DEF EndOf, Link
    <3>5. CASE expr.kind # "absolute"
      <4>1. expr.anchor \in Resource
        BY <3>5 DEF Expression
      <4>2. L[y] = [to |-> canon[expr.anchor], anchor |-> expr.anchor, time |-> Unknown]
        BY <3>1, <3>3, <3>5 DEF LinkBy
      <4> QED
        BY <2>1, <4>1, <4>2 DEF Link
    <3> QED
      BY <3>4, <3>5
  <2> QED
    BY <2>2, <2>3
<1>2. L = [y \in Resource |-> L[y]]
  BY DEF LinksOf
<1> HIDE DEF L
<1>3. L \in [Resource -> Link]
  BY <1>1, <1>2
<1> QED
  BY <1>1, <1>3 DEF World, L

\* One hop more makes a walk of a walk.
LEMMA HopTyped ==
  ASSUME NEW canon, NEW L, World(canon, L), NEW before \in [Places -> WalkResult]
  PROVE  OneHopMore(L, before) \in [Places -> WalkResult]
<1>1. ASSUME NEW p \in Places
      PROVE  OneHopMore(L, before)[p] \in WalkResult
  <2>1. p[1] \in Resource /\ p[2] \subseteq Resource
    BY DEF Places
  <2>2. L[p[1]] \in Link
    BY <2>1 DEF World
  <2>3. CASE p[1] \in p[2]
    <3>1. OneHopMore(L, before)[p] = Ended(Unresolved("cycle", NoResource))
      BY <2>3 DEF OneHopMore
    <3> QED
      BY <3>1 DEF Ended, Unresolved, WalkResult, Time
  <2>4. CASE p[1] \notin p[2] /\ L[p[1]].to = NoResource
    <3>1. OneHopMore(L, before)[p] = Ended(L[p[1]].time)
      BY <2>4 DEF OneHopMore
    <3> QED
      BY <2>2, <3>1 DEF Ended, Link, WalkResult
  <2>5. CASE p[1] \notin p[2] /\ L[p[1]].to # NoResource
    <3> DEFINE next == <<L[p[1]].to, p[2] \cup {p[1]}>>
    <3>1. L[p[1]].to \in Resource
      BY <2>1, <2>5 DEF World
    <3>2. next \in Places
      BY <2>1, <3>1 DEF Places
    <3>3. OneHopMore(L, before)[p] = Onward(L[p[1]], p[1], before[next])
      BY <2>5 DEF OneHopMore
    <3>4. before[next] \in WalkResult
      BY <3>2
    <3> HIDE DEF next
    <3>5. before[next].time \in Time /\ before[next].edges \subseteq Pairs
      BY <3>4 DEF WalkResult
    <3>6. After(L[p[1]].anchor, before[next].time) \in Time
      BY <2>2, <3>5, AfterTyped DEF Link
    <3>7. <<L[p[1]].to, p[1]>> \in Pairs
      BY <2>1, <3>1 DEF Pairs
    <3> QED
      BY <3>3, <3>5, <3>6, <3>7 DEF Onward, WalkResult
  <2> QED
    BY <2>3, <2>4, <2>5
<1> QED
  BY <1>1 DEF OneHopMore

\* There are walks.
LEMMA WalkExists ==
  ASSUME NEW canon, NEW L, World(canon, L)
  PROVE  IsWalk(L, Walk(L))
<1> DEFINE A == [Places -> WalkResult]
           n == MaxDepth + 1
           next == [p \in (1..n) \X A |-> OneHopMore(L, p[2])]
<1>1. NoHops \in A
  BY DEF NoHops, Ended, Unresolved, WalkResult, Time
<1>2. next \in [(1..n) \X A -> A]
  <2>1. ASSUME NEW p \in (1..n) \X A
        PROVE  OneHopMore(L, p[2]) \in A
    BY HopTyped
  <2> QED
    BY <2>1
<1>3. n \in Nat
  BY MaterializerAssumption
<1>4. \E w \in [0..n -> A] : Steps(w, n, NoHops, next)
  <2> HIDE DEF A, next, n
  <2> QED
    BY <1>1, <1>2, <1>3, StepsExist
<1>5. PICK w \in [0..n -> A] : Steps(w, n, NoHops, next)
  BY <1>4
<1>6. ASSUME NEW k \in 1..n
      PROVE  w[k] = OneHopMore(L, w[k - 1])
  <2>1. w[k - 1] \in A /\ <<k, w[k - 1]>> \in (1..n) \X A
    <3>1. k - 1 \in 0..n
      BY <1>3
    <3> HIDE DEF A
    <3> QED
      BY <3>1
  <2>2. w[k] = next[<<k, w[k - 1]>>]
    <3> HIDE DEF A, next
    <3> QED
      BY <1>5 DEF Steps
  <2> HIDE DEF A
  <2> QED
    BY <2>1, <2>2
<1>7. w[0] = NoHops
  <2> HIDE DEF A, next
  <2> QED
    BY <1>5 DEF Steps
<1>8. IsWalk(L, w)
  BY <1>5, <1>6, <1>7 DEF IsWalk
<1> QED
  BY <1>8 DEF Walk

-----------------------------------------------------------------------------
(* Searches.                                                                *)

Outcome == [st : SearchState, slot : Slot]

\* The times of some claims.
Partial == [st : SearchState, times : Seq(Time)]

\* What is known of the store: each id stands for one that stands for itself, and the
\* claims about that are the claims whose subject stands for it.
Known ==
  /\ claims \in Seq(Claim)
  /\ Canon \in [Resource -> Resource]
  /\ \A r \in Resource : Resolve(r) = Canon[r] /\ Canon[Canon[r]] = Canon[r]
  /\ \A r \in Resource : Merged(r) <=> Canon[r] # r
  /\ \A y \in Resource : Canon[y] = y => ClaimsAbout(y) = About(Canon, claims, y)

\* A forest of redirects makes it so.
LEMMA StoreKnown ==
  ASSUME MaxProposals <= MaxHops, IdInv, claims \in Seq(Claim)
  PROVE  Known
<1>1. IdentityTypeOK
  BY DEF IdInv
<1>2. PICK root \in [Resource -> Resource], depth \in [Resource -> Nat] : Tree(root, depth)
  BY DEF IdInv, Forest
<1>3. Cardinality(ApprovedOnes) \in 0..MaxProposals
  BY <1>1, ApprovedFinite
<1>4. ASSUME NEW r \in Resource
      PROVE  Resolve(r) = root[r]
  BY <1>1, <1>2, <1>3, ResolvesToRoot
<1>5. Canon = root
  BY <1>4 DEF Canon
<1>6. ASSUME NEW r \in Resource
      PROVE  (Merged(r) <=> root[r] # r) /\ root[root[r]] = root[r]
  <2>1. root[r] \in Resource /\ ~ Merged(root[r]) /\ (~ Merged(r) => root[r] = r)
    BY <1>2 DEF Tree
  <2>2. root[root[r]] = root[r]
    BY <1>2, <2>1 DEF Tree
  <2> QED
    BY <2>1, <2>2
<1>7. ASSUME NEW y \in Resource, root[y] = y
      PROVE  ClaimsAbout(y) = About(Canon, claims, y)
  <2>1. ~ Merged(y)
    BY <1>6, <1>7
  <2>2. OneIdentity
    BY ForestIsOneIdentity
  <2>3. ASSUME NEW n \in 1..Len(claims)
        PROVE  claims[n].subject \in IdentityGroup(y) <=> Canon[claims[n].subject] = y
    <3>1. claims[n].subject \in Resource
      <4>1. claims[n] \in Claim
        OBVIOUS
      <4> QED
        BY <4>1 DEF Claim
    <3>2. claims[n].subject \in IdentityGroup(y) <=> y = Resolve(claims[n].subject)
      BY <2>1, <2>2, <3>1 DEF OneIdentity
    <3> QED
      BY <1>4, <1>5, <3>1, <3>2
  <2> QED
    BY <2>3 DEF ClaimsAbout, About
<1> QED
  BY <1>4, <1>5, <1>6, <1>7 DEF Known

\* What another resource is asked for is a query.
LEMMA AskedTyped ==
  ASSUME NEW st \in SearchState, NEW r \in Resource, NEW anchor \in Resource,
         NEW stack \in SUBSET Resource
  PROVE  /\ Asked(st, r, anchor, stack) \in Query
         /\ Asked(st, r, anchor, stack).st.cache = st.cache
         /\ Asked(st, r, anchor, stack).st.deps = st.deps \cup {<<anchor, r>>}
         /\ Asked(st, r, anchor, stack).r = anchor
         /\ Asked(st, r, anchor, stack).stack = stack
BY DEF Asked, Query, SearchState

\* A search continues with typed outcomes.
LEMMA OneMoreTyped ==
  ASSUME Known, NEW ask \in [Query -> SUBSET Outcome], NEW before \in Partial, NEW r \in Resource,
         NEW stack \in SUBSET Resource, NEW expr \in Expression
  PROVE  OneMore(ask, before, r, stack, expr) \subseteq Partial
<1>1. before.st \in SearchState /\ before.times \in Seq(Time)
  BY DEF Partial
<1>2. ASSUME NEW st \in SearchState, NEW time \in Time
      PROVE  Adding(before, st, time) \in Partial
  <2>1. Append(before.times, time) \in Seq(Time)
    BY <1>1
  <2> QED
    BY <2>1 DEF Adding, Partial
<1>3. CASE expr.kind = "absolute"
  <2>1. expr.tick \in Nat
    BY <1>3, MaterializerAssumption DEF Expression
  <2>2. Found(expr.tick) \in Time
    BY <2>1 DEF Found, Time
  <2> QED
    BY <1>1, <1>2, <1>3, <2>2 DEF OneMore
<1>4. CASE expr.kind # "absolute"
  <2>1. expr.anchor \in Resource /\ Resolve(expr.anchor) \in Resource
    <3>1. expr.anchor \in Resource
      BY <1>4 DEF Expression
    <3> QED
      BY <3>1 DEF Known
  <2> DEFINE asked == Asked(before.st, r, Resolve(expr.anchor), stack)
  <2>2. asked \in Query
    BY <1>1, <2>1, AskedTyped
  <2> HIDE DEF asked
  <2>3. ASSUME NEW found \in ask[asked]
        PROVE  Adding(before, found.st, After(expr.anchor, found.slot.time)) \in Partial
    <3>1. found \in Outcome
      BY <2>2
    <3>2. found.st \in SearchState /\ found.slot.time \in Time
      BY <3>1 DEF Outcome, Slot
    <3>3. After(expr.anchor, found.slot.time) \in Time
      BY <2>1, <3>2, AfterTyped
    <3> QED
      BY <1>2, <3>2, <3>3
  <2> QED
    BY <1>4, <2>3 DEF OneMore, asked
<1> QED
  BY <1>3, <1>4

\* The times of one claim more, if it is about r.
OneClaimMore(ask, r, stack, n, before) ==
  IF n \in ClaimsAbout(r)
    THEN UNION {OneMore(ask, b, r, stack, claims[n].expr) : b \in before}
    ELSE before

\* The times of the claims, one claim after the other.
TimesSteps(times, ask, st, r, stack) ==
  /\ times \in [0..Len(claims) -> SUBSET Partial]
  /\ times[0] = {[st |-> st, times |-> <<>>]}
  /\ \A n \in 1..Len(claims) : times[n] = OneClaimMore(ask, r, stack, n, times[n - 1])
  /\ TimesOf(ask, st, r, stack) = times[Len(claims)]

\* The recursion that TimesOf is defined by has a solution.
LEMMA TimesAre ==
  ASSUME Known, NEW ask \in [Query -> SUBSET Outcome], NEW st \in SearchState, NEW r \in Resource,
         NEW stack \in SUBSET Resource
  PROVE  \E times : TimesSteps(times, ask, st, r, stack)
<1> DEFINE A == SUBSET Partial
           n == Len(claims)
           a == {[st |-> st, times |-> <<>>]}
           next == [p \in (1..n) \X A |-> OneClaimMore(ask, r, stack, p[1], p[2])]
           Body(g) == [m \in 0..n |->
                         IF m = 0 THEN a
                         ELSE IF m \in ClaimsAbout(r)
                           THEN UNION {OneMore(ask, before, r, stack, claims[m].expr) : before \in g[m - 1]}
                           ELSE g[m - 1]]
           at == CHOOSE g : g = Body(g)
<1>1. n \in Nat /\ a \in A
  <2>1. n \in Nat
    BY DEF Known
  <2>2. [st |-> st, times |-> <<>>] \in Partial
    <3>1. <<>> \in Seq(Time)
      OBVIOUS
    <3> QED
      BY <3>1 DEF Partial
  <2> QED
    BY <2>1, <2>2
<1>2. ASSUME NEW m \in 1..n, NEW before \in A
      PROVE  OneClaimMore(ask, r, stack, m, before) \in A
  <2>1. claims[m].expr \in Expression
    <3>1. claims[m] \in Claim
      BY DEF Known
    <3> QED
      BY <3>1 DEF Claim
  <2>2. ASSUME NEW b \in before
        PROVE  OneMore(ask, b, r, stack, claims[m].expr) \subseteq Partial
    BY <2>1, OneMoreTyped
  <2> QED
    BY <2>2 DEF OneClaimMore
<1>3. next \in [(1..n) \X A -> A]
  <2>1. ASSUME NEW p \in (1..n) \X A
        PROVE  OneClaimMore(ask, r, stack, p[1], p[2]) \in A
    <3> HIDE DEF A, n
    <3> QED
      BY <1>2
  <2> HIDE DEF A, n
  <2> QED
    BY <2>1
<1> HIDE DEF A, n, a, Body, at
<1>4. PICK g \in [0..n -> A] : Steps(g, n, a, next)
  <2> HIDE DEF next
  <2> QED
    BY <1>1, <1>3, StepsExist
<1>5. ASSUME NEW m \in 1..n
      PROVE  g[m] = OneClaimMore(ask, r, stack, m, g[m - 1])
  <2>1. g[m - 1] \in A /\ <<m, g[m - 1]>> \in (1..n) \X A
    BY <1>1
  <2>2. g[m] = next[<<m, g[m - 1]>>]
    BY <1>4 DEF Steps
  <2> QED
    BY <2>1, <2>2
<1>6. g[0] = a
  BY <1>4 DEF Steps
<1> HIDE DEF next
<1>7. ASSUME NEW h
      PROVE  Body(h)[0] = a /\ \A m \in 1..n : Body(h)[m] = OneClaimMore(ask, r, stack, m, h[m - 1])
  <2>1. Body(h)[0] = a
    BY <1>1 DEF Body
  <2>2. ASSUME NEW m \in 1..n
        PROVE  Body(h)[m] = OneClaimMore(ask, r, stack, m, h[m - 1])
    <3>1. m \in 0..n /\ m # 0
      BY <1>1
    <3>2. Body(h)[m] = IF m \in ClaimsAbout(r)
                         THEN UNION {OneMore(ask, before, r, stack, claims[m].expr) : before \in h[m - 1]}
                         ELSE h[m - 1]
      BY <3>1 DEF Body
    <3> QED
      BY <3>2 DEF OneClaimMore
  <2> QED
    BY <2>1, <2>2
<1>8. g = Body(g)
  <2>1. Body(g) = [m \in 0..n |-> Body(g)[m]]
    BY DEF Body
  <2>2. g = [m \in 0..n |-> g[m]]
    OBVIOUS
  <2>3. ASSUME NEW m \in 0..n
        PROVE  Body(g)[m] = g[m]
    <3>1. CASE m = 0
      BY <1>6, <1>7, <3>1
    <3>2. CASE m \in 1..n
      BY <1>5, <1>7, <3>2
    <3> QED
      BY <1>1, <3>1, <3>2
  <2> QED
    BY <2>1, <2>2, <2>3
<1>9. at = Body(at)
  BY <1>8 DEF at
<1>10. at[0] = a /\ \A m \in 1..n : at[m] = OneClaimMore(ask, r, stack, m, at[m - 1])
  BY <1>7, <1>9
<1>11. 0..n \subseteq {m \in 0..n : at[m] \in A}
  <2> DEFINE S == {m \in 0..n : at[m] \in A}
  <2>1. 0 \in S
    BY <1>1, <1>10
  <2>2. ASSUME NEW m \in 1..n, m - 1 \in S
        PROVE  m \in S
    BY <1>1, <1>2, <1>10, <2>2
  <2> HIDE DEF S
  <2>3. 0..n \subseteq S
    BY <1>1, <2>1, <2>2, InductionUpTo
  <2> QED
    BY <2>3 DEF S
<1>12. at \in [0..n -> A]
  <2>1. Body(at) = [m \in 0..n |-> Body(at)[m]]
    BY DEF Body
  <2>2. at = [m \in 0..n |-> at[m]]
    BY <1>9, <2>1
  <2> QED
    BY <1>11, <2>2
<1>13. TimesOf(ask, st, r, stack) = at[n]
  BY DEF TimesOf, at, Body, n, a
<1>14. TimesSteps(at, ask, st, r, stack)
  BY <1>10, <1>12, <1>13 DEF TimesSteps, A, n, a
<1> QED
  BY <1>14

\* A query is answered from the cache.
LEMMA FromCache ==
  ASSUME NEW ask, NEW hops, NEW q, q.st.cache[q.r] # NoSlot
  PROVE  TimeAt(ask, hops, q) = {[st |-> q.st, slot |-> q.st.cache[q.r]]}
BY DEF TimeAt

\* ... or is a cycle,
LEMMA FromCycle ==
  ASSUME NEW ask, NEW hops, NEW q, q.st.cache[q.r] = NoSlot, q.r \in q.stack
  PROVE  TimeAt(ask, hops, q) = {[st |-> q.st, slot |-> UnresolvedSlot("cycle")]}
BY DEF TimeAt

\* ... or is too deep,
LEMMA FromDepth ==
  ASSUME NEW ask, NEW hops, NEW q, q.st.cache[q.r] = NoSlot, q.r \notin q.stack, hops = 0
  PROVE  TimeAt(ask, hops, q) = {[st |-> q.st, slot |-> UnresolvedSlot("depth_exceeded")]}
BY DEF TimeAt

\* The slot of these times, which is remembered.
Concluded(all, r) ==
  [st |-> Remember(all.st, r, SlotOf(all.times)), slot |-> SlotOf(all.times)]

ClaimAnswers(ask, q) ==
  {Concluded(all, q.r) : all \in TimesOf(ask, q.st, q.r, q.stack \cup {q.r})}

\* ... or is answered from the claims.
LEMMA FromClaims ==
  ASSUME NEW ask, NEW hops, NEW q, q.st.cache[q.r] = NoSlot, q.r \notin q.stack, hops # 0
  PROVE  TimeAt(ask, hops, q) = ClaimAnswers(ask, q)
BY DEF TimeAt, ClaimAnswers, Concluded

\* A slot is made of times.
LEMMA SlotTyped ==
  ASSUME NEW times \in Seq(Time)
  PROVE  SlotOf(times) \in Slot
<1>1. \A i \in 1..Len(times) : times[i] \in Time
  OBVIOUS
<1>2. Unknown \in Time
  BY DEF Unknown, Unresolved, Time
<1>3. (IF times = <<>> THEN Unknown ELSE times[1]) \in Time
  <2>1. times # <<>> => 1 \in 1..Len(times)
    OBVIOUS
  <2> QED
    BY <1>1, <1>2, <2>1
<1>4. {times[i] : i \in {j \in 2..Len(times) : times[j].kind = "found"}} \subseteq Time
  BY <1>1
<1> QED
  BY <1>3, <1>4 DEF SlotOf, Slot

\* What is remembered goes into the cache.
LEMMA RememberTyped ==
  ASSUME NEW st \in SearchState, NEW r \in Resource, NEW slot \in Slot
  PROVE  /\ Remember(st, r, slot) \in SearchState
         /\ Remember(st, r, slot).deps = st.deps
         /\ \A x \in Resource :
              Remember(st, r, slot).cache[x] = IF x = r /\ Kept(slot) THEN slot ELSE st.cache[x]
<1>1. st.cache \in [Resource -> Slot \cup {NoSlot}] /\ st.deps \in SUBSET (Resource \X Resource)
  BY DEF SearchState
<1>2. CASE ~ Kept(slot)
  BY <1>1, <1>2 DEF Remember
<1>3. CASE Kept(slot)
  <2>1. Remember(st, r, slot) = [st EXCEPT !.cache[r] = slot]
    BY <1>3 DEF Remember
  <2>2. Remember(st, r, slot) = [cache |-> [st.cache EXCEPT ![r] = slot], deps |-> st.deps]
    BY <2>1 DEF SearchState
  <2>3. [st.cache EXCEPT ![r] = slot] \in [Resource -> Slot \cup {NoSlot}]
    BY <1>1
  <2> QED
    BY <1>1, <1>3, <2>2, <2>3 DEF SearchState
<1> QED
  BY <1>2, <1>3

\* The answers have their type; with no hops left nobody is asked.
LEMMA TimeAtTyped ==
  ASSUME Known, NEW ask, NEW hops, hops # 0 => ask \in [Query -> SUBSET Outcome], NEW q \in Query
  PROVE  TimeAt(ask, hops, q) \in SUBSET Outcome
<1>1. /\ q.st \in SearchState /\ q.r \in Resource /\ q.stack \in SUBSET Resource
      /\ q.st.cache[q.r] \in Slot \cup {NoSlot}
  BY DEF Query, SearchState
<1>2. UnresolvedSlot("cycle") \in Slot /\ UnresolvedSlot("depth_exceeded") \in Slot
  BY DEF UnresolvedSlot, Unresolved, Slot, Time
<1>3. CASE q.st.cache[q.r] # NoSlot
  <2>1. TimeAt(ask, hops, q) = {[st |-> q.st, slot |-> q.st.cache[q.r]]}
    BY <1>3, FromCache
  <2> QED
    BY <1>1, <1>3, <2>1 DEF Outcome
<1>4. CASE q.st.cache[q.r] = NoSlot /\ q.r \in q.stack
  <2>1. TimeAt(ask, hops, q) = {[st |-> q.st, slot |-> UnresolvedSlot("cycle")]}
    BY <1>4, FromCycle
  <2> QED
    BY <1>1, <1>2, <2>1 DEF Outcome
<1>5. CASE q.st.cache[q.r] = NoSlot /\ q.r \notin q.stack /\ hops = 0
  <2>1. TimeAt(ask, hops, q) = {[st |-> q.st, slot |-> UnresolvedSlot("depth_exceeded")]}
    BY <1>5, FromDepth
  <2> QED
    BY <1>1, <1>2, <2>1 DEF Outcome
<1>6. CASE q.st.cache[q.r] = NoSlot /\ q.r \notin q.stack /\ hops # 0
  <2> DEFINE stack == q.stack \cup {q.r}
  <2>1. stack \in SUBSET Resource /\ ask \in [Query -> SUBSET Outcome]
    BY <1>1, <1>6
  <2>2. TimeAt(ask, hops, q) = ClaimAnswers(ask, q)
    BY <1>6, FromClaims
  <2> HIDE DEF stack
  <2>3. PICK times : TimesSteps(times, ask, q.st, q.r, stack)
    BY <1>1, <2>1, TimesAre
  <2>4. TimesOf(ask, q.st, q.r, stack) \subseteq Partial
    <3>1. Len(claims) \in 0..Len(claims)
      BY DEF Known
    <3> QED
      BY <2>3, <3>1 DEF TimesSteps
  <2>5. ASSUME NEW all \in TimesOf(ask, q.st, q.r, stack)
        PROVE  Concluded(all, q.r) \in Outcome
    <3>1. all.st \in SearchState /\ all.times \in Seq(Time)
      BY <2>4, <2>5 DEF Partial
    <3>2. SlotOf(all.times) \in Slot
      BY <3>1, SlotTyped
    <3>3. Remember(all.st, q.r, SlotOf(all.times)) \in SearchState
      BY <1>1, <3>1, <3>2, RememberTyped
    <3> QED
      BY <3>2, <3>3 DEF Outcome, Concluded
  <2> QED
    BY <2>2, <2>5 DEF ClaimAnswers, stack
<1> QED
  BY <1>3, <1>4, <1>5, <1>6

\* Search answers with so many hops left what is answered with one hop less.
LEMMA SearchSteps ==
  ASSUME Known
  PROVE  \A hops \in 0..(MaxDepth + 1) :
           /\ Search[hops] \in [Query -> SUBSET Outcome]
           /\ \A q \in Query : Search[hops][q] = TimeAt(Search[hops - 1], hops, q)
<1> DEFINE A == [Query -> SUBSET Outcome]
           n == MaxDepth + 1
           Hop(ask, hops) == [q \in Query |-> TimeAt(ask, hops, q)]
           a == Hop(A, 0)
           next == [p \in (1..n) \X A |-> Hop(p[2], p[1])]
           Body(g) == [hops \in 0..(MaxDepth + 1) |-> [q \in Query |-> TimeAt(g[hops - 1], hops, q)]]
<1>1. n \in Nat
  BY MaterializerAssumption
<1>2. ASSUME NEW ask
      PROVE  Hop(ask, 0) \in A
  <2>1. ASSUME NEW q \in Query
        PROVE  TimeAt(ask, 0, q) \in SUBSET Outcome
    BY TimeAtTyped
  <2> QED
    BY <2>1
<1>3. ASSUME NEW ask \in A, NEW hops
      PROVE  Hop(ask, hops) \in A
  <2>1. ASSUME NEW q \in Query
        PROVE  TimeAt(ask, hops, q) \in SUBSET Outcome
    BY TimeAtTyped
  <2> QED
    BY <2>1
<1>4. ASSUME NEW ask
      PROVE  Hop(ask, 0) = a
  <2>1. ASSUME NEW q \in Query
        PROVE  TimeAt(ask, 0, q) = TimeAt(A, 0, q)
    <3>1. CASE q.st.cache[q.r] # NoSlot
      BY <3>1, FromCache
    <3>2. CASE q.st.cache[q.r] = NoSlot /\ q.r \in q.stack
      BY <3>2, FromCycle
    <3>3. CASE q.st.cache[q.r] = NoSlot /\ q.r \notin q.stack
      BY <3>3, FromDepth
    <3> QED
      BY <3>1, <3>2, <3>3
  <2> QED
    BY <2>1
<1>5. next \in [(1..n) \X A -> A]
  <2> HIDE DEF A, Hop, n
  <2>1. ASSUME NEW p \in (1..n) \X A
        PROVE  Hop(p[2], p[1]) \in A
    BY <1>3
  <2> QED
    BY <2>1
<1>6. a \in A
  BY <1>2
<1> HIDE DEF A, n, Hop, a
<1>7. PICK g \in [0..n -> A] : Steps(g, n, a, next)
  <2> HIDE DEF next
  <2> QED
    BY <1>1, <1>5, <1>6, StepsExist
<1>8. g[0] = a
  BY <1>7 DEF Steps
<1>9. ASSUME NEW hops \in 1..n
      PROVE  g[hops] = Hop(g[hops - 1], hops)
  <2>1. g[hops - 1] \in A /\ <<hops, g[hops - 1]>> \in (1..n) \X A
    BY <1>1
  <2>2. g[hops] = next[<<hops, g[hops - 1]>>]
    BY <1>7 DEF Steps
  <2> QED
    BY <2>1, <2>2
<1> HIDE DEF next
<1>10. ASSUME NEW h
       PROVE  Body(h) = [hops \in 0..n |-> Hop(h[hops - 1], hops)]
  BY DEF n, Hop
<1> HIDE DEF Body
<1>11. g = Body(g)
  <2>1. ASSUME NEW hops \in 0..n
        PROVE  g[hops] = Hop(g[hops - 1], hops)
    <3>1. CASE hops = 0
      BY <1>4, <1>8, <3>1
    <3>2. CASE hops \in 1..n
      BY <1>9, <3>2
    <3> QED
      BY <1>1, <3>1, <3>2
  <2> QED
    BY <1>10, <2>1
<1>12. Search = Body(Search)
  <2> DEFINE at == CHOOSE h : h = Body(h)
  <2>1. at = Body(at)
    BY <1>11
  <2>2. Search = at
    BY DEF Search, Body
  <2> QED
    BY <2>1, <2>2
<1>13. ASSUME NEW hops \in 0..n
       PROVE  Search[hops] = Hop(Search[hops - 1], hops)
  BY <1>10, <1>12
<1>14. 0..n \subseteq {hops \in 0..n : Search[hops] \in A}
  <2> DEFINE S == {hops \in 0..n : Search[hops] \in A}
  <2>1. 0 \in S
    <3>1. 0 \in 0..n
      BY <1>1
    <3>2. Search[0] = Hop(Search[0 - 1], 0)
      BY <1>13, <3>1
    <3> QED
      BY <1>2, <3>1, <3>2
  <2>2. ASSUME NEW hops \in 1..n, hops - 1 \in S
        PROVE  hops \in S
    <3>1. hops \in 0..n
      BY <1>1
    <3> QED
      BY <1>3, <1>13, <2>2, <3>1
  <2> HIDE DEF S
  <2>3. 0..n \subseteq S
    BY <1>1, <2>1, <2>2, InductionUpTo
  <2> QED
    BY <2>3 DEF S
<1>15. ASSUME NEW hops \in 0..n
       PROVE  /\ Search[hops] \in [Query -> SUBSET Outcome]
              /\ \A q \in Query : Search[hops][q] = TimeAt(Search[hops - 1], hops, q)
  <2>1. Search[hops] \in A
    BY <1>14
  <2>2. Search[hops] = [q \in Query |-> TimeAt(Search[hops - 1], hops, q)]
    BY <1>13 DEF Hop
  <2> QED
    BY <2>1, <2>2 DEF A
<1> QED
  BY <1>15 DEF n

-----------------------------------------------------------------------------
(* What a search finds.                                                     *)

\* Entries stay and keep their times, dependencies stay.
Later(st, later) ==
  /\ later \in SearchState
  /\ st.deps \subseteq later.deps
  /\ \A x \in Resource :
       st.cache[x] # NoSlot => later.cache[x] # NoSlot /\ later.cache[x].time = st.cache[x].time

\* The cache of a search follows the links, given the dependencies known before.
Follow1(B, st) == CacheFollows(Links, st.cache, B \cup st.deps)

\* A query for a resource that was not merged away.
Askable(B, q) == Canon[q.r] = q.r /\ Follow1(B, q.st)

\* The outcome depends on the path, or is in the cache.
GoodOutcome(B, q, found) ==
  /\ Later(q.st, found.st)
  /\ Follow1(B, found.st)
  /\ \/ PathDependent(found.slot.time)
     \/ found.st.cache[q.r] # NoSlot /\ found.st.cache[q.r].time = found.slot.time

Answering(B, ask) ==
  /\ ask \in [Query -> SUBSET Outcome]
  /\ \A q \in Query :
       Askable(B, q) => ask[q] # {} /\ \A found \in ask[q] : GoodOutcome(B, q, found)

\* More dependencies do no harm.
LEMMA CacheKeepsFollowing ==
  ASSUME NEW L, NEW c, NEW E, NEW F, E \subseteq F, CacheFollows(L, c, E)
  PROVE  CacheFollows(L, c, F)
<1>1. PICK rank \in [Resource -> Nat] : Ranked(L, c, E, rank)
  BY DEF CacheFollows
<1>2. Ranked(L, c, F, rank)
  BY <1>1 DEF Ranked
<1> QED
  BY <1>2 DEF CacheFollows

\* Later than later is later.
LEMMA LaterStill ==
  ASSUME NEW s, NEW t, NEW u, Later(s, t), Later(t, u)
  PROVE  Later(s, u)
BY DEF Later

\* A state is as late as itself.
LEMMA AsLate ==
  ASSUME NEW s \in SearchState
  PROVE  Later(s, s)
BY DEF Later

\* What one claim adds: its tick, or the time after the one that was found.
Added(ask, p, r, stack, expr, b) ==
  \E time :
    /\ b.times = Append(p.times, time)
    /\ expr.kind = "absolute" => time = Found(expr.tick)
    /\ expr.kind # "absolute" =>
         \E found \in ask[Asked(p.st, r, Resolve(expr.anchor), stack)] :
           time = After(expr.anchor, found.slot.time) /\ b.st = found.st

\* One claim is answered, and the search goes on later.
LEMMA OneMoreAdds ==
  ASSUME Known, NEW B, NEW ask, Answering(B, ask), NEW p \in Partial, NEW r \in Resource,
         NEW stack \in SUBSET Resource, NEW expr \in Expression, Follow1(B, p.st)
  PROVE  /\ OneMore(ask, p, r, stack, expr) # {}
         /\ \A b \in OneMore(ask, p, r, stack, expr) :
              Later(p.st, b.st) /\ Follow1(B, b.st) /\ Added(ask, p, r, stack, expr, b)
<1>1. p.st \in SearchState
  BY DEF Partial
<1>2. CASE expr.kind = "absolute"
  <2> DEFINE b == Adding(p, p.st, Found(expr.tick))
  <2>1. OneMore(ask, p, r, stack, expr) = {b}
    BY <1>2 DEF OneMore
  <2>2. b.st = p.st /\ b.times = Append(p.times, Found(expr.tick))
    BY DEF Adding
  <2> HIDE DEF b
  <2>3. Later(p.st, b.st) /\ Follow1(B, b.st)
    BY <1>1, <2>2, AsLate
  <2>4. Added(ask, p, r, stack, expr, b)
    BY <1>2, <2>2 DEF Added
  <2> QED
    BY <2>1, <2>3, <2>4
<1>3. CASE expr.kind # "absolute"
  <2> DEFINE anchor == Resolve(expr.anchor)
             q == Asked(p.st, r, anchor, stack)
  <2>1. anchor \in Resource /\ Canon[anchor] = anchor
    <3>1. expr.anchor \in Resource
      BY <1>3 DEF Expression
    <3> QED
      BY <3>1 DEF Known
  <2>2. OneMore(ask, p, r, stack, expr) =
          {Adding(p, found.st, After(expr.anchor, found.slot.time)) : found \in ask[q]}
    BY <1>3 DEF OneMore
  <2> HIDE DEF anchor
  <2>3. /\ q \in Query /\ q.st.cache = p.st.cache /\ q.r = anchor
        /\ q.st.deps = p.st.deps \cup {<<anchor, r>>}
    BY <1>1, <2>1, AskedTyped
  <2>4. Follow1(B, q.st)
    <3>1. B \cup p.st.deps \subseteq B \cup q.st.deps
      BY <2>3
    <3>2. CacheFollows(Links, p.st.cache, B \cup q.st.deps)
      BY <3>1, CacheKeepsFollowing DEF Follow1
    <3> QED
      BY <2>3, <3>2 DEF Follow1
  <2>5. Later(p.st, q.st)
    <3>1. q.st \in SearchState
      BY <2>3 DEF Query
    <3> QED
      BY <2>3, <3>1 DEF Later
  <2>6. q = Asked(p.st, r, Resolve(expr.anchor), stack)
    BY DEF anchor
  <2> HIDE DEF q
  <2>7. Askable(B, q)
    BY <2>1, <2>3, <2>4 DEF Askable
  <2>8. ask[q] # {} /\ \A found \in ask[q] : GoodOutcome(B, q, found)
    BY <2>3, <2>7 DEF Answering
  <2>9. ASSUME NEW found \in ask[q]
        PROVE  LET b == Adding(p, found.st, After(expr.anchor, found.slot.time))
               IN  Later(p.st, b.st) /\ Follow1(B, b.st) /\ Added(ask, p, r, stack, expr, b)
    <3> DEFINE b == Adding(p, found.st, After(expr.anchor, found.slot.time))
    <3>1. b.st = found.st /\ b.times = Append(p.times, After(expr.anchor, found.slot.time))
      BY DEF Adding
    <3> HIDE DEF b
    <3>2. Later(q.st, found.st) /\ Follow1(B, found.st)
      BY <2>8 DEF GoodOutcome
    <3>3. Later(p.st, b.st)
      BY <2>5, <3>1, <3>2, LaterStill
    <3>4. Added(ask, p, r, stack, expr, b)
      BY <1>3, <2>6, <3>1 DEF Added
    <3>5. Follow1(B, b.st)
      BY <3>1, <3>2
    <3> QED
      BY <3>3, <3>4, <3>5 DEF b
  <2> QED
    BY <2>2, <2>8, <2>9
<1> QED
  BY <1>2, <1>3

\* The first time is what this expression says, computed from here.
Leads(ask, st, r, stack, expr, p) ==
  /\ p.times # <<>>
  /\ expr.kind = "absolute" => p.times[1] = Found(expr.tick)
  /\ expr.kind # "absolute" =>
       \E found \in ask[Asked(st, r, Resolve(expr.anchor), stack)] :
         p.times[1] = After(expr.anchor, found.slot.time) /\ Later(found.st, p.st)

\* After n claims: nothing has happened before the first claim about r, and from then
\* on its time is the first.
SoFar(B, ask, st, r, stack, n, p) ==
  /\ Later(st, p.st)
  /\ Follow1(B, p.st)
  /\ (\A m \in ClaimsAbout(r) : n < m) => p.times = <<>> /\ p.st = st
  /\ \A first \in ClaimsAbout(r) :
       first <= n /\ (\A m \in ClaimsAbout(r) : first <= m)
         => Leads(ask, st, r, stack, claims[first].expr, p)

\* A first time leads from where it was added.
LEMMA AddedLeads ==
  ASSUME NEW ask, NEW p \in Partial, NEW r, NEW stack, NEW expr, NEW b \in Partial,
         Added(ask, p, r, stack, expr, b), p.times = <<>>
  PROVE  Leads(ask, p.st, r, stack, expr, b)
<1>1. PICK time :
        /\ b.times = Append(p.times, time)
        /\ expr.kind = "absolute" => time = Found(expr.tick)
        /\ expr.kind # "absolute" =>
             \E found \in ask[Asked(p.st, r, Resolve(expr.anchor), stack)] :
               time = After(expr.anchor, found.slot.time) /\ b.st = found.st
  BY DEF Added
<1>2. b.times = <<time>>
  BY <1>1
<1>3. b.times # <<>> /\ b.times[1] = time
  BY <1>2
<1>4. Later(b.st, b.st)
  BY AsLate DEF Partial
<1> QED
  BY <1>1, <1>3, <1>4 DEF Leads

\* It stays the first.
LEMMA LeadsStill ==
  ASSUME NEW ask, NEW st, NEW r, NEW stack, NEW expr, NEW p \in Partial, NEW b, NEW expr2, NEW stack2,
         Leads(ask, st, r, stack, expr, p), Later(p.st, b.st), Added(ask, p, r, stack2, expr2, b)
  PROVE  Leads(ask, st, r, stack, expr, b)
<1>1. PICK time : b.times = Append(p.times, time)
  BY DEF Added
<1>2. p.times \in Seq(Time) /\ p.times # <<>>
  BY DEF Partial, Leads
<1>3. b.times # <<>> /\ b.times[1] = p.times[1]
  BY <1>1, <1>2
<1>4. \A found : Later(found.st, p.st) => Later(found.st, b.st)
  BY LaterStill
<1> QED
  BY <1>3, <1>4 DEF Leads

\* So it is after each number of claims.
LEMMA TimesSoFar ==
  ASSUME Known, NEW B, NEW ask, Answering(B, ask), NEW st \in SearchState, NEW r \in Resource,
         NEW stack \in SUBSET Resource, Follow1(B, st)
  PROVE  /\ TimesOf(ask, st, r, stack) # {}
         /\ \A p \in TimesOf(ask, st, r, stack) :
              p \in Partial /\ SoFar(B, ask, st, r, stack, Len(claims), p)
<1>1. ask \in [Query -> SUBSET Outcome] /\ Len(claims) \in Nat
  BY DEF Answering, Known
<1>2. PICK times : TimesSteps(times, ask, st, r, stack)
  BY <1>1, TimesAre
<1> DEFINE S == {n \in 0..Len(claims) :
                   times[n] # {} /\ \A p \in times[n] : SoFar(B, ask, st, r, stack, n, p)}
<1>3. ClaimsAbout(r) \subseteq 1..Len(claims)
  BY DEF ClaimsAbout
<1>4. 0 \in S
  <2>1. times[0] = {[st |-> st, times |-> <<>>]}
    BY <1>2 DEF TimesSteps
  <2>2. ASSUME NEW p \in times[0]
        PROVE  SoFar(B, ask, st, r, stack, 0, p)
    <3>1. p.st = st /\ p.times = <<>>
      BY <2>1
    <3>2. \A first \in ClaimsAbout(r) : ~ (first <= 0)
      BY <1>1, <1>3
    <3> QED
      BY <3>1, <3>2, AsLate DEF SoFar
  <2> QED
    BY <1>1, <2>1, <2>2
<1>5. ASSUME NEW n \in 1..Len(claims), n - 1 \in S
      PROVE  n \in S
  <2>1. /\ times[n - 1] # {} /\ times[n - 1] \subseteq Partial /\ times[n] \subseteq Partial
        /\ \A p \in times[n - 1] : SoFar(B, ask, st, r, stack, n - 1, p)
    <3>1. n - 1 \in 0..Len(claims) /\ n \in 0..Len(claims)
      BY <1>1
    <3>2. times[n - 1] \subseteq Partial /\ times[n] \subseteq Partial
      BY <1>2, <3>1 DEF TimesSteps
    <3> QED
      BY <1>5, <3>2
  <2>2. times[n] = OneClaimMore(ask, r, stack, n, times[n - 1])
    BY <1>2 DEF TimesSteps
  <2>3. n \in Nat /\ \A m \in ClaimsAbout(r) : m \in Nat
    BY <1>1, <1>3
  <2>4. CASE n \notin ClaimsAbout(r)
    <3>1. times[n] = times[n - 1]
      BY <2>2, <2>4 DEF OneClaimMore
    <3>2. \A m \in ClaimsAbout(r) : (m <= n => m <= n - 1) /\ (n < m => n - 1 < m)
      BY <2>3, <2>4
    <3>3. ASSUME NEW p \in times[n]
          PROVE  SoFar(B, ask, st, r, stack, n, p)
      <4>1. SoFar(B, ask, st, r, stack, n - 1, p)
        BY <2>1, <3>1
      <4> QED
        BY <3>2, <4>1 DEF SoFar
    <3> QED
      BY <1>1, <2>1, <3>1, <3>3
  <2>5. CASE n \in ClaimsAbout(r)
    <3>1. times[n] = UNION {OneMore(ask, p, r, stack, claims[n].expr) : p \in times[n - 1]}
      BY <2>2, <2>5 DEF OneClaimMore
    <3>2. claims[n].expr \in Expression
      <4>1. claims[n] \in Claim
        BY DEF Known
      <4> QED
        BY <4>1 DEF Claim
    <3>3. ASSUME NEW p \in times[n - 1]
          PROVE  /\ OneMore(ask, p, r, stack, claims[n].expr) # {}
                 /\ \A b \in OneMore(ask, p, r, stack, claims[n].expr) :
                      /\ Later(p.st, b.st) /\ Follow1(B, b.st)
                      /\ Added(ask, p, r, stack, claims[n].expr, b)
      <4>1. p \in Partial /\ Follow1(B, p.st)
        BY <2>1 DEF SoFar
      <4> QED
        BY <3>2, <4>1, OneMoreAdds
    <3>4. ASSUME NEW p \in times[n - 1], NEW b \in OneMore(ask, p, r, stack, claims[n].expr)
          PROVE  SoFar(B, ask, st, r, stack, n, b)
      <4>1. /\ p \in Partial /\ b \in Partial
            /\ SoFar(B, ask, st, r, stack, n - 1, p)
        BY <2>1, <3>1
      <4>2. /\ Later(p.st, b.st) /\ Follow1(B, b.st)
            /\ Added(ask, p, r, stack, claims[n].expr, b)
        BY <3>3
      <4>3. Later(st, b.st)
        BY <4>1, <4>2, LaterStill DEF SoFar
      <4>4. ~ (\A m \in ClaimsAbout(r) : n < m)
        BY <2>3, <2>5
      <4>5. ASSUME NEW first \in ClaimsAbout(r), first <= n, \A m \in ClaimsAbout(r) : first <= m
            PROVE  Leads(ask, st, r, stack, claims[first].expr, b)
        <5>1. CASE first = n
          <6>1. ASSUME NEW m \in ClaimsAbout(r)
                PROVE  n - 1 < m
            <7>1. n <= m
              BY <4>5, <5>1
            <7>2. m \in Nat
              BY <2>3
            <7> QED
              BY <2>3, <7>1, <7>2
          <6>2. p.times = <<>> /\ p.st = st
            BY <4>1, <6>1 DEF SoFar
          <6>3. Leads(ask, p.st, r, stack, claims[n].expr, b)
            BY <4>1, <4>2, <6>2, AddedLeads
          <6> QED
            BY <5>1, <6>2, <6>3
        <5>2. CASE first # n
          <6>1. first <= n - 1
            BY <2>3, <4>5, <5>2
          <6>2. Leads(ask, st, r, stack, claims[first].expr, p)
            BY <4>1, <4>5, <6>1 DEF SoFar
          <6> QED
            BY <4>1, <4>2, <6>2, LeadsStill
        <5> QED
          BY <5>1, <5>2
      <4> QED
        BY <4>2, <4>3, <4>4, <4>5 DEF SoFar
    <3>5. times[n] # {}
      BY <2>1, <3>1, <3>3
    <3> QED
      BY <1>1, <3>1, <3>4, <3>5
  <2> QED
    BY <2>4, <2>5
<1> HIDE DEF S
<1>6. 0..Len(claims) \subseteq S
  BY <1>1, <1>4, <1>5, InductionUpTo
<1>7. Len(claims) \in S /\ Len(claims) \in 0..Len(claims)
  BY <1>1, <1>6
<1> QED
  BY <1>2, <1>7 DEF S, TimesSteps

\* The link decides the time: it is the link's, or the one after what was found there.
Decided(ask, st, r, stack, all) ==
  /\ Links[r].to = NoResource => SlotOf(all.times).time = Links[r].time
  /\ Links[r].to # NoResource =>
       \E found \in ask[Asked(st, r, Links[r].to, stack)] :
         SlotOf(all.times).time = After(Links[r].anchor, found.slot.time) /\ Later(found.st, all.st)

\* The best ranked claim decides.
LEMMA FirstDecides ==
  ASSUME Known, NEW B, NEW ask, NEW st, NEW r \in Resource, Canon[r] = r, NEW stack, NEW all,
         SoFar(B, ask, st, r, stack, Len(claims), all)
  PROVE  Decided(ask, st, r, stack, all)
<1>1. ClaimsAbout(r) = About(Canon, claims, r) /\ Len(claims) \in Nat
  BY DEF Known
<1>2. About(Canon, claims, r) \subseteq 1..Len(claims)
  BY DEF About
<1>3. CASE About(Canon, claims, r) = {}
  <2>1. all.times = <<>>
    BY <1>1, <1>3 DEF SoFar
  <2>2. SlotOf(all.times).time = Unknown
    BY <2>1 DEF SlotOf
  <2>3. Links[r] = EndOf(Unknown)
    BY <1>3 DEF Links, LinksOf
  <2>4. Links[r].to = NoResource /\ Links[r].time = Unknown
    BY <2>3 DEF EndOf
  <2> QED
    BY <2>2, <2>4 DEF Decided
<1>4. CASE About(Canon, claims, r) # {}
  <2>1. PICK first : first = Min(About(Canon, claims, r))
    OBVIOUS
  <2>2. first \in About(Canon, claims, r) /\ \A m \in About(Canon, claims, r) : first <= m
    <3>1. About(Canon, claims, r) \subseteq Nat
      BY <1>1, <1>2
    <3> QED
      BY <1>4, <2>1, <3>1, FirstIs
  <2>3. first <= Len(claims)
    BY <1>1, <1>2, <2>2
  <2>4. PICK expr : expr = claims[first].expr
    OBVIOUS
  <2>5. expr \in Expression
    <3>1. claims[first] \in Claim
      BY <1>2, <2>2 DEF Known
    <3> QED
      BY <2>4, <3>1 DEF Claim
  <2>6. Leads(ask, st, r, stack, expr, all)
    BY <1>1, <2>2, <2>3, <2>4 DEF SoFar
  <2>7. SlotOf(all.times).time = all.times[1]
    BY <2>6 DEF SlotOf, Leads
  <2>8. Links[r] = LinkBy(Canon, expr)
    BY <1>4, <2>1, <2>4 DEF Links, LinksOf
  <2>9. CASE expr.kind = "absolute"
    <3>1. Links[r].to = NoResource /\ Links[r].time = Found(expr.tick)
      BY <2>8, <2>9 DEF LinkBy, EndOf
    <3> QED
      BY <2>6, <2>7, <2>9, <3>1 DEF Leads, Decided
  <2>10. CASE expr.kind # "absolute"
    <3>1. expr.anchor \in Resource
      BY <2>5, <2>10 DEF Expression
    <3>2. Links[r].to = Resolve(expr.anchor) /\ Links[r].anchor = expr.anchor
      BY <2>8, <2>10, <3>1 DEF LinkBy, Known
    <3>3. Links[r].to # NoResource
      BY <3>1, <3>2, IdentityAssumption DEF Known
    <3> QED
      BY <2>6, <2>7, <2>10, <3>2, <3>3 DEF Leads, Decided
  <2> QED
    BY <2>9, <2>10
<1> QED
  BY <1>3, <1>4

\* A slot is something.
LEMMA SlotIsThere ==
  ASSUME NEW slot \in Slot
  PROVE  slot # NoSlot
<1>1. slot.time \in Time
  BY DEF Slot
<1>2. slot.time.kind # "none"
  BY <1>1 DEF Time
<1>3. NoSlot.time.kind = "none"
  BY DEF NoSlot, Unresolved
<1> QED
  BY <1>2, <1>3

\* d is c with the slot for r.
Remembered(c, d, r, slot) == \A x \in Resource : d[x] = IF x = r THEN slot ELSE c[x]

\* The slot follows the link of r.
SlotFollows(L, c, E, r, slot) ==
  /\ ~ PathDependent(slot.time)
  /\ L[r].to = NoResource => slot.time = L[r].time
  /\ L[r].to # NoResource =>
       c[L[r].to] # NoSlot /\ slot.time = After(L[r].anchor, c[L[r].to].time) /\ <<L[r].to, r>> \in E

\* What follows its link may be remembered; if it was already, with the same time.
LEMMA RememberFollows ==
  ASSUME NEW canon, NEW L, World(canon, L), NEW c, NEW E, NEW d, NEW r \in Resource, NEW slot \in Slot,
         CacheFollows(L, c, E), Remembered(c, d, r, slot), SlotFollows(L, c, E, r, slot)
  PROVE  /\ CacheFollows(L, d, E)
         /\ c[r] # NoSlot => c[r].time = slot.time
<1>1. PICK rank \in [Resource -> Nat] : Ranked(L, c, E, rank)
  BY DEF CacheFollows
<1>2. slot # NoSlot
  BY SlotIsThere
<1>3. \A x \in Resource : L[x].to # NoResource => L[x].to \in Resource
  BY DEF World
<1>4. c[r] # NoSlot => c[r].time = slot.time
  BY <1>1 DEF Ranked, SlotFollows
<1>5. CASE c[r] # NoSlot
  <2>1. \A x \in Resource : (d[x] # NoSlot <=> c[x] # NoSlot) /\ (c[x] # NoSlot => d[x].time = c[x].time)
    BY <1>2, <1>4, <1>5 DEF Remembered
  <2>2. Ranked(L, d, E, rank)
    <3>1. ASSUME NEW x \in Resource, d[x] # NoSlot
          PROVE  /\ ~ PathDependent(d[x].time)
                 /\ L[x].to = NoResource => d[x].time = L[x].time
                 /\ L[x].to # NoResource =>
                      /\ d[L[x].to] # NoSlot
                      /\ d[x].time = After(L[x].anchor, d[L[x].to].time)
                      /\ <<L[x].to, x>> \in E
                      /\ rank[L[x].to] < rank[x]
      <4>1. c[x] # NoSlot /\ d[x].time = c[x].time
        BY <2>1, <3>1
      <4>2. CASE L[x].to = NoResource
        BY <1>1, <4>1, <4>2 DEF Ranked
      <4>3. CASE L[x].to # NoResource
        <5>1. L[x].to \in Resource
          BY <1>3, <4>3
        <5>2. /\ ~ PathDependent(c[x].time) /\ c[L[x].to] # NoSlot
              /\ c[x].time = After(L[x].anchor, c[L[x].to].time)
              /\ <<L[x].to, x>> \in E
              /\ rank[L[x].to] < rank[x]
          BY <1>1, <4>1, <4>3 DEF Ranked
        <5> QED
          BY <2>1, <4>1, <4>3, <5>1, <5>2
      <4> QED
        BY <4>2, <4>3
    <3> QED
      BY <3>1 DEF Ranked
  <2> QED
    BY <1>4, <2>2 DEF CacheFollows
<1>6. CASE c[r] = NoSlot
  <2> DEFINE high == [x \in Resource |-> IF x = r /\ L[r].to # NoResource THEN rank[L[r].to] + 1 ELSE rank[x]]
  <2>1. high \in [Resource -> Nat]
    BY <1>3
  <2>2. high[r] = IF L[r].to # NoResource THEN rank[L[r].to] + 1 ELSE rank[r]
    OBVIOUS
  <2>3. \A x \in Resource : x # r => high[x] = rank[x]
    OBVIOUS
  <2> HIDE DEF high
  <2>4. Ranked(L, d, E, high)
    <3>1. ASSUME NEW x \in Resource, d[x] # NoSlot
          PROVE  /\ ~ PathDependent(d[x].time)
                 /\ L[x].to = NoResource => d[x].time = L[x].time
                 /\ L[x].to # NoResource =>
                      /\ d[L[x].to] # NoSlot
                      /\ d[x].time = After(L[x].anchor, d[L[x].to].time)
                      /\ <<L[x].to, x>> \in E
                      /\ high[L[x].to] < high[x]
      <4>1. CASE x = r
        <5>1. d[x] = slot
          BY <4>1 DEF Remembered
        <5>2. CASE L[r].to = NoResource
          BY <4>1, <5>1, <5>2 DEF SlotFollows
        <5>3. CASE L[r].to # NoResource
          <6>1. L[r].to \in Resource /\ L[r].to # r
            BY <1>3, <1>6, <5>3 DEF SlotFollows
          <6>2. d[L[r].to] = c[L[r].to] /\ high[L[r].to] = rank[L[r].to]
            BY <2>3, <6>1 DEF Remembered
          <6>3. high[r] = rank[L[r].to] + 1 /\ rank[L[r].to] \in Nat
            BY <2>2, <5>3, <6>1
          <6> QED
            BY <4>1, <5>1, <5>3, <6>2, <6>3 DEF SlotFollows
        <5> QED
          BY <5>2, <5>3
      <4>2. CASE x # r
        <5>1. d[x] = c[x] /\ c[x] # NoSlot /\ high[x] = rank[x]
          BY <2>3, <3>1, <4>2 DEF Remembered
        <5>2. CASE L[x].to = NoResource
          BY <1>1, <5>1, <5>2 DEF Ranked
        <5>3. CASE L[x].to # NoResource
          <6>1. /\ ~ PathDependent(c[x].time) /\ c[L[x].to] # NoSlot
                /\ c[x].time = After(L[x].anchor, c[L[x].to].time)
                /\ <<L[x].to, x>> \in E
                /\ rank[L[x].to] < rank[x]
            BY <1>1, <5>1, <5>3 DEF Ranked
          <6>2. L[x].to \in Resource /\ L[x].to # r
            BY <1>3, <1>6, <5>3, <6>1
          <6>3. d[L[x].to] = c[L[x].to] /\ high[L[x].to] = rank[L[x].to]
            BY <2>3, <6>2 DEF Remembered
          <6> QED
            BY <5>1, <5>3, <6>1, <6>3
        <5> QED
          BY <5>2, <5>3
      <4> QED
        BY <4>1, <4>2
    <3> QED
      BY <3>1 DEF Ranked
  <2> QED
    BY <1>4, <2>1, <2>4 DEF CacheFollows
<1> QED
  BY <1>5, <1>6

\* What the claims say keeps the cache following the links.
LEMMA ConcludedGood ==
  ASSUME Known, World(Canon, Links), NEW B, NEW ask, Answering(B, ask), NEW q \in Query, Askable(B, q),
         NEW all \in TimesOf(ask, q.st, q.r, q.stack \cup {q.r})
  PROVE  /\ GoodOutcome(B, q, Concluded(all, q.r))
         /\ all \in Partial
         /\ Later(all.st, Concluded(all, q.r).st)
         /\ Decided(ask, q.st, q.r, q.stack \cup {q.r}, all)
<1> DEFINE stack == q.stack \cup {q.r}
           slot == SlotOf(all.times)
           r == q.r
           to == Links[q.r].to
           final == Concluded(all, q.r)
<1>1. q.st \in SearchState /\ r \in Resource /\ stack \in SUBSET Resource /\ Canon[r] = r /\ Follow1(B, q.st)
  BY DEF Query, Askable
<1>2. all \in Partial /\ SoFar(B, ask, q.st, r, stack, Len(claims), all)
  BY <1>1, TimesSoFar
<1>3. Decided(ask, q.st, r, stack, all)
  BY <1>1, <1>2, FirstDecides
<1>4. Later(q.st, all.st) /\ Follow1(B, all.st) /\ all.st \in SearchState /\ slot \in Slot
  BY <1>2, SlotTyped DEF SoFar, Partial
<1>5. final.st = Remember(all.st, r, slot) /\ final.slot = slot
  BY DEF Concluded
<1>6. /\ final.st \in SearchState /\ final.st.deps = all.st.deps
      /\ \A x \in Resource : final.st.cache[x] = IF x = r /\ Kept(slot) THEN slot ELSE all.st.cache[x]
  BY <1>1, <1>4, <1>5, RememberTyped
<1> HIDE DEF final
<1>7. CASE ~ Kept(slot)
  <2>1. final.st = all.st
    BY <1>5, <1>7 DEF Remember
  <2>2. PathDependent(slot.time)
    BY <1>7 DEF Kept
  <2>3. Later(all.st, final.st)
    BY <1>4, <2>1, AsLate
  <2> QED
    BY <1>2, <1>3, <1>4, <1>5, <2>1, <2>2, <2>3 DEF GoodOutcome, final
<1>8. CASE Kept(slot)
  <2>1. ~ PathDependent(slot.time)
    BY <1>8 DEF Kept
  <2>2. to = NoResource => slot.time = Links[r].time
    BY <1>3 DEF Decided
  <2>3. ASSUME to # NoResource
        PROVE  /\ all.st.cache[to] # NoSlot
               /\ slot.time = After(Links[r].anchor, all.st.cache[to].time)
               /\ <<to, r>> \in B \cup all.st.deps
    <3>1. to \in Resource /\ Canon[to] = to /\ Links[r].anchor \in Resource \cup {NoResource}
      BY <1>1, <2>3 DEF World, Link
    <3>2. PICK asked : asked = Asked(q.st, r, to, stack)
      OBVIOUS
    <3>3. PICK found \in ask[asked] :
            slot.time = After(Links[r].anchor, found.slot.time) /\ Later(found.st, all.st)
      BY <1>3, <2>3, <3>2 DEF Decided
    <3>4. /\ asked \in Query /\ asked.st.cache = q.st.cache /\ asked.r = to
          /\ asked.st.deps = q.st.deps \cup {<<to, r>>}
      BY <1>1, <3>1, <3>2, AskedTyped
    <3>5. Askable(B, asked)
      <4>1. B \cup q.st.deps \subseteq B \cup asked.st.deps
        BY <3>4
      <4>2. CacheFollows(Links, q.st.cache, B \cup asked.st.deps)
        BY <1>1, <4>1, CacheKeepsFollowing DEF Follow1
      <4> QED
        BY <3>1, <3>4, <4>2 DEF Askable, Follow1
    <3>6. GoodOutcome(B, asked, found) /\ found \in Outcome
      BY <3>3, <3>4, <3>5 DEF Answering
    <3>7. ~ PathDependent(found.slot.time)
      <4>1. found.slot.time \in Time
        BY <3>6 DEF Outcome, Slot
      <4> QED
        BY <2>1, <3>1, <3>3, <4>1, AfterTyped
    <3>8. found.st.cache[to] # NoSlot /\ found.st.cache[to].time = found.slot.time
      BY <3>4, <3>6, <3>7 DEF GoodOutcome
    <3>9. all.st.cache[to] # NoSlot /\ all.st.cache[to].time = found.slot.time
      BY <3>1, <3>3, <3>8 DEF Later
    <3>10. <<to, r>> \in all.st.deps
      BY <3>3, <3>4, <3>6 DEF GoodOutcome, Later
    <3> QED
      BY <3>3, <3>9, <3>10
  <2>4. Remembered(all.st.cache, final.st.cache, r, slot)
    BY <1>6, <1>8 DEF Remembered
  <2>5. CacheFollows(Links, all.st.cache, B \cup all.st.deps)
    BY <1>4 DEF Follow1
  <2>6. SlotFollows(Links, all.st.cache, B \cup all.st.deps, r, slot)
    BY <2>1, <2>2, <2>3 DEF SlotFollows
  <2> HIDE DEF slot, r, to
  <2>7. /\ CacheFollows(Links, final.st.cache, B \cup all.st.deps)
        /\ all.st.cache[r] # NoSlot => all.st.cache[r].time = slot.time
    BY <1>1, <1>4, <2>4, <2>5, <2>6, RememberFollows
  <2>8. slot # NoSlot
    BY <1>4, SlotIsThere
  <2>9. Later(all.st, final.st)
    BY <1>6, <2>4, <2>7, <2>8 DEF Later, Remembered
  <2>10. Later(q.st, final.st)
    BY <1>4, <2>9, LaterStill
  <2>11. Follow1(B, final.st)
    BY <1>6, <2>7 DEF Follow1
  <2>12. final.st.cache[r] # NoSlot /\ final.st.cache[r].time = final.slot.time
    BY <1>1, <1>5, <2>4, <2>8 DEF Remembered
  <2> QED
    BY <1>2, <1>3, <2>9, <2>10, <2>11, <2>12 DEF GoodOutcome, final, r
<1> QED
  BY <1>7, <1>8

\* Each query of a resource that was not merged away is answered well.
LEMMA TimeAtGood ==
  ASSUME Known, World(Canon, Links), NEW B, NEW ask, NEW hops, hops # 0 => Answering(B, ask),
         NEW q \in Query, Askable(B, q)
  PROVE  /\ TimeAt(ask, hops, q) # {}
         /\ \A found \in TimeAt(ask, hops, q) : GoodOutcome(B, q, found)
<1>1. q.st \in SearchState /\ q.r \in Resource /\ q.stack \in SUBSET Resource /\ Follow1(B, q.st)
  BY DEF Query, Askable
<1>2. Later(q.st, q.st)
  BY <1>1, AsLate
<1>3. \A kind \in {"cycle", "depth_exceeded"} : PathDependent(UnresolvedSlot(kind).time)
  BY DEF UnresolvedSlot, Unresolved, PathDependent
<1>4. CASE q.st.cache[q.r] # NoSlot
  <2>1. TimeAt(ask, hops, q) = {[st |-> q.st, slot |-> q.st.cache[q.r]]}
    BY <1>4, FromCache
  <2> QED
    BY <1>1, <1>2, <1>4, <2>1 DEF GoodOutcome
<1>5. CASE q.st.cache[q.r] = NoSlot /\ q.r \in q.stack
  <2>1. TimeAt(ask, hops, q) = {[st |-> q.st, slot |-> UnresolvedSlot("cycle")]}
    BY <1>5, FromCycle
  <2> QED
    BY <1>1, <1>2, <1>3, <2>1 DEF GoodOutcome
<1>6. CASE q.st.cache[q.r] = NoSlot /\ q.r \notin q.stack /\ hops = 0
  <2>1. TimeAt(ask, hops, q) = {[st |-> q.st, slot |-> UnresolvedSlot("depth_exceeded")]}
    BY <1>6, FromDepth
  <2> QED
    BY <1>1, <1>2, <1>3, <2>1 DEF GoodOutcome
<1>7. CASE q.st.cache[q.r] = NoSlot /\ q.r \notin q.stack /\ hops # 0
  <2>1. TimeAt(ask, hops, q) = ClaimAnswers(ask, q)
    BY <1>7, FromClaims
  <2>2. Answering(B, ask)
    BY <1>7
  <2>3. q.stack \cup {q.r} \in SUBSET Resource
    BY <1>1
  <2>4. TimesOf(ask, q.st, q.r, q.stack \cup {q.r}) # {}
    BY <1>1, <2>2, <2>3, TimesSoFar
  <2>5. \A all \in TimesOf(ask, q.st, q.r, q.stack \cup {q.r}) : GoodOutcome(B, q, Concluded(all, q.r))
    BY <2>2, ConcludedGood
  <2> QED
    BY <2>1, <2>4, <2>5 DEF ClaimAnswers
<1> QED
  BY <1>4, <1>5, <1>6, <1>7

\* So do searches, however many hops are left.
LEMMA SearchGood ==
  ASSUME Known, World(Canon, Links), NEW B
  PROVE  \A hops \in 0..(MaxDepth + 1) : Answering(B, Search[hops])
<1> DEFINE S == {hops \in 0..(MaxDepth + 1) : Answering(B, Search[hops])}
<1>1. MaxDepth + 1 \in Nat
  BY MaterializerAssumption
<1>2. ASSUME NEW hops \in 0..(MaxDepth + 1), hops # 0 => Answering(B, Search[hops - 1])
      PROVE  Answering(B, Search[hops])
  <2>1. /\ Search[hops] \in [Query -> SUBSET Outcome]
        /\ \A q \in Query : Search[hops][q] = TimeAt(Search[hops - 1], hops, q)
    BY SearchSteps
  <2>2. ASSUME NEW q \in Query, Askable(B, q)
        PROVE  Search[hops][q] # {} /\ \A found \in Search[hops][q] : GoodOutcome(B, q, found)
    <3>1. /\ TimeAt(Search[hops - 1], hops, q) # {}
          /\ \A found \in TimeAt(Search[hops - 1], hops, q) : GoodOutcome(B, q, found)
      BY <1>2, <2>2, TimeAtGood
    <3> QED
      BY <2>1, <3>1
  <2> QED
    BY <2>1, <2>2 DEF Answering
<1>3. 0 \in S
  BY <1>1, <1>2
<1>4. ASSUME NEW hops \in 1..(MaxDepth + 1), hops - 1 \in S
      PROVE  hops \in S
  BY <1>1, <1>2, <1>4
<1> HIDE DEF S
<1>5. 0..(MaxDepth + 1) \subseteq S
  BY <1>1, <1>3, <1>4, InductionUpTo
<1> QED
  BY <1>5 DEF S

-----------------------------------------------------------------------------
(* A search follows the walk.                                               *)

\* Nobody's time is being computed whom the walk from y could come upon.
Clear(c, rank, y, stack) == \A s \in stack : c[s] = NoSlot \/ rank[y] < rank[s]

\* A result of the walk for an entry of the cache.
Confirms(c, E, y, result) ==
  /\ result.edges \subseteq E
  /\ c[y].time = result.time \/ result.time.kind = "depth_exceeded"

\* From a resource in the cache the walk leads to its entry, or is too long.
LEMMA CachedWalk ==
  ASSUME NEW canon, NEW L, World(canon, L), NEW w, IsWalk(L, w), NEW c, NEW E,
         NEW rank \in [Resource -> Nat], Ranked(L, c, E, rank)
  PROVE  \A k \in 0..(MaxDepth + 1) : \A y \in Resource : \A stack \in SUBSET Resource :
           c[y] # NoSlot /\ Clear(c, rank, y, stack) => Confirms(c, E, y, w[k][<<y, stack>>])
<1> DEFINE P(k) == \A y \in Resource : \A stack \in SUBSET Resource :
                     c[y] # NoSlot /\ Clear(c, rank, y, stack) => Confirms(c, E, y, w[k][<<y, stack>>])
           S == {k \in 0..(MaxDepth + 1) : P(k)}
<1>1. MaxDepth + 1 \in Nat
  BY MaterializerAssumption
<1>2. 0 \in S
  <2>1. ASSUME NEW y \in Resource, NEW stack \in SUBSET Resource, c[y] # NoSlot, Clear(c, rank, y, stack)
        PROVE  Confirms(c, E, y, w[0][<<y, stack>>])
    <3>1. y \notin stack
      <4>1. ~ (rank[y] < rank[y])
        OBVIOUS
      <4> QED
        BY <2>1, <4>1 DEF Clear
    <3>2. <<y, stack>> \in Places
      BY DEF Places
    <3>3. w[0][<<y, stack>>] = Ended(Unresolved("depth_exceeded", NoResource))
      BY <3>1, <3>2 DEF IsWalk, NoHops
    <3> QED
      BY <3>3 DEF Ended, Unresolved, Confirms
  <2> QED
    BY <1>1, <2>1
<1>3. ASSUME NEW k \in 1..(MaxDepth + 1), k - 1 \in S
      PROVE  k \in S
  <2>1. ASSUME NEW y \in Resource, NEW stack \in SUBSET Resource, c[y] # NoSlot, Clear(c, rank, y, stack)
        PROVE  Confirms(c, E, y, w[k][<<y, stack>>])
    <3>1. y \notin stack
      <4>1. ~ (rank[y] < rank[y])
        OBVIOUS
      <4> QED
        BY <2>1, <4>1 DEF Clear
    <3>2. <<y, stack>> \in Places
      BY DEF Places
    <3>3. w[k] = OneHopMore(L, w[k - 1])
      BY DEF IsWalk
    <3>4. CASE L[y].to = NoResource
      <4>1. w[k][<<y, stack>>] = Ended(L[y].time)
        BY <3>1, <3>2, <3>3, <3>4 DEF OneHopMore
      <4>2. c[y].time = L[y].time
        BY <2>1, <3>4 DEF Ranked
      <4> QED
        BY <4>1, <4>2 DEF Ended, Confirms
    <3>5. CASE L[y].to # NoResource
      <4> DEFINE to == L[y].to
                 further == stack \cup {y}
                 inner == w[k - 1][<<to, further>>]
      <4>1. w[k][<<y, stack>>] = Onward(L[y], y, inner)
        BY <3>1, <3>2, <3>3, <3>5 DEF OneHopMore
      <4>2. /\ c[to] # NoSlot /\ c[y].time = After(L[y].anchor, c[to].time)
            /\ <<to, y>> \in E /\ rank[to] < rank[y]
        BY <2>1, <3>5 DEF Ranked
      <4>3. to \in Resource /\ further \in SUBSET Resource /\ L[y].anchor \in Resource \cup {NoResource}
        BY <3>5 DEF World, Link
      <4>4. Clear(c, rank, to, further)
        <5>1. ASSUME NEW s \in stack, c[s] # NoSlot
              PROVE  rank[to] < rank[s]
          <6>1. rank[y] < rank[s]
            BY <2>1, <5>1 DEF Clear
          <6>2. rank[to] \in Nat /\ rank[y] \in Nat /\ rank[s] \in Nat
            BY <4>3
          <6> QED
            BY <4>2, <6>1, <6>2
        <5> QED
          BY <4>2, <5>1 DEF Clear
      <4> HIDE DEF to, further
      <4>5. Confirms(c, E, to, inner)
        <5>1. P(k - 1)
          BY <1>3
        <5> QED
          BY <4>2, <4>3, <4>4, <5>1
      <4>6. inner \in WalkResult
        <5>1. k - 1 \in 0..(MaxDepth + 1)
          BY <1>1
        <5>2. w[k - 1] \in [Places -> WalkResult]
          BY <5>1 DEF IsWalk
        <5>3. <<to, further>> \in Places
          BY <4>3 DEF Places
        <5> QED
          BY <5>2, <5>3
      <4> HIDE DEF inner
      <4>7. inner.time \in Time
        BY <4>6 DEF WalkResult
      <4>8. inner.time.kind = "depth_exceeded" => After(L[y].anchor, inner.time).kind = "depth_exceeded"
        BY <4>3, <4>7, AfterTyped
      <4>9. /\ Onward(L[y], y, inner).time = After(L[y].anchor, inner.time)
            /\ Onward(L[y], y, inner).edges = inner.edges \cup {<<to, y>>}
        BY DEF Onward, to
      <4>10. c[y].time = After(L[y].anchor, inner.time) \/ After(L[y].anchor, inner.time).kind = "depth_exceeded"
        BY <4>2, <4>5, <4>8 DEF Confirms
      <4>11. inner.edges \cup {<<to, y>>} \subseteq E
        BY <4>2, <4>5 DEF Confirms
      <4> QED
        BY <4>1, <4>9, <4>10, <4>11 DEF Confirms
    <3> QED
      BY <3>4, <3>5
  <2> QED
    BY <1>1, <2>1
<1> HIDE DEF S
<1>4. 0..(MaxDepth + 1) \subseteq S
  BY <1>1, <1>2, <1>3, InductionUpTo
<1> QED
  BY <1>4 DEF S

\* Where the walk leads, or it is too long for somebody who finds nothing in the cache.
Arrives(B, c, result, found) ==
  /\ result.edges \subseteq B \cup found.st.deps
  /\ \/ found.slot.time = result.time
     \/ result.time.kind = "depth_exceeded" /\ c # NoCache

\* A query that starts with this cache, none of whose resources is in it.
Starts(c, q) == Canon[q.r] = q.r /\ q.st.cache = c /\ \A s \in q.stack : c[s] = NoSlot

\* One hop more of a search is one hop more of the walk.
LEMMA HopArrives ==
  ASSUME Known, World(Canon, Links), NEW w, IsWalk(Links, w), NEW B, NEW c,
         NEW rank \in [Resource -> Nat], Ranked(Links, c, B, rank),
         NEW hops \in 0..(MaxDepth + 1), NEW ask, hops # 0 => Answering(B, ask),
         hops # 0 => \A q \in Query : Starts(c, q) =>
                       \A found \in ask[q] : Arrives(B, c, w[hops - 1][<<q.r, q.stack>>], found),
         NEW q \in Query, Starts(c, q), NEW found \in TimeAt(ask, hops, q)
  PROVE  Arrives(B, c, w[hops][<<q.r, q.stack>>], found)
<1> DEFINE r == q.r
           result == w[hops][<<q.r, q.stack>>]
<1>1. /\ q.st \in SearchState /\ r \in Resource /\ q.stack \in SUBSET Resource
      /\ Canon[r] = r /\ q.st.cache = c /\ \A s \in q.stack : c[s] = NoSlot
  BY DEF Query, Starts
<1>2. <<r, q.stack>> \in Places
  BY <1>1 DEF Places
<1>3. hops # 0 => hops \in 1..(MaxDepth + 1) /\ w[hops] = OneHopMore(Links, w[hops - 1])
  <2>1. hops # 0 => hops \in 1..(MaxDepth + 1)
    BY MaterializerAssumption
  <2> QED
    BY <2>1 DEF IsWalk
<1>4. CASE c[r] # NoSlot
  <2>1. found.st = q.st /\ found.slot = c[r]
    <3>1. TimeAt(ask, hops, q) = {[st |-> q.st, slot |-> q.st.cache[q.r]]}
      BY <1>1, <1>4, FromCache
    <3> QED
      BY <1>1, <3>1
  <2>2. Clear(c, rank, r, q.stack)
    BY <1>1 DEF Clear
  <2>3. Confirms(c, B, r, result)
    BY <1>1, <1>4, <2>2, CachedWalk
  <2>4. c # NoCache
    BY <1>1, <1>4 DEF NoCache
  <2> QED
    BY <2>1, <2>3, <2>4 DEF Confirms, Arrives
<1>5. CASE c[r] = NoSlot /\ r \in q.stack
  <2>1. found.slot.time = Unresolved("cycle", NoResource)
    <3>1. TimeAt(ask, hops, q) = {[st |-> q.st, slot |-> UnresolvedSlot("cycle")]}
      BY <1>1, <1>5, FromCycle
    <3> QED
      BY <3>1 DEF UnresolvedSlot
  <2>2. result = Ended(Unresolved("cycle", NoResource))
    <3>1. CASE hops = 0
      BY <1>2, <1>5, <3>1 DEF IsWalk, NoHops
    <3>2. CASE hops # 0
      BY <1>2, <1>3, <1>5, <3>2 DEF OneHopMore
    <3> QED
      BY <3>1, <3>2
  <2> QED
    BY <2>1, <2>2 DEF Ended, Arrives
<1>6. CASE c[r] = NoSlot /\ r \notin q.stack /\ hops = 0
  <2>1. found.slot.time = Unresolved("depth_exceeded", NoResource)
    <3>1. TimeAt(ask, hops, q) = {[st |-> q.st, slot |-> UnresolvedSlot("depth_exceeded")]}
      BY <1>1, <1>6, FromDepth
    <3> QED
      BY <3>1 DEF UnresolvedSlot
  <2>2. result = Ended(Unresolved("depth_exceeded", NoResource))
    BY <1>2, <1>6 DEF IsWalk, NoHops
  <2> QED
    BY <2>1, <2>2 DEF Ended, Arrives
<1>7. CASE c[r] = NoSlot /\ r \notin q.stack /\ hops # 0
  <2> DEFINE stack == q.stack \cup {q.r}
  <2>1. PICK all \in TimesOf(ask, q.st, r, stack) : found = Concluded(all, r)
    <3>1. TimeAt(ask, hops, q) = ClaimAnswers(ask, q)
      BY <1>1, <1>7, FromClaims
    <3> QED
      BY <3>1 DEF ClaimAnswers
  <2>2. Askable(B, q) /\ Answering(B, ask)
    <3>1. CacheFollows(Links, c, B)
      BY DEF CacheFollows
    <3>2. B \subseteq B \cup q.st.deps
      OBVIOUS
    <3>3. CacheFollows(Links, c, B \cup q.st.deps)
      BY <3>1, <3>2, CacheKeepsFollowing
    <3> QED
      BY <1>1, <1>7, <3>3 DEF Askable, Follow1
  <2>3. Later(all.st, found.st) /\ Decided(ask, q.st, r, stack, all)
    BY <2>1, <2>2, ConcludedGood
  <2>4. found.slot.time = SlotOf(all.times).time
    BY <2>1 DEF Concluded
  <2>5. CASE Links[r].to = NoResource
    <3>1. result = Ended(Links[r].time)
      BY <1>2, <1>3, <1>7, <2>5 DEF OneHopMore
    <3>2. found.slot.time = Links[r].time
      BY <2>3, <2>4, <2>5 DEF Decided
    <3> QED
      BY <3>1, <3>2 DEF Ended, Arrives
  <2>6. CASE Links[r].to # NoResource
    <3> DEFINE to == Links[r].to
               inner == w[hops - 1][<<to, stack>>]
    <3>1. result = Onward(Links[r], r, inner)
      BY <1>2, <1>3, <1>7, <2>6 DEF OneHopMore
    <3>2. to \in Resource /\ Canon[to] = to /\ Links[r].anchor \in Resource \cup {NoResource}
      BY <1>1, <2>6 DEF World, Link
    <3>3. PICK asked : asked = Asked(q.st, r, to, stack)
      OBVIOUS
    <3>4. PICK other \in ask[asked] :
            SlotOf(all.times).time = After(Links[r].anchor, other.slot.time) /\ Later(other.st, all.st)
      BY <2>3, <2>6, <3>3 DEF Decided
    <3>5. stack \in SUBSET Resource /\ \A s \in stack : c[s] = NoSlot
      BY <1>1, <1>7
    <3>6. /\ asked \in Query /\ asked.st.cache = c /\ asked.r = to /\ asked.stack = stack
          /\ asked.st.deps = q.st.deps \cup {<<to, r>>}
      BY <1>1, <3>2, <3>3, <3>5, AskedTyped
    <3> HIDE DEF stack, to
    <3>7. Starts(c, asked)
      BY <3>2, <3>5, <3>6 DEF Starts
    <3>8. Arrives(B, c, inner, other)
      BY <1>7, <3>4, <3>6, <3>7
    <3>9. <<to, r>> \in other.st.deps
      <4>1. Askable(B, asked)
        <5>1. CacheFollows(Links, c, B)
          BY DEF CacheFollows
        <5>2. B \subseteq B \cup asked.st.deps
          OBVIOUS
        <5>3. CacheFollows(Links, c, B \cup asked.st.deps)
          BY <5>1, <5>2, CacheKeepsFollowing
        <5> QED
          BY <3>2, <3>6, <5>3 DEF Askable, Follow1
      <4>2. GoodOutcome(B, asked, other)
        BY <2>2, <3>4, <3>6, <4>1 DEF Answering
      <4> QED
        BY <3>6, <4>2 DEF GoodOutcome, Later
    <3>10. other.st.deps \subseteq found.st.deps
      BY <2>3, <3>4 DEF Later
    <3>11. inner.time \in Time
      <4>1. hops - 1 \in 0..(MaxDepth + 1)
        BY <1>3, <1>7, MaterializerAssumption
      <4>2. w[hops - 1] \in [Places -> WalkResult]
        BY <4>1 DEF IsWalk
      <4>3. <<to, stack>> \in Places
        BY <3>2, <3>5 DEF Places
      <4> QED
        BY <4>2, <4>3 DEF WalkResult
    <3> HIDE DEF inner
    <3>12. inner.time.kind = "depth_exceeded" => After(Links[r].anchor, inner.time).kind = "depth_exceeded"
      BY <3>2, <3>11, AfterTyped
    <3>13. /\ result.time = After(Links[r].anchor, inner.time)
           /\ result.edges = inner.edges \cup {<<to, r>>}
      BY <3>1 DEF Onward, to
    <3>14. found.slot.time = After(Links[r].anchor, other.slot.time)
      BY <2>4, <3>4
    <3>15. result.edges \subseteq B \cup found.st.deps
      BY <3>8, <3>9, <3>10, <3>13 DEF Arrives
    <3>16. found.slot.time = result.time \/ (result.time.kind = "depth_exceeded" /\ c # NoCache)
      BY <3>8, <3>12, <3>13, <3>14 DEF Arrives
    <3> QED
      BY <3>15, <3>16 DEF Arrives
  <2> QED
    BY <2>5, <2>6
<1> QED
  BY <1>4, <1>5, <1>6, <1>7

\* A search follows the walk, however many hops are left.
LEMMA SearchArrives ==
  ASSUME Known, World(Canon, Links), NEW w, IsWalk(Links, w), NEW B, NEW c,
         NEW rank \in [Resource -> Nat], Ranked(Links, c, B, rank)
  PROVE  \A hops \in 0..(MaxDepth + 1) : \A q \in Query : Starts(c, q) =>
           \A found \in Search[hops][q] : Arrives(B, c, w[hops][<<q.r, q.stack>>], found)
<1> DEFINE P(hops) == \A q \in Query : Starts(c, q) =>
                        \A found \in Search[hops][q] : Arrives(B, c, w[hops][<<q.r, q.stack>>], found)
           S == {hops \in 0..(MaxDepth + 1) : P(hops)}
<1>1. MaxDepth + 1 \in Nat
  BY MaterializerAssumption
<1>2. ASSUME NEW hops \in 0..(MaxDepth + 1), hops # 0 => P(hops - 1)
      PROVE  P(hops)
  <2>1. hops # 0 => Answering(B, Search[hops - 1])
    <3>1. hops # 0 => hops - 1 \in 0..(MaxDepth + 1)
      BY <1>1
    <3> QED
      BY <3>1, SearchGood
  <2>2. \A q \in Query : Search[hops][q] = TimeAt(Search[hops - 1], hops, q)
    BY SearchSteps
  <2>3. ASSUME NEW q \in Query, Starts(c, q), NEW found \in Search[hops][q]
        PROVE  Arrives(B, c, w[hops][<<q.r, q.stack>>], found)
    <3>1. found \in TimeAt(Search[hops - 1], hops, q)
      BY <2>2, <2>3
    <3> QED
      BY <1>2, <2>1, <2>3, <3>1, HopArrives
  <2> QED
    BY <2>3
<1>3. 0 \in S
  BY <1>1, <1>2
<1>4. ASSUME NEW hops \in 1..(MaxDepth + 1), hops - 1 \in S
      PROVE  hops \in S
  <2>1. hops \in 0..(MaxDepth + 1)
    BY <1>1
  <2>2. P(hops - 1)
    BY <1>4
  <2>3. P(hops)
    <3> HIDE DEF P
    <3> QED
      BY <1>2, <2>1, <2>2
  <2> HIDE DEF P
  <2> QED
    BY <2>1, <2>3
<1> HIDE DEF S
<1>5. 0..(MaxDepth + 1) \subseteq S
  BY <1>1, <1>3, <1>4, InductionUpTo
<1> QED
  BY <1>5 DEF S

\* What the store and a cache that follows the links answer: the cache still does, the
\* dependencies have the whole walk, and the time is where it leads, or it is too long.
LEMMA AnswersArrive ==
  ASSUME Known, World(Canon, Links), NEW B, NEW r \in Resource, Canon[r] = r,
         NEW st \in SearchState, CacheFollows(Links, st.cache, B)
  PROVE  /\ Answers(st, r) # {}
         /\ \A found \in Answers(st, r) :
              /\ found \in Outcome
              /\ CacheFollows(Links, found.st.cache, B \cup found.st.deps)
              /\ Arrives(B, st.cache, WalkFrom(Links, r), found)
<1> DEFINE q == [st |-> st, r |-> r, stack |-> {}]
           n == MaxDepth + 1
<1>1. q \in Query /\ q.st = st /\ q.r = r /\ q.stack = {}
  BY DEF Query
<1>2. n \in 0..n
  BY MaterializerAssumption
<1>3. IsWalk(Links, Walk(Links))
  BY WalkExists
<1>4. PICK rank \in [Resource -> Nat] : Ranked(Links, st.cache, B, rank)
  BY DEF CacheFollows
<1>5. Answers(st, r) = Search[n][q]
  BY DEF Answers
<1> HIDE DEF q
<1>6. Starts(st.cache, q)
  BY <1>1 DEF Starts
<1>7. Askable(B, q)
  <2>1. B \subseteq B \cup st.deps
    OBVIOUS
  <2>2. CacheFollows(Links, st.cache, B \cup st.deps)
    BY <2>1, CacheKeepsFollowing
  <2> QED
    BY <1>1, <2>2 DEF Askable, Follow1
<1>8. Answering(B, Search[n])
  BY <1>2, SearchGood
<1>9. Search[n][q] # {} /\ \A found \in Search[n][q] : GoodOutcome(B, q, found) /\ found \in Outcome
  BY <1>1, <1>7, <1>8 DEF Answering
<1>10. \A found \in Search[n][q] : Arrives(B, st.cache, Walk(Links)[n][<<q.r, q.stack>>], found)
  BY <1>1, <1>2, <1>3, <1>4, <1>6, SearchArrives
<1>11. Walk(Links)[n][<<q.r, q.stack>>] = WalkFrom(Links, r)
  BY <1>1 DEF WalkFrom
<1> QED
  BY <1>5, <1>9, <1>10, <1>11 DEF GoodOutcome, Follow1

\* Computed from the store alone, a time is where the walk leads.
LEMMA FreshIsWalk ==
  ASSUME Known, World(Canon, Links), NEW r \in Resource, Canon[r] = r
  PROVE  FreshSlot(r).time = WalkFrom(Links, r).time
<1> DEFINE st == [cache |-> NoCache, deps |-> {}]
<1>1. st \in SearchState /\ st.cache = NoCache
  BY DEF SearchState, NoCache
<1>2. CacheFollows(Links, NoCache, {})
  <2> DEFINE rank == [x \in Resource |-> 0]
  <2>1. rank \in [Resource -> Nat]
    OBVIOUS
  <2>2. Ranked(Links, NoCache, {}, rank)
    BY DEF Ranked, NoCache
  <2> HIDE DEF rank
  <2> QED
    BY <2>1, <2>2 DEF CacheFollows
<1>3. Resolve(r) = r
  BY DEF Known
<1>4. FreshSlot(r) = CHOOSE slot \in {found.slot : found \in Answers(st, r)} : TRUE
  BY <1>3 DEF FreshSlot
<1> HIDE DEF st
<1>5. /\ Answers(st, r) # {}
      /\ \A found \in Answers(st, r) : Arrives({}, NoCache, WalkFrom(Links, r), found)
  BY <1>1, <1>2, AnswersArrive
<1>6. \A found \in Answers(st, r) : found.slot.time = WalkFrom(Links, r).time
  BY <1>5 DEF Arrives
<1>7. FreshSlot(r) \in {found.slot : found \in Answers(st, r)}
  BY <1>4, <1>5
<1> QED
  BY <1>6, <1>7

\* Rows that follow their walks are honest.
LEMMA FollowingIsHonest ==
  ASSUME MaxProposals <= MaxHops, MaterializerInv
  PROVE  HonestRows
<1>1. Known /\ World(Canon, Links)
  <2>1. Known
    BY StoreKnown DEF MaterializerInv, Shape
  <2>2. World(Canon, Links)
    BY <2>1, LinksTyped DEF Known, Links
  <2> QED
    BY <2>1, <2>2
<1>2. ASSUME MergesAsProposed, NEW r \in Resource, rows[r] # NoRow, ~ rows[r].stale
      PROVE  /\ ~ Merged(r)
             /\ rows[r].time = FreshSlot(r).time \/ FreshSlot(r).time.kind = "depth_exceeded"
  <2>1. RowFollows(Canon, Links, r, rows[r], Edges(dependents))
    BY <1>2 DEF MaterializerInv, Follows, RowsFollow
  <2>2. Canon[r] = r
    BY <1>2, <2>1 DEF RowFollows
  <2>3. FreshSlot(r).time = WalkFrom(Links, r).time
    BY <1>1, <2>2, FreshIsWalk
  <2> QED
    BY <1>1, <1>2, <2>1, <2>2, <2>3 DEF RowFollows, Known
<1> QED
  BY <1>2 DEF HonestRows

-----------------------------------------------------------------------------
(* Invalidation.                                                            *)

\* A state of the projection.
Projected ==
  [rows  : [Resource -> Row \cup {NoRow}],
   cache : [Resource -> Slot \cup {NoSlot}],
   deps  : [Resource -> SUBSET Resource],
   queue : {ids \in Seq(Resource) : Unique(ids)}]

Closed(deps, R) == R \subseteq Resource /\ \A a \in R : deps[a] \subseteq R

\* These entries are gone and these rows are stale, if there are any; the others stay.
Cleared(s, t, R) ==
  /\ t.deps = s.deps
  /\ \A x \in R : t.cache[x] = NoSlot /\ (t.rows[x] = NoRow \/ t.rows[x].stale)
  /\ \A x \in Resource \ R : t.cache[x] = s.cache[x] /\ t.rows[x] = s.rows[x]

\* What is reached is closed.
LEMMA ReachedClosed ==
  ASSUME NEW deps \in [Resource -> SUBSET Resource], NEW r
  PROVE  /\ Closed(deps, Reached(deps, r))
         /\ r \in Resource => r \in Reached(deps, r)
<1>1. Reached(deps, r) \subseteq Resource
  BY DEF Reached
<1>2. ASSUME NEW a \in Reached(deps, r), NEW d \in deps[a]
      PROVE  d \in Reached(deps, r)
  <2>1. a \in Resource /\ d \in Resource
    BY <1>1, <1>2
  <2>2. ASSUME NEW S \in SUBSET Resource, r \in S, \A b \in S : deps[b] \subseteq S
        PROVE  d \in S
    <3>1. a \in S
      BY <2>2 DEF Reached
    <3> QED
      BY <1>2, <2>2, <3>1
  <2> QED
    BY <2>1, <2>2 DEF Reached
<1>3. r \in Resource => r \in Reached(deps, r)
  BY DEF Reached
<1> QED
  BY <1>1, <1>2, <1>3 DEF Closed

\* A queue has each id once.
LEMMA QueuedOnce ==
  ASSUME NEW ids \in Seq(Resource), Unique(ids), NEW walk \in Seq(Resource)
  PROVE  Queued(ids, walk) \in Seq(Resource) /\ Unique(Queued(ids, walk))
<1> DEFINE A == {q \in Seq(Resource) : Unique(q)}
           n == Len(walk)
           One(q, m) == IF NotQueued(q, walk[m]) THEN Append(q, walk[m]) ELSE q
           next == [p \in (1..n) \X A |-> One(p[2], p[1])]
           Body(g) == [m \in 0..n |->
                         IF m = 0 THEN ids
                         ELSE IF NotQueued(g[m - 1], walk[m])
                           THEN Append(g[m - 1], walk[m])
                           ELSE g[m - 1]]
           at == CHOOSE g : g = Body(g)
<1>1. n \in Nat /\ ids \in A
  OBVIOUS
<1>2. ASSUME NEW m \in 1..n, NEW q \in A
      PROVE  One(q, m) \in A
  <2>1. q \in Seq(Resource) /\ Unique(q) /\ walk[m] \in Resource
    OBVIOUS
  <2>2. CASE NotQueued(q, walk[m])
    <3> DEFINE longer == Append(q, walk[m])
    <3>1. /\ longer \in Seq(Resource) /\ Len(longer) = Len(q) + 1 /\ Len(q) \in Nat
          /\ \A i \in 1..Len(q) : longer[i] = q[i]
          /\ longer[Len(q) + 1] = walk[m]
      BY <2>1
    <3>2. \A i \in 1..Len(q) : q[i] # walk[m]
      BY <2>1, <2>2 DEF NotQueued, Range
    <3> HIDE DEF longer
    <3>3. ASSUME NEW i \in 1..Len(longer), NEW j \in 1..Len(longer), longer[i] = longer[j]
          PROVE  i = j
      <4>1. (i \in 1..Len(q) \/ i = Len(q) + 1) /\ (j \in 1..Len(q) \/ j = Len(q) + 1)
        BY <3>1
      <4>2. CASE i \in 1..Len(q) /\ j \in 1..Len(q)
        BY <2>1, <3>1, <3>3, <4>2 DEF Unique
      <4>3. CASE i \in 1..Len(q) /\ j = Len(q) + 1
        BY <3>1, <3>2, <3>3, <4>3
      <4>4. CASE i = Len(q) + 1 /\ j \in 1..Len(q)
        BY <3>1, <3>2, <3>3, <4>4
      <4> QED
        BY <4>1, <4>2, <4>3, <4>4
    <3>4. Unique(longer)
      BY <3>3 DEF Unique
    <3>5. One(q, m) = longer
      BY <2>2 DEF longer
    <3> QED
      BY <3>1, <3>4, <3>5
  <2>3. CASE ~ NotQueued(q, walk[m])
    BY <2>3
  <2> QED
    BY <2>2, <2>3
<1> HIDE DEF A, n, One
<1>3. next \in [(1..n) \X A -> A]
  <2>1. ASSUME NEW p \in (1..n) \X A
        PROVE  One(p[2], p[1]) \in A
    BY <1>2
  <2> QED
    BY <2>1
<1> HIDE DEF Body, at
<1>4. PICK g \in [0..n -> A] : Steps(g, n, ids, next)
  <2> HIDE DEF next
  <2> QED
    BY <1>1, <1>3, StepsExist
<1>5. ASSUME NEW m \in 1..n
      PROVE  g[m] = One(g[m - 1], m)
  <2>1. g[m - 1] \in A /\ <<m, g[m - 1]>> \in (1..n) \X A
    BY <1>1
  <2>2. g[m] = next[<<m, g[m - 1]>>]
    BY <1>4 DEF Steps
  <2> QED
    BY <2>1, <2>2
<1>6. g[0] = ids
  BY <1>4 DEF Steps
<1> HIDE DEF next
<1>7. ASSUME NEW h
      PROVE  Body(h)[0] = ids /\ \A m \in 1..n : Body(h)[m] = One(h[m - 1], m)
  <2>1. Body(h)[0] = ids
    BY <1>1 DEF Body
  <2>2. ASSUME NEW m \in 1..n
        PROVE  Body(h)[m] = One(h[m - 1], m)
    <3>1. m \in 0..n /\ m # 0
      BY <1>1
    <3> QED
      BY <3>1 DEF Body, One
  <2> QED
    BY <2>1, <2>2
<1>8. g = Body(g)
  <2>1. Body(g) = [m \in 0..n |-> Body(g)[m]]
    BY DEF Body
  <2>2. g = [m \in 0..n |-> g[m]]
    OBVIOUS
  <2>3. ASSUME NEW m \in 0..n
        PROVE  Body(g)[m] = g[m]
    <3>1. CASE m = 0
      BY <1>6, <1>7, <3>1
    <3>2. CASE m \in 1..n
      BY <1>5, <1>7, <3>2
    <3> QED
      BY <1>1, <3>1, <3>2
  <2> QED
    BY <2>1, <2>2, <2>3
<1>9. at = Body(at)
  BY <1>8 DEF at
<1>10. at[0] = ids /\ \A m \in 1..n : at[m] = One(at[m - 1], m)
  BY <1>7, <1>9
<1>11. n \in {m \in 0..n : at[m] \in A}
  <2> DEFINE S == {m \in 0..n : at[m] \in A}
  <2>1. 0 \in S
    BY <1>1, <1>10
  <2>2. ASSUME NEW m \in 1..n, m - 1 \in S
        PROVE  m \in S
    BY <1>1, <1>2, <1>10, <2>2
  <2> HIDE DEF S
  <2>3. 0..n \subseteq S
    BY <1>1, <2>1, <2>2, InductionUpTo
  <2> QED
    BY <1>1, <2>3 DEF S
<1>12. Queued(ids, walk) = at[n]
  BY DEF Queued, at, Body, n
<1> QED
  BY <1>11, <1>12 DEF A

\* A walk is a sequence of resources.
LEMMA WalkTyped ==
  ASSUME NEW deps \in [Resource -> SUBSET Resource], NEW r \in Resource, NEW walk \in Walks(deps, r)
  PROVE  walk \in Seq(Resource)
<1> DEFINE others == Reached(deps, r) \ {r}
<1>1. others \subseteq Resource
  BY DEF Reached
<1>2. Cardinality(others) \in Nat
  <2>1. IsFiniteSet(others)
    BY <1>1, MaterializerAssumption, FS_Subset
  <2> HIDE DEF others
  <2> QED
    BY <2>1, FS_CardinalityType
<1>3. PICK s \in SetToSeqs(others) : walk = <<r>> \o s
  BY DEF Walks
<1>4. s \in [1..Cardinality(others) -> others]
  BY DEF SetToSeqs
<1> HIDE DEF others
<1>5. s \in Seq(Resource)
  BY <1>1, <1>2, <1>4
<1> QED
  BY <1>3, <1>5

\* The invalidation of a resource clears what it reaches.
LEMMA InvalidatedClears ==
  ASSUME NEW s \in Projected, NEW r \in Resource, NEW t \in Invalidated(s, r)
  PROVE  t \in Projected /\ Cleared(s, t, Reached(s.deps, r))
<1> DEFINE reached == Reached(s.deps, r)
           newCache == [x \in Resource |-> IF x \in reached THEN NoSlot ELSE s.cache[x]]
           newRows == [x \in Resource |-> IF x \in reached /\ s.rows[x] # NoRow
                                            THEN [s.rows[x] EXCEPT !.stale = TRUE]
                                            ELSE s.rows[x]]
<1>1. /\ s.rows \in [Resource -> Row \cup {NoRow}]
      /\ s.cache \in [Resource -> Slot \cup {NoSlot}]
      /\ s.deps \in [Resource -> SUBSET Resource]
      /\ s.queue \in Seq(Resource) /\ Unique(s.queue)
  BY DEF Projected
<1>2. PICK walk \in Walks(s.deps, r) :
        t = [s EXCEPT !.cache = newCache, !.rows = newRows, !.queue = Queued(s.queue, walk)]
  BY DEF Invalidated
<1>3. t = [rows |-> newRows, cache |-> newCache, deps |-> s.deps, queue |-> Queued(s.queue, walk)]
  BY <1>2 DEF Projected
<1>4. Queued(s.queue, walk) \in Seq(Resource) /\ Unique(Queued(s.queue, walk))
  BY <1>1, WalkTyped, QueuedOnce
<1>5. newCache \in [Resource -> Slot \cup {NoSlot}]
  BY <1>1
<1>6. ASSUME NEW x \in Resource
      PROVE  /\ newRows[x] \in Row \cup {NoRow}
             /\ x \in reached => newRows[x] = NoRow \/ newRows[x].stale
             /\ x \notin reached => newRows[x] = s.rows[x]
  <2>1. s.rows[x] \in Row \cup {NoRow}
    BY <1>1
  <2>2. CASE x \in reached /\ s.rows[x] # NoRow
    <3>1. s.rows[x] \in Row /\ newRows[x] = [s.rows[x] EXCEPT !.stale = TRUE]
      BY <2>1, <2>2
    <3>2. newRows[x] \in Row /\ newRows[x].stale
      BY <3>1 DEF Row
    <3> QED
      BY <2>2, <3>2
  <2>3. CASE ~ (x \in reached /\ s.rows[x] # NoRow)
    <3>1. newRows[x] = s.rows[x]
      BY <2>3
    <3> QED
      BY <2>1, <2>3, <3>1
  <2> QED
    BY <2>2, <2>3
<1>7. newRows \in [Resource -> Row \cup {NoRow}]
  BY <1>6
<1>8. \A x \in Resource : newCache[x] = IF x \in reached THEN NoSlot ELSE s.cache[x]
  OBVIOUS
<1>9. reached \subseteq Resource
  BY DEF Reached
<1> HIDE DEF newCache, newRows, reached
<1>10. t \in Projected
  BY <1>1, <1>3, <1>4, <1>5, <1>7 DEF Projected
<1>11. Cleared(s, t, reached)
  BY <1>3, <1>6, <1>8, <1>9 DEF Cleared
<1> QED
  BY <1>10, <1>11 DEF reached

\* Some closed set that has the first n of these resources was cleared.
Wiped(s, t, ids, n) ==
  \E R \in SUBSET Resource :
    /\ Closed(s.deps, R)
    /\ \A i \in 1..n : ids[i] \in R
    /\ Cleared(s, t, R)

\* One more resource, and what it reaches.
LEMMA WipedFurther ==
  ASSUME NEW s \in Projected, NEW u \in Projected, NEW ids \in Seq(Resource), NEW n \in 1..Len(ids),
         Wiped(s, u, ids, n - 1), NEW t \in Invalidated(u, ids[n])
  PROVE  t \in Projected /\ Wiped(s, t, ids, n)
<1>1. PICK R \in SUBSET Resource :
        Closed(s.deps, R) /\ (\A i \in 1..(n - 1) : ids[i] \in R) /\ Cleared(s, u, R)
  BY DEF Wiped
<1>2. ids[n] \in Resource
  OBVIOUS
<1>3. PICK Q : Q = Reached(s.deps, ids[n])
  OBVIOUS
<1>4. u.deps = s.deps /\ s.deps \in [Resource -> SUBSET Resource]
  BY <1>1 DEF Cleared, Projected
<1>5. t \in Projected /\ Cleared(u, t, Q)
  BY <1>2, <1>3, <1>4, InvalidatedClears
<1>6. Closed(s.deps, Q) /\ ids[n] \in Q
  BY <1>2, <1>3, <1>4, ReachedClosed
<1>7. Closed(s.deps, R \cup Q) /\ R \cup Q \in SUBSET Resource
  BY <1>1, <1>6 DEF Closed
<1>8. ASSUME NEW i \in 1..n
      PROVE  ids[i] \in R \cup Q
  <2>1. i \in 1..(n - 1) \/ i = n
    OBVIOUS
  <2> QED
    BY <1>1, <1>6, <2>1
<1>9. Cleared(s, t, R \cup Q)
  <2>1. t.deps = s.deps
    BY <1>4, <1>5 DEF Cleared
  <2>2. ASSUME NEW x \in R \cup Q
        PROVE  t.cache[x] = NoSlot /\ (t.rows[x] = NoRow \/ t.rows[x].stale)
    <3>1. CASE x \in Q
      BY <1>5, <3>1 DEF Cleared
    <3>2. CASE x \notin Q
      <4>1. x \in R /\ x \in Resource
        BY <2>2, <3>2
      <4>2. t.cache[x] = u.cache[x] /\ t.rows[x] = u.rows[x]
        BY <1>5, <3>2, <4>1 DEF Cleared
      <4> QED
        BY <1>1, <4>1, <4>2 DEF Cleared
    <3> QED
      BY <3>1, <3>2
  <2>3. ASSUME NEW x \in Resource \ (R \cup Q)
        PROVE  t.cache[x] = s.cache[x] /\ t.rows[x] = s.rows[x]
    BY <1>1, <1>5, <2>3 DEF Cleared
  <2> QED
    BY <2>1, <2>2, <2>3 DEF Cleared
<1> QED
  BY <1>5, <1>7, <1>8, <1>9 DEF Wiped

\* The invalidation of several resources clears what they reach.
LEMMA InvalidatedAllWipes ==
  ASSUME NEW s \in Projected, NEW ids \in Seq(Resource), NEW t \in InvalidatedAll(s, ids)
  PROVE  t \in Projected /\ Wiped(s, t, ids, Len(ids))
<1> DEFINE A == {T \in SUBSET Projected : TRUE}
           n == Len(ids)
           All(T, m) == UNION {Invalidated(u, ids[m]) : u \in T}
           next == [p \in (1..n) \X A |-> All(p[2], p[1])]
           Body(g) == [m \in 0..n |-> IF m = 0 THEN {s} ELSE UNION {Invalidated(u, ids[m]) : u \in g[m - 1]}]
           at == CHOOSE g : g = Body(g)
<1>1. n \in Nat /\ {s} \in A
  OBVIOUS
<1>2. ASSUME NEW m \in 1..n, NEW T \in A
      PROVE  All(T, m) \in A
  <2>1. ids[m] \in Resource
    OBVIOUS
  <2>2. ASSUME NEW u \in T
        PROVE  Invalidated(u, ids[m]) \subseteq Projected
    <3>1. u \in Projected
      OBVIOUS
    <3> QED
      BY <2>1, <3>1, InvalidatedClears
  <2> QED
    BY <2>2
<1>3. \A T \in A : T \subseteq Projected
  OBVIOUS
<1> HIDE DEF A, n, All
<1>4. next \in [(1..n) \X A -> A]
  <2>1. ASSUME NEW p \in (1..n) \X A
        PROVE  All(p[2], p[1]) \in A
    BY <1>2
  <2> QED
    BY <2>1
<1> HIDE DEF Body, at
<1>5. PICK g \in [0..n -> A] : Steps(g, n, {s}, next)
  <2> HIDE DEF next
  <2> QED
    BY <1>1, <1>4, StepsExist
<1>6. ASSUME NEW m \in 1..n
      PROVE  g[m] = All(g[m - 1], m)
  <2>1. g[m - 1] \in A /\ <<m, g[m - 1]>> \in (1..n) \X A
    BY <1>1
  <2>2. g[m] = next[<<m, g[m - 1]>>]
    BY <1>5 DEF Steps
  <2> QED
    BY <2>1, <2>2
<1>7. g[0] = {s}
  BY <1>5 DEF Steps
<1> HIDE DEF next
<1>8. ASSUME NEW h
      PROVE  Body(h)[0] = {s} /\ \A m \in 1..n : Body(h)[m] = All(h[m - 1], m)
  <2>1. Body(h)[0] = {s}
    BY <1>1 DEF Body
  <2>2. ASSUME NEW m \in 1..n
        PROVE  Body(h)[m] = All(h[m - 1], m)
    <3>1. m \in 0..n /\ m # 0
      BY <1>1
    <3> QED
      BY <3>1 DEF Body, All
  <2> QED
    BY <2>1, <2>2
<1>9. g = Body(g)
  <2>1. Body(g) = [m \in 0..n |-> Body(g)[m]]
    BY DEF Body
  <2>2. g = [m \in 0..n |-> g[m]]
    OBVIOUS
  <2>3. ASSUME NEW m \in 0..n
        PROVE  Body(g)[m] = g[m]
    <3>1. CASE m = 0
      BY <1>7, <1>8, <3>1
    <3>2. CASE m \in 1..n
      BY <1>6, <1>8, <3>2
    <3> QED
      BY <1>1, <3>1, <3>2
  <2> QED
    BY <2>1, <2>2, <2>3
<1>10. at = Body(at)
  BY <1>9 DEF at
<1>11. at[0] = {s} /\ \A m \in 1..n : at[m] = All(at[m - 1], m)
  BY <1>8, <1>10
<1> DEFINE P(m) == \A u \in at[m] : u \in Projected /\ Wiped(s, u, ids, m)
           S == {m \in 0..n : P(m)}
<1>12. 0 \in S
  <2>1. Closed(s.deps, {}) /\ Cleared(s, s, {})
    BY DEF Closed, Cleared
  <2>2. Wiped(s, s, ids, 0)
    BY <2>1 DEF Wiped
  <2> QED
    BY <1>1, <1>11, <2>2
<1>13. ASSUME NEW m \in 1..n, m - 1 \in S
       PROVE  m \in S
  <2>1. ASSUME NEW v \in at[m]
        PROVE  v \in Projected /\ Wiped(s, v, ids, m)
    <3>1. PICK u \in at[m - 1] : v \in Invalidated(u, ids[m])
      BY <1>11, <2>1 DEF All
    <3>2. u \in Projected /\ Wiped(s, u, ids, m - 1)
      BY <1>13, <3>1
    <3>3. m \in 1..Len(ids)
      BY DEF n
    <3> QED
      BY <3>1, <3>2, <3>3, WipedFurther
  <2>2. m \in 0..n
    BY <1>1
  <2> QED
    BY <2>1, <2>2
<1> HIDE DEF S
<1>14. 0..n \subseteq S
  BY <1>1, <1>12, <1>13, InductionUpTo
<1>15. InvalidatedAll(s, ids) = at[n]
  BY DEF InvalidatedAll, at, Body, n
<1>16. P(n)
  BY <1>1, <1>14 DEF S
<1> QED
  BY <1>15, <1>16 DEF n

-----------------------------------------------------------------------------
(* What was not cleared keeps following the links.                          *)

\* Outside of R nothing is merged away, and a link that does not lead into R stays.
LinksKept(canon1, L1, canon2, L2, R) ==
  \A y \in Resource \ R :
    /\ canon1[y] = y => canon2[y] = y
    /\ L1[y].to = NoResource \/ L1[y].to \notin R => L2[y] = L1[y]

\* The walks from outside of R whose edges are among these are the same.
SameWalks(w1, w2, R, E) ==
  \A k \in 0..(MaxDepth + 1) : \A y \in Resource \ R : \A stack \in SUBSET Resource :
    w1[k][<<y, stack>>].edges \subseteq E => w2[k][<<y, stack>>] = w1[k][<<y, stack>>]

\* A walk whose edges are among the dependents does not come upon what they reach.
LEMMA SameWalk ==
  ASSUME NEW canon1, NEW L1, World(canon1, L1), NEW canon2, NEW L2, World(canon2, L2),
         NEW w1, IsWalk(L1, w1), NEW w2, IsWalk(L2, w2),
         NEW deps \in [Resource -> SUBSET Resource], NEW R, Closed(deps, R),
         LinksKept(canon1, L1, canon2, L2, R)
  PROVE  SameWalks(w1, w2, R, Edges(deps))
<1> DEFINE P(k) == \A y \in Resource \ R : \A stack \in SUBSET Resource :
                     w1[k][<<y, stack>>].edges \subseteq Edges(deps) => w2[k][<<y, stack>>] = w1[k][<<y, stack>>]
           S == {k \in 0..(MaxDepth + 1) : P(k)}
<1>1. MaxDepth + 1 \in Nat
  BY MaterializerAssumption
<1>2. 0 \in S
  <2>1. w1[0] = w2[0]
    BY DEF IsWalk
  <2> QED
    BY <1>1, <2>1
<1>3. ASSUME NEW k \in 1..(MaxDepth + 1), k - 1 \in S
      PROVE  k \in S
  <2>1. ASSUME NEW y \in Resource \ R, NEW stack \in SUBSET Resource,
               w1[k][<<y, stack>>].edges \subseteq Edges(deps)
        PROVE  w2[k][<<y, stack>>] = w1[k][<<y, stack>>]
    <3>1. <<y, stack>> \in Places
      BY DEF Places
    <3>2. w1[k] = OneHopMore(L1, w1[k - 1]) /\ w2[k] = OneHopMore(L2, w2[k - 1])
      BY DEF IsWalk
    <3>3. CASE y \in stack
      BY <3>1, <3>2, <3>3 DEF OneHopMore
    <3>4. CASE y \notin stack /\ L1[y].to = NoResource
      <4>1. L2[y] = L1[y]
        BY <3>4 DEF LinksKept
      <4> QED
        BY <3>1, <3>2, <3>4, <4>1 DEF OneHopMore
    <3>5. CASE y \notin stack /\ L1[y].to # NoResource
      <4> DEFINE to == L1[y].to
                 further == stack \cup {y}
      <4>1. w1[k][<<y, stack>>] = Onward(L1[y], y, w1[k - 1][<<to, further>>])
        BY <3>1, <3>2, <3>5 DEF OneHopMore
      <4>2. to \in Resource /\ further \in SUBSET Resource
        BY <3>5 DEF World
      <4>3. <<to, y>> \in Edges(deps) /\ w1[k - 1][<<to, further>>].edges \subseteq Edges(deps)
        <5>1. PICK inner : inner = w1[k - 1][<<to, further>>]
          OBVIOUS
        <5>2. Onward(L1[y], y, inner).edges = inner.edges \cup {<<to, y>>}
          BY DEF Onward
        <5>3. inner.edges \cup {<<to, y>>} \subseteq Edges(deps)
          <6> HIDE DEF to, further
          <6> QED
            BY <2>1, <4>1, <5>1, <5>2
        <5> QED
          BY <5>1, <5>3
      <4>4. y \in deps[to]
        BY <4>3 DEF Edges
      <4>5. to \notin R
        BY <4>4 DEF Closed
      <4>6. L2[y] = L1[y]
        BY <4>5 DEF LinksKept
      <4>7. w2[k - 1][<<to, further>>] = w1[k - 1][<<to, further>>]
        <5>1. P(k - 1)
          BY <1>3
        <5> HIDE DEF to, further
        <5> QED
          BY <4>2, <4>3, <4>5, <5>1
      <4>8. w2[k][<<y, stack>>] = Onward(L1[y], y, w2[k - 1][<<to, further>>])
        BY <3>1, <3>2, <3>5, <4>6 DEF OneHopMore
      <4> QED
        BY <4>1, <4>7, <4>8
    <3> QED
      BY <3>3, <3>4, <3>5
  <2> QED
    BY <1>1, <2>1
<1> HIDE DEF S
<1>4. 0..(MaxDepth + 1) \subseteq S
  BY <1>1, <1>2, <1>3, InductionUpTo
<1> QED
  BY <1>4 DEF S, SameWalks

\* The cache and the rows of a projection follow the links.
ProjectionFollows(canon, L, s) ==
  CacheFollows(L, s.cache, Edges(s.deps)) /\ RowsFollow(canon, L, s.rows, Edges(s.deps))

\* The cache and the rows that are left follow the links that are left.
LEMMA ClearedFollows ==
  ASSUME NEW canon1, NEW L1, World(canon1, L1), NEW canon2, NEW L2, World(canon2, L2),
         NEW s \in Projected, NEW t \in Projected, NEW R, Closed(s.deps, R), Cleared(s, t, R),
         LinksKept(canon1, L1, canon2, L2, R), ProjectionFollows(canon1, L1, s)
  PROVE  ProjectionFollows(canon2, L2, t)
<1> DEFINE E == Edges(s.deps)
<1>1. s.deps \in [Resource -> SUBSET Resource] /\ t.deps = s.deps
  BY DEF Projected, Cleared
<1>2. CacheFollows(L2, t.cache, E)
  <2>1. PICK rank \in [Resource -> Nat] : Ranked(L1, s.cache, E, rank)
    BY DEF ProjectionFollows, CacheFollows
  <2>2. ASSUME NEW x \in Resource, t.cache[x] # NoSlot
        PROVE  /\ ~ PathDependent(t.cache[x].time)
               /\ L2[x].to = NoResource => t.cache[x].time = L2[x].time
               /\ L2[x].to # NoResource =>
                    /\ t.cache[L2[x].to] # NoSlot
                    /\ t.cache[x].time = After(L2[x].anchor, t.cache[L2[x].to].time)
                    /\ <<L2[x].to, x>> \in E
                    /\ rank[L2[x].to] < rank[x]
    <3>1. x \notin R /\ t.cache[x] = s.cache[x]
      BY <2>2 DEF Cleared
    <3>2. CASE L1[x].to = NoResource
      <4>1. L2[x] = L1[x]
        BY <3>1, <3>2 DEF LinksKept
      <4> QED
        BY <2>1, <2>2, <3>1, <3>2, <4>1 DEF Ranked
    <3>3. CASE L1[x].to # NoResource
      <4>1. /\ ~ PathDependent(s.cache[x].time)
            /\ s.cache[L1[x].to] # NoSlot
            /\ s.cache[x].time = After(L1[x].anchor, s.cache[L1[x].to].time)
            /\ <<L1[x].to, x>> \in E
            /\ rank[L1[x].to] < rank[x]
        BY <2>1, <2>2, <3>1, <3>3 DEF Ranked
      <4>2. L1[x].to \in Resource /\ x \in s.deps[L1[x].to]
        BY <4>1 DEF Edges, Pairs
      <4>3. L1[x].to \notin R
        BY <3>1, <4>2 DEF Closed
      <4>4. L2[x] = L1[x]
        BY <3>1, <4>3 DEF LinksKept
      <4>5. t.cache[L1[x].to] = s.cache[L1[x].to]
        BY <4>2, <4>3 DEF Cleared
      <4> QED
        BY <3>1, <3>3, <4>1, <4>4, <4>5
    <3> QED
      BY <3>2, <3>3
  <2>3. Ranked(L2, t.cache, E, rank)
    BY <2>2 DEF Ranked
  <2> QED
    BY <2>3 DEF CacheFollows
<1>3. RowsFollow(canon2, L2, t.rows, E)
  <2>1. IsWalk(L1, Walk(L1)) /\ IsWalk(L2, Walk(L2))
    BY WalkExists
  <2>2. ASSUME NEW x \in Resource, t.rows[x] # NoRow, ~ t.rows[x].stale
        PROVE  /\ canon2[x] = x
               /\ WalkFrom(L2, x).edges \subseteq E
               /\ t.rows[x].time = WalkFrom(L2, x).time \/ WalkFrom(L2, x).time.kind = "depth_exceeded"
    <3>1. x \notin R
      BY <2>2 DEF Cleared
    <3>2. t.rows[x] = s.rows[x]
      BY <3>1 DEF Cleared
    <3>3. /\ canon1[x] = x
          /\ WalkFrom(L1, x).edges \subseteq E
          /\ s.rows[x].time = WalkFrom(L1, x).time \/ WalkFrom(L1, x).time.kind = "depth_exceeded"
      BY <2>2, <3>2 DEF ProjectionFollows, RowsFollow, RowFollows
    <3>4. WalkFrom(L2, x) = WalkFrom(L1, x)
      <4>1. MaxDepth + 1 \in 0..(MaxDepth + 1) /\ {} \in SUBSET Resource
        BY MaterializerAssumption
      <4>2. SameWalks(Walk(L1), Walk(L2), R, E)
        BY <1>1, <2>1, SameWalk
      <4>3. PICK n \in 0..(MaxDepth + 1) : n = MaxDepth + 1
        BY <4>1
      <4> HIDE DEF E
      <4>4. Walk(L1)[n][<<x, {}>>].edges \subseteq E => Walk(L2)[n][<<x, {}>>] = Walk(L1)[n][<<x, {}>>]
        BY <3>1, <4>1, <4>2 DEF SameWalks
      <4> QED
        BY <3>3, <4>3, <4>4 DEF WalkFrom
    <3> QED
      BY <3>1, <3>2, <3>3, <3>4 DEF LinksKept
  <2> QED
    BY <2>2 DEF RowsFollow, RowFollows
<1> QED
  BY <1>1, <1>2, <1>3 DEF ProjectionFollows

-----------------------------------------------------------------------------
(* The links that a commit leaves alone.                                    *)

\* The least of a set of positions is its Min.
LEMMA MinIs ==
  ASSUME NEW S, S \subseteq Nat, NEW m \in S, \A n \in S : m <= n
  PROVE  Min(S) = m
<1>1. Min(S) \in S /\ \A n \in S : Min(S) <= n
  BY FirstIs
<1>2. Min(S) <= m /\ m <= Min(S) /\ Min(S) \in Nat /\ m \in Nat
  BY <1>1
<1> QED
  BY <1>2

\* The sequence with one more element.
LEMMA Inserted ==
  ASSUME NEW A, NEW s \in Seq(A), NEW i \in 1..(Len(s) + 1), NEW e \in A
  PROVE  /\ InsertAt(s, i, e) \in Seq(A)
         /\ Len(InsertAt(s, i, e)) = Len(s) + 1
         /\ InsertAt(s, i, e)[i] = e
         /\ \A n \in 1..Len(s) : InsertAt(s, i, e)[IF n < i THEN n ELSE n + 1] = s[n]
<1> DEFINE before == SubSeq(s, 1, i - 1)
           after == SubSeq(s, i, Len(s))
           t == InsertAt(s, i, e)
<1>1. /\ before \in Seq(A) /\ Len(before) = i - 1
      /\ \A n \in 1..(i - 1) : before[n] = s[n]
  OBVIOUS
<1>2. /\ after \in Seq(A) /\ Len(after) = Len(s) - i + 1
      /\ \A n \in 1..(Len(s) - i + 1) : after[n] = s[n + i - 1]
  OBVIOUS
<1>3. t = before \o <<e>> \o after
  BY DEF InsertAt
<1> HIDE DEF before, after, t
<1>4. PICK one \in Seq(A) : one = <<e>>
  <2>1. PICK none \in Seq(A) : none = <<>>
    BY EmptySeq
  <2>2. Append(none, e) \in Seq(A)
    OBVIOUS
  <2>3. Append(none, e) = <<e>>
    BY <2>1
  <2> QED
    BY <2>2, <2>3
<1>5. PICK u \in Seq(A) : u = before \o one
  BY <1>1, ConcatProperties
<1>6. /\ Len(u) = i /\ u[i] = e
      /\ \A n \in 1..(i - 1) : u[n] = before[n]
  <2>1. Len(one) = 1 /\ one[1] = e
    BY <1>4
  <2>2. /\ Len(u) = Len(before) + Len(one)
        /\ \A n \in 1..(Len(before) + Len(one)) :
             u[n] = IF n <= Len(before) THEN before[n] ELSE one[n - Len(before)]
    BY <1>1, <1>5, ConcatProperties
  <2> QED
    BY <1>1, <2>1, <2>2
<1>7. t = u \o after
  BY <1>3, <1>4, <1>5
<1>8. /\ t \in Seq(A) /\ Len(t) = Len(s) + 1
      /\ \A n \in 1..i : t[n] = u[n]
      /\ \A n \in 1..(Len(s) - i + 1) : t[i + n] = after[n]
  BY <1>2, <1>6, <1>7
<1>9. ASSUME NEW n \in 1..Len(s)
      PROVE  t[IF n < i THEN n ELSE n + 1] = s[n]
  <2>1. CASE n < i
    <3>1. n \in 1..i /\ n \in 1..(i - 1)
      BY <2>1
    <3> QED
      BY <1>1, <1>6, <1>8, <2>1, <3>1
  <2>2. CASE ~ (n < i)
    <3>1. PICK m \in 1..(Len(s) - i + 1) : m = n - i + 1
      BY <2>2
    <3>2. t[i + m] = after[m] /\ after[m] = s[m + i - 1]
      BY <1>2, <1>8
    <3>3. i + m = n + 1 /\ m + i - 1 = n
      BY <3>1
    <3> QED
      BY <2>2, <3>2, <3>3
  <2> QED
    BY <2>1, <2>2
<1>10. t[i] = e
  BY <1>6, <1>8
<1> QED
  BY <1>8, <1>9, <1>10 DEF t

\* The same claims about a resource, in the same order, make the same link.
LEMMA SameFirst ==
  ASSUME NEW canon \in [Resource -> Resource], NEW cs \in Seq(Claim), NEW ds \in Seq(Claim),
         NEW y \in Resource, NEW place \in [1..Len(cs) -> 1..Len(ds)],
         \A n \in About(canon, cs, y) : place[n] \in About(canon, ds, y) /\ ds[place[n]].expr = cs[n].expr,
         \A k \in About(canon, ds, y) : \E n \in About(canon, cs, y) : place[n] = k,
         \A n, m \in About(canon, cs, y) : n <= m => place[n] <= place[m]
  PROVE  LinksOf(canon, ds)[y] = LinksOf(canon, cs)[y]
<1>1. About(canon, cs, y) \subseteq Nat /\ About(canon, ds, y) \subseteq Nat
  BY DEF About
<1>2. About(canon, cs, y) = {} <=> About(canon, ds, y) = {}
  OBVIOUS
<1>3. CASE canon[y] # y \/ About(canon, cs, y) = {}
  BY <1>2, <1>3 DEF LinksOf
<1>4. CASE ~ (canon[y] # y \/ About(canon, cs, y) = {})
  <2>1. PICK first : first = Min(About(canon, cs, y))
    OBVIOUS
  <2>2. first \in About(canon, cs, y) /\ \A n \in About(canon, cs, y) : first <= n
    BY <1>1, <1>4, <2>1, FirstIs
  <2>3. \A k \in About(canon, ds, y) : place[first] <= k
    BY <2>2
  <2>4. Min(About(canon, ds, y)) = place[first]
    BY <1>1, <2>2, <2>3, MinIs
  <2>5. LinksOf(canon, cs)[y] = LinkBy(canon, cs[first].expr)
    BY <1>4, <2>1 DEF LinksOf
  <2>6. LinksOf(canon, ds)[y] = LinkBy(canon, ds[place[first]].expr)
    BY <1>2, <1>4, <2>4 DEF LinksOf
  <2> QED
    BY <2>2, <2>5, <2>6
<1> QED
  BY <1>3, <1>4

\* A new claim changes the link of its subject only.
LEMMA InsertLinks ==
  ASSUME NEW canon \in [Resource -> Resource], NEW cs \in Seq(Claim), NEW i \in 1..(Len(cs) + 1),
         NEW e \in Claim, NEW R, canon[e.subject] \in R
  PROVE  LinksKept(canon, LinksOf(canon, cs), canon, LinksOf(canon, InsertAt(cs, i, e)), R)
<1> DEFINE ds == InsertAt(cs, i, e)
<1>1. /\ ds \in Seq(Claim) /\ Len(ds) = Len(cs) + 1 /\ ds[i] = e
      /\ \A n \in 1..Len(cs) : ds[IF n < i THEN n ELSE n + 1] = cs[n]
  BY Inserted
<1> HIDE DEF ds
<1>2. ASSUME NEW y \in Resource \ R
      PROVE  LinksOf(canon, ds)[y] = LinksOf(canon, cs)[y]
  <2> DEFINE place == [n \in 1..Len(cs) |-> IF n < i THEN n ELSE n + 1]
  <2>1. place \in [1..Len(cs) -> 1..Len(ds)]
    BY <1>1
  <2>2. \A n \in 1..Len(cs) : ds[place[n]] = cs[n]
    BY <1>1
  <2>3. \A n, m \in 1..Len(cs) : n <= m => place[n] <= place[m]
    OBVIOUS
  <2>4. ASSUME NEW k \in 1..Len(ds), k # i
        PROVE  \E n \in 1..Len(cs) : place[n] = k
    <3>1. CASE k < i
      <4>1. k \in 1..Len(cs) /\ place[k] = k
        BY <1>1, <3>1
      <4> QED
        BY <4>1
    <3>2. CASE i < k
      <4>1. k - 1 \in 1..Len(cs) /\ place[k - 1] = k
        BY <1>1, <3>2
      <4> QED
        BY <4>1
    <3> QED
      BY <2>4, <3>1, <3>2
  <2> HIDE DEF place
  <2>5. i \notin About(canon, ds, y)
    BY <1>1, <1>2 DEF About
  <2>6. \A n \in About(canon, cs, y) : place[n] \in About(canon, ds, y) /\ ds[place[n]].expr = cs[n].expr
    BY <2>1, <2>2 DEF About
  <2>7. \A k \in About(canon, ds, y) : \E n \in About(canon, cs, y) : place[n] = k
    <3>1. ASSUME NEW k \in About(canon, ds, y)
          PROVE  \E n \in About(canon, cs, y) : place[n] = k
      <4>1. k \in 1..Len(ds) /\ k # i /\ ds[k].live /\ canon[ds[k].subject] = y
        BY <2>5 DEF About
      <4>2. PICK n \in 1..Len(cs) : place[n] = k
        BY <2>4, <4>1
      <4>3. n \in About(canon, cs, y)
        BY <2>2, <4>1, <4>2 DEF About
      <4> QED
        BY <4>2, <4>3
    <3> QED
      BY <3>1
  <2>8. \A n, m \in About(canon, cs, y) : n <= m => place[n] <= place[m]
    BY <2>3 DEF About
  <2> QED
    BY <1>1, <2>1, <2>6, <2>7, <2>8, SameFirst
<1> QED
  BY <1>2 DEF LinksKept, ds

\* The retraction of a claim changes the link of its subject only.
LEMMA RetractLinks ==
  ASSUME NEW canon \in [Resource -> Resource], NEW cs \in Seq(Claim), NEW n \in 1..Len(cs),
         NEW R, canon[cs[n].subject] \in R
  PROVE  LinksKept(canon, LinksOf(canon, cs), canon, LinksOf(canon, [cs EXCEPT ![n].live = FALSE]), R)
<1> DEFINE ds == [cs EXCEPT ![n].live = FALSE]
<1>1. cs[n] \in Claim
  OBVIOUS
<1>2. /\ Len(ds) = Len(cs)
      /\ \A m \in 1..Len(cs) : m # n => ds[m] = cs[m]
      /\ ds[n].subject = cs[n].subject
  BY <1>1 DEF Claim
<1> HIDE DEF ds
<1>3. ASSUME NEW y \in Resource \ R
      PROVE  LinksOf(canon, ds)[y] = LinksOf(canon, cs)[y]
  <2>1. n \notin About(canon, cs, y) /\ n \notin About(canon, ds, y)
    BY <1>2, <1>3 DEF About
  <2>2. About(canon, ds, y) = About(canon, cs, y)
    BY <1>2, <2>1 DEF About
  <2>3. CASE canon[y] # y \/ About(canon, cs, y) = {}
    BY <2>2, <2>3 DEF LinksOf
  <2>4. CASE ~ (canon[y] # y \/ About(canon, cs, y) = {})
    <3>1. PICK first : first = Min(About(canon, cs, y))
      OBVIOUS
    <3>2. first \in About(canon, cs, y)
      <4>1. About(canon, cs, y) \subseteq Nat
        BY DEF About
      <4> QED
        BY <2>4, <3>1, <4>1, FirstIs
    <3>3. first \in 1..Len(cs) /\ first # n
      BY <2>1, <3>2 DEF About
    <3>4. ds[first] = cs[first]
      BY <1>2, <3>3
    <3> QED
      BY <2>2, <2>4, <3>1, <3>4 DEF LinksOf
  <2> QED
    BY <2>3, <2>4
<1> QED
  BY <1>3 DEF LinksKept, ds

\* A merge changes the links of the two and those that lead to what is merged.
LEMMA MergeLinks ==
  ASSUME NEW canon \in [Resource -> Resource], NEW cs \in Seq(Claim),
         NEW from \in Resource, NEW into \in Resource, from # into,
         NEW R, from \in R, into \in R
  PROVE  LinksKept(canon, LinksOf(canon, cs),
                   MergedRoot(canon, from, into), LinksOf(MergedRoot(canon, from, into), cs), R)
<1> DEFINE merged == MergedRoot(canon, from, into)
<1>1. \A r \in Resource : merged[r] = IF canon[r] = from THEN into ELSE canon[r]
  BY DEF MergedRoot
<1> HIDE DEF merged
<1>2. ASSUME NEW y \in Resource \ R
      PROVE  /\ canon[y] = y => merged[y] = y
             /\ LinksOf(canon, cs)[y].to = NoResource \/ LinksOf(canon, cs)[y].to \notin R
                  => LinksOf(merged, cs)[y] = LinksOf(canon, cs)[y]
  <2>1. y # from /\ y # into
    OBVIOUS
  <2>2. \A r \in Resource : merged[r] = y <=> canon[r] = y
    BY <1>1, <2>1
  <2>3. About(merged, cs, y) = About(canon, cs, y)
    <3>1. ASSUME NEW n \in 1..Len(cs)
          PROVE  merged[cs[n].subject] = y <=> canon[cs[n].subject] = y
      <4>1. cs[n] \in Claim
        OBVIOUS
      <4>2. cs[n].subject \in Resource
        BY <4>1 DEF Claim
      <4> QED
        BY <2>2, <4>2
    <3> QED
      BY <3>1 DEF About
  <2>4. CASE canon[y] # y \/ About(canon, cs, y) = {}
    BY <2>2, <2>3, <2>4 DEF LinksOf
  <2>5. CASE ~ (canon[y] # y \/ About(canon, cs, y) = {})
    <3>1. PICK first : first = Min(About(canon, cs, y))
      OBVIOUS
    <3>2. first \in 1..Len(cs)
      <4>1. About(canon, cs, y) \subseteq Nat
        BY DEF About
      <4>2. first \in About(canon, cs, y)
        BY <2>5, <3>1, <4>1, FirstIs
      <4> QED
        BY <4>2 DEF About
    <3>3. PICK expr \in Expression : expr = cs[first].expr
      <4>1. cs[first] \in Claim
        BY <3>2
      <4> QED
        BY <4>1 DEF Claim
    <3>4. LinksOf(canon, cs)[y] = LinkBy(canon, expr)
      BY <2>5, <3>1, <3>3 DEF LinksOf
    <3>5. LinksOf(merged, cs)[y] = LinkBy(merged, expr)
      BY <2>2, <2>3, <2>5, <3>1, <3>3 DEF LinksOf
    <3>6. CASE expr.kind = "absolute"
      BY <2>2, <2>5, <3>4, <3>5, <3>6 DEF LinkBy
    <3>7. CASE expr.kind # "absolute"
      <4>1. expr.anchor \in Resource
        BY <3>7 DEF Expression
      <4>2. LinksOf(canon, cs)[y].to = canon[expr.anchor]
        BY <3>4, <3>7 DEF LinkBy
      <4>3. canon[expr.anchor] # NoResource
        BY <4>1, IdentityAssumption
      <4>4. ASSUME LinksOf(canon, cs)[y].to \notin R
            PROVE  merged[expr.anchor] = canon[expr.anchor]
        BY <1>1, <4>1, <4>2, <4>4
      <4> QED
        BY <2>2, <2>5, <3>4, <3>5, <3>7, <4>2, <4>3, <4>4 DEF LinkBy
    <3> QED
      BY <3>6, <3>7
  <2> QED
    BY <2>2, <2>4, <2>5
<1> QED
  BY <1>2 DEF LinksKept, merged

-----------------------------------------------------------------------------
(* The steps.                                                               *)

\* A set of resources in some order.
LEMMA OrderedTyped ==
  ASSUME NEW S, S \subseteq Resource, NEW ids \in SetToSeqs(S)
  PROVE  ids \in Seq(Resource)
<1>1. Cardinality(S) \in Nat
  <2>1. IsFiniteSet(S)
    BY MaterializerAssumption, FS_Subset
  <2> QED
    BY <2>1, FS_CardinalityType
<1>2. ids \in [1..Cardinality(S) -> S]
  BY DEF SetToSeqs
<1> QED
  BY <1>1, <1>2

\* All resources in some order, each once.
LEMMA AllTyped ==
  SetToSeq(Resource) \in Seq(Resource) /\ Unique(SetToSeq(Resource))
<1>1. PICK n \in Nat : n = Cardinality(Resource)
  BY MaterializerAssumption, FS_CardinalityType
<1>2. PICK m \in Nat : ExistsBijection(1..m, Resource)
  BY MaterializerAssumption, FS_NatBijection
<1>3. m = n
  BY <1>1, <1>2, FS_CountingElements
<1>4. \E f \in [1..n -> Resource] : IsInjective(f)
  <2>1. PICK f \in [1..n -> Resource] : \A i, j \in 1..n : f[i] = f[j] => i = j
    BY <1>2, <1>3 DEF ExistsBijection, Bijection, Injection, IsInjective
  <2> QED
    BY <2>1 DEF IsInjective
<1>5. PICK s \in [1..n -> Resource] : s = SetToSeq(Resource) /\ IsInjective(s)
  BY <1>1, <1>4 DEF SetToSeq
<1>6. Len(s) = n /\ s \in Seq(Resource)
  OBVIOUS
<1> QED
  BY <1>5, <1>6 DEF IsInjective, Unique

\* What the invariant says of the store and of the projection.
LEMMA InvGives ==
  ASSUME MaxProposals <= MaxHops, MaterializerInv
  PROVE  /\ Known /\ World(Canon, Links)
         /\ Projection \in Projected
         /\ MergesAsProposed => ProjectionFollows(Canon, Links, Projection)
<1>1. Known
  BY StoreKnown DEF MaterializerInv, Shape
<1>2. World(Canon, Links)
  BY <1>1, LinksTyped DEF Known, Links
<1>3. Projection \in Projected
  BY DEF MaterializerInv, Shape, Projection, Projected
<1>4. MergesAsProposed => ProjectionFollows(Canon, Links, Projection)
  BY DEF MaterializerInv, Follows, ProjectionFollows, Projection
<1> QED
  BY <1>1, <1>2, <1>3, <1>4

KnownThen == IdInv /\ claims \in Seq(Claim) => Known /\ World(Canon, Links)

\* What is known of the store after a step.
LEMMA KnownNext ==
  ASSUME MaxProposals <= MaxHops
  PROVE  KnownThen'
<1>1. KnownThen
  <2>1. ASSUME IdInv, claims \in Seq(Claim)
        PROVE  Known /\ World(Canon, Links)
    <3>1. Known
      BY <2>1, StoreKnown
    <3> QED
      BY <3>1, LinksTyped DEF Known, Links
  <2> QED
    BY <2>1 DEF KnownThen
<1> QED
  BY <1>1, PTL

\* In the same world every link stays.
LEMMA AllKept ==
  ASSUME NEW canon, NEW L, NEW R
  PROVE  LinksKept(canon, L, canon, L, R)
BY DEF LinksKept

\* The links that the invalidation of these does not concern stay.
Spares(canon1, L1, canon2, L2, ids) ==
  \A R \in SUBSET Resource :
    (\A i \in 1..Len(ids) : ids[i] \in R) => LinksKept(canon1, L1, canon2, L2, R)

\* After the invalidation of some resources the rest follows.
LEMMA WipedFollows ==
  ASSUME NEW canon1, NEW L1, World(canon1, L1), NEW canon2, NEW L2, World(canon2, L2),
         NEW s \in Projected, NEW ids \in Seq(Resource), Spares(canon1, L1, canon2, L2, ids),
         NEW t \in InvalidatedAll(s, ids), ProjectionFollows(canon1, L1, s)
  PROVE  ProjectionFollows(canon2, L2, t)
<1>1. t \in Projected /\ Wiped(s, t, ids, Len(ids))
  BY InvalidatedAllWipes
<1>2. PICK R \in SUBSET Resource :
        Closed(s.deps, R) /\ (\A i \in 1..Len(ids) : ids[i] \in R) /\ Cleared(s, t, R)
  BY <1>1 DEF Wiped
<1>3. LinksKept(canon1, L1, canon2, L2, R)
  BY <1>2 DEF Spares
<1> QED
  BY <1>1, <1>2, <1>3, ClearedFollows

\* A projection that is typed and follows makes the invariant of its step.
LEMMA StepFollows ==
  ASSUME MaterializerInv, IdInv', claims' \in Seq(Claim), ApprovedMerged',
         NEW st \in Projected, Becomes(st),
         NEW canon, canon = Canon', NEW L, L = Links',
         MergesAsProposed' => ProjectionFollows(canon, L, st)
  PROVE  MaterializerInv'
<1>1. Shape'
  BY DEF Becomes, Projected, Shape
<1>2. MergesAsProposed' => Follows'
  BY DEF Becomes, Follows, ProjectionFollows
<1> QED
  BY <1>1, <1>2 DEF MaterializerInv

\* A commit keeps the invariant if it spares the links that it does not concern.
LEMMA CommitKeeps ==
  ASSUME MaxProposals <= MaxHops, MaterializerInv, IdInv', claims' \in Seq(Claim), ApprovedMerged',
         NEW ids \in Seq(Resource), Invalidates(ids), MergesAsProposed' => MergesAsProposed,
         NEW canon, canon = Canon', NEW L, L = Links',
         MergesAsProposed' => Spares(Canon, Links, canon, L, ids)
  PROVE  MaterializerInv'
<1>1. PICK st \in InvalidatedAll(Projection, ids) : Becomes(st)
  BY DEF Invalidates
<1>2. Known /\ World(Canon, Links) /\ Projection \in Projected
  BY InvGives
<1>3. World(canon, L)
  BY KnownNext DEF KnownThen
<1>4. st \in Projected
  BY <1>2, InvalidatedAllWipes
<1>5. ASSUME MergesAsProposed'
      PROVE  ProjectionFollows(canon, L, st)
  <2>1. ProjectionFollows(Canon, Links, Projection)
    BY <1>5, InvGives
  <2>2. PICK canon1, L1, s : canon1 = Canon /\ L1 = Links /\ s = Projection
    OBVIOUS
  <2> QED
    BY <1>1, <1>2, <1>3, <1>5, <2>1, <2>2, WipedFollows
<1> QED
  BY <1>1, <1>4, <1>5, StepFollows

\* What is touched are resources.
LEMMA TouchedTyped ==
  ASSUME NEW canon \in [Resource -> Resource], canon = Canon', NEW r \in Resource
  PROVE  /\ Touched(r) \in Seq(Resource)
         /\ \E i \in 1..Len(Touched(r)) : Touched(r)[i] = r
         /\ \E i \in 1..Len(Touched(r)) : Touched(r)[i] = canon[r]
<1>1. Resolve(r)' = canon[r]
  BY DEF Canon
<1>2. CASE canon[r] = r
  <2>1. Touched(r) = <<r>>
    BY <1>1, <1>2 DEF Touched
  <2> QED
    BY <1>2, <2>1
<1>3. CASE canon[r] # r
  <2>1. Touched(r) = <<r, canon[r]>>
    BY <1>1, <1>3 DEF Touched
  <2> QED
    BY <2>1
<1> QED
  BY <1>2, <1>3

\* The identities stay when nothing about them changes.
LEMMA IdentityKept ==
  ASSUME MaxProposals <= MaxHops, MaterializerInv, UNCHANGED identityVars
  PROVE  /\ IdInv' /\ ApprovedMerged' /\ Canon' = Canon
         /\ MergesAsProposed' => MergesAsProposed
<1>1. UNCHANGED <<redirects, members, proposals>>
  BY DEF identityVars
<1>2. IdInv'
  <2>1. IdInv
    BY DEF MaterializerInv
  <2>2. IdentityTypeOK' /\ ApprovedOnes' = ApprovedOnes
    BY <1>1, <2>1 DEF IdInv, IdentityTypeOK, ApprovedOnes
  <2> QED
    BY <1>1, <2>1, <2>2, SameForest
<1>3. ApprovedMerged'
  BY <1>1 DEF MaterializerInv, ApprovedMerged, Merged
<1>4. Canon' = Canon
  <2>1. PICK root \in [Resource -> Resource], depth \in [Resource -> Nat] : Tree(root, depth)
    BY DEF MaterializerInv, IdInv, Forest
  <2>2. Canon = root
    BY <2>1, RootsAreCanon DEF RootIsCanon, MaterializerInv, IdInv
  <2>3. Tree(root, depth)'
    <3>1. ApprovedOnes' = ApprovedOnes
      BY <1>1 DEF ApprovedOnes
    <3> QED
      BY <1>1, <2>1, <3>1 DEF Tree, Merged
  <2>4. Canon' = root
    BY <1>2, <2>3, RootsAreCanonNext DEF RootIsCanon, IdInv
  <2> QED
    BY <2>2, <2>4
<1> QED
  BY <1>1, <1>2, <1>3, <1>4 DEF MergesAsProposed, Merged

\* A commit that leaves the identities and the claims alone.
LEMMA SameStore ==
  ASSUME MaxProposals <= MaxHops, MaterializerInv, IdInv', ApprovedMerged', Canon' = Canon,
         UNCHANGED claims, MergesAsProposed' => MergesAsProposed,
         NEW ids \in Seq(Resource), Invalidates(ids)
  PROVE  MaterializerInv'
<1>1. Links' = Links
  BY DEF Links
<1>2. PICK canon, L : canon = Canon' /\ L = Links'
  OBVIOUS
<1>3. Spares(Canon, Links, canon, L, ids)
  BY <1>1, <1>2, AllKept DEF Spares
<1>4. claims' \in Seq(Claim)
  BY DEF MaterializerInv, Shape
<1> QED
  BY <1>2, <1>3, <1>4, CommitKeeps

\* A new claim.
LEMMA AddClaimKeeps ==
  ASSUME MaxProposals <= MaxHops, MaterializerInv, NEW r \in Resource, NEW expr \in Expression,
         AddClaim(r, expr)
  PROVE  MaterializerInv'
<1>1. Known
  BY InvGives
<1>2. PICK q \in Resource : q = Resolve(r) /\ Canon[q] = q
  BY <1>1 DEF Known
<1>3. /\ IdInv' /\ ApprovedMerged' /\ Canon' = Canon
      /\ MergesAsProposed' => MergesAsProposed
  BY IdentityKept DEF AddClaim
<1>4. PICK e \in Claim : e = [subject |-> q, expr |-> expr, live |-> TRUE]
  BY DEF Claim
<1>5. PICK i \in 1..(Len(claims) + 1) : claims' = InsertAt(claims, i, e)
  BY <1>2, <1>4 DEF AddClaim
<1>6. claims' \in Seq(Claim)
  BY <1>1, <1>5, Inserted DEF Known
<1>7. PICK ids : ids = Touched(q)
  OBVIOUS
<1>8. PICK canon \in [Resource -> Resource] : canon = Canon'
  BY <1>1, <1>3 DEF Known
<1>9. ids \in Seq(Resource) /\ \E k \in 1..Len(ids) : ids[k] = q
  BY <1>7, <1>8, TouchedTyped
<1>10. PICK L : L = Links'
  OBVIOUS
<1>11. Spares(Canon, Links, canon, L, ids)
  <2>1. ASSUME NEW R \in SUBSET Resource, \A k \in 1..Len(ids) : ids[k] \in R
        PROVE  LinksKept(Canon, Links, canon, L, R)
    <3>1. q \in R
      BY <1>9, <2>1
    <3>2. PICK cs \in Seq(Claim) : cs = claims
      BY <1>1 DEF Known
    <3>3. canon = Canon /\ canon[e.subject] \in R
      BY <1>2, <1>3, <1>4, <1>8, <3>1
    <3>4. LinksKept(canon, LinksOf(canon, cs), canon, LinksOf(canon, InsertAt(cs, i, e)), R)
      BY <3>2, <3>3, InsertLinks
    <3>5. Links = LinksOf(canon, cs) /\ L = LinksOf(canon, InsertAt(cs, i, e))
      BY <1>5, <1>8, <1>10, <3>2, <3>3 DEF Links
    <3> QED
      BY <3>3, <3>4, <3>5
  <2> QED
    BY <2>1 DEF Spares
<1>12. Invalidates(ids)
  BY <1>2, <1>7 DEF AddClaim
<1> QED
  BY <1>3, <1>6, <1>8, <1>9, <1>10, <1>11, <1>12, CommitKeeps

\* A claim that is retracted.
LEMMA RetractClaimKeeps ==
  ASSUME MaxProposals <= MaxHops, MaterializerInv, NEW n \in 1..Len(claims), RetractClaim(n)
  PROVE  MaterializerInv'
<1>1. Known
  BY InvGives
<1>2. /\ IdInv' /\ ApprovedMerged' /\ Canon' = Canon
      /\ MergesAsProposed' => MergesAsProposed
  BY IdentityKept DEF RetractClaim
<1>3. claims[n] \in Claim
  BY <1>1 DEF Known
<1>4. PICK q \in Resource : q = claims[n].subject
  BY <1>3 DEF Claim
<1>5. claims' = [claims EXCEPT ![n].live = FALSE]
  BY DEF RetractClaim
<1>6. claims' \in Seq(Claim)
  <2>1. [claims[n] EXCEPT !.live = FALSE] \in Claim
    BY <1>3 DEF Claim
  <2> QED
    BY <1>1, <1>5, <2>1 DEF Known
<1>7. PICK ids : ids = Touched(q)
  OBVIOUS
<1>8. PICK canon \in [Resource -> Resource] : canon = Canon'
  BY <1>1, <1>2 DEF Known
<1>9. ids \in Seq(Resource) /\ \E k \in 1..Len(ids) : ids[k] = canon[q]
  BY <1>7, <1>8, TouchedTyped
<1>10. PICK L : L = Links'
  OBVIOUS
<1>11. Spares(Canon, Links, canon, L, ids)
  <2>1. ASSUME NEW R \in SUBSET Resource, \A k \in 1..Len(ids) : ids[k] \in R
        PROVE  LinksKept(Canon, Links, canon, L, R)
    <3>1. PICK cs \in Seq(Claim) : cs = claims
      BY <1>1 DEF Known
    <3>2. canon = Canon /\ canon[cs[n].subject] \in R
      BY <1>2, <1>4, <1>8, <1>9, <2>1, <3>1
    <3>3. LinksKept(canon, LinksOf(canon, cs), canon, LinksOf(canon, [cs EXCEPT ![n].live = FALSE]), R)
      BY <3>1, <3>2, RetractLinks
    <3>4. Links = LinksOf(canon, cs) /\ L = LinksOf(canon, [cs EXCEPT ![n].live = FALSE])
      BY <1>5, <1>8, <1>10, <3>1, <3>2 DEF Links
    <3> QED
      BY <3>2, <3>3, <3>4
  <2> QED
    BY <2>1 DEF Spares
<1>12. Invalidates(ids)
  BY <1>4, <1>7 DEF RetractClaim
<1> QED
  BY <1>2, <1>6, <1>8, <1>9, <1>10, <1>11, <1>12, CommitKeeps

\* A commit that changes neither the identities nor the claims.
LEMMA TouchKeeps ==
  ASSUME MaxProposals <= MaxHops, MaterializerInv,
         (\E r \in Resource : TouchResource(r)) \/ TouchAll
  PROVE  MaterializerInv'
<1>1. Known
  BY InvGives
<1>2. UNCHANGED <<identityVars, claims>>
  BY DEF TouchResource, TouchAll
<1>3. /\ IdInv' /\ ApprovedMerged' /\ Canon' = Canon
      /\ MergesAsProposed' => MergesAsProposed
  BY <1>2, IdentityKept
<1>4. CASE \E r \in Resource : TouchResource(r)
  <2>1. PICK q \in Resource : Invalidates(Touched(q))
    BY <1>1, <1>4 DEF TouchResource, Known
  <2>2. PICK canon \in [Resource -> Resource] : canon = Canon'
    BY <1>1, <1>3 DEF Known
  <2>3. PICK ids \in Seq(Resource) : ids = Touched(q)
    BY <2>2, TouchedTyped
  <2> QED
    BY <1>2, <1>3, <2>1, <2>3, SameStore
<1>5. CASE TouchAll
  <2>1. PICK ids \in Seq(Resource) : ids = SetToSeq(Resource)
    BY AllTyped
  <2>2. Invalidates(ids)
    BY <1>5, <2>1 DEF TouchAll
  <2> QED
    BY <1>2, <1>3, <2>2, SameStore
<1> QED
  BY <1>4, <1>5

\* What a new proposal leaves alone.
LEMMA ProposalLeaves ==
  ASSUME MaxProposals <= MaxHops, MaterializerInv, NEW from \in Resource, NEW into \in Resource,
         NewProposal(from, into)
  PROVE  /\ ApprovedMerged' /\ Canon' = Canon
         /\ MergesAsProposed' => MergesAsProposed
<1>1. IdInv'
  BY ProposalKept DEF MaterializerInv
<1>2. PICK p : /\ proposals' = Append(proposals, p) /\ p.status = "proposed"
  BY DEF NewProposal
<1>3. proposals \in Seq(Proposal) /\ UNCHANGED <<redirects, members>>
  BY DEF MaterializerInv, IdInv, IdentityTypeOK, NewProposal
<1>4. /\ Len(proposals) \in Nat /\ Len(proposals') = Len(proposals) + 1
      /\ \A n \in 1..Len(proposals) : proposals'[n] = proposals[n]
      /\ proposals'[Len(proposals) + 1] = p
  BY <1>2, <1>3
<1>5. ASSUME NEW n \in 1..Len(proposals'), proposals'[n].status = "approved"
      PROVE  n \in 1..Len(proposals) /\ proposals'[n] = proposals[n]
  <2>1. n # Len(proposals) + 1
    BY <1>2, <1>4, <1>5
  <2>2. n \in 1..Len(proposals)
    BY <1>4, <2>1
  <2> QED
    BY <1>4, <2>2
<1>6. ApprovedMerged'
  BY <1>3, <1>5 DEF MaterializerInv, ApprovedMerged, Merged
<1>7. MergesAsProposed' => MergesAsProposed
  BY <1>3, <1>5 DEF MergesAsProposed, Merged
<1>8. Canon' = Canon
  <2>1. PICK root \in [Resource -> Resource], depth \in [Resource -> Nat] : Tree(root, depth)
    BY DEF MaterializerInv, IdInv, Forest
  <2>2. Canon = root
    BY <2>1, RootsAreCanon DEF RootIsCanon, MaterializerInv, IdInv
  <2>3. ApprovedOnes' = ApprovedOnes
    <3>1. \A n \in 1..Len(proposals) : n \in 1..Len(proposals')
      BY <1>4
    <3> QED
      BY <1>4, <1>5, <3>1 DEF ApprovedOnes
  <2>4. Tree(root, depth)'
    BY <1>3, <2>1, <2>3 DEF Tree, Merged
  <2>5. Canon' = root
    BY <1>1, <2>4, RootsAreCanonNext DEF RootIsCanon, IdInv
  <2> QED
    BY <2>2, <2>5
<1> QED
  BY <1>6, <1>7, <1>8

\* A proposal to merge.
LEMMA ProposeMergeKeeps ==
  ASSUME MaxProposals <= MaxHops, MaterializerInv, NEW from \in Resource, NEW into \in Resource,
         ProposeMerge(from, into)
  PROVE  MaterializerInv'
<1>1. NewProposal(from, into) /\ UNCHANGED claims
  BY DEF ProposeMerge
<1>2. IdInv'
  BY <1>1, ProposalKept DEF MaterializerInv
<1>3. PICK ids \in Seq(Resource) : ids = <<>>
  BY EmptySeq
<1>4. Invalidates(ids)
  BY <1>3 DEF ProposeMerge
<1> QED
  BY <1>1, <1>2, <1>4, ProposalLeaves, SameStore

\* What a decision makes of the proposals.
LEMMA DecisionGives ==
  ASSUME MaterializerInv, NEW n \in 1..Len(proposals), NEW approve \in BOOLEAN, Decision(n, approve)
  PROVE  /\ proposals \in Seq(Proposal) /\ proposals[n] \in Proposal
         /\ Len(proposals') = Len(proposals)
         /\ proposals[n].status = "proposed"
         /\ proposals'[n].status = IF approve THEN "approved" ELSE "rejected"
         /\ proposals'[n].from = proposals[n].from
         /\ \A k \in 1..Len(proposals) : k # n => proposals'[k] = proposals[k]
<1>1. proposals \in Seq(Proposal) /\ proposals[n] \in Proposal /\ proposals[n].status = "proposed"
  BY DEF MaterializerInv, IdInv, IdentityTypeOK, Decision
<1>2. PICK status : /\ status = IF approve THEN "approved" ELSE "rejected"
                    /\ proposals' = [proposals EXCEPT ![n].status = status]
  BY DEF Decision
<1>3. [proposals[n] EXCEPT !.status = status].from = proposals[n].from
      /\ [proposals[n] EXCEPT !.status = status].status = status
  BY <1>1 DEF Proposal
<1> QED
  BY <1>1, <1>2, <1>3

\* A merge that is rejected.
LEMMA RejectionKeeps ==
  ASSUME MaxProposals <= MaxHops, MaterializerInv, NEW n \in 1..Len(proposals), DecideMerge(n, FALSE)
  PROVE  MaterializerInv'
<1>1. Decision(n, FALSE) /\ UNCHANGED claims /\ UNCHANGED <<redirects, members>>
  BY DEF DecideMerge, Decision
<1>2. /\ proposals \in Seq(Proposal) /\ proposals[n] \in Proposal
      /\ Len(proposals') = Len(proposals)
      /\ proposals[n].status = "proposed"
      /\ proposals'[n].status = "rejected"
      /\ \A k \in 1..Len(proposals) : k # n => proposals'[k] = proposals[k]
  BY <1>1, DecisionGives
<1>3. IdInv'
  BY <1>1, DecisionKept DEF MaterializerInv
<1>4. ApprovedMerged' /\ (MergesAsProposed' => MergesAsProposed)
  <2>1. ApprovedMerged'
    BY <1>1, <1>2 DEF MaterializerInv, ApprovedMerged, Merged
  <2>2. MergesAsProposed' => MergesAsProposed
    BY <1>1, <1>2 DEF MergesAsProposed, Merged
  <2> QED
    BY <2>1, <2>2
<1>5. Canon' = Canon
  <2>1. PICK root \in [Resource -> Resource], depth \in [Resource -> Nat] : Tree(root, depth)
    BY DEF MaterializerInv, IdInv, Forest
  <2>2. Canon = root
    BY <2>1, RootsAreCanon DEF RootIsCanon, MaterializerInv, IdInv
  <2>3. ApprovedOnes' = ApprovedOnes
    BY <1>2 DEF ApprovedOnes
  <2>4. Tree(root, depth)'
    BY <1>1, <2>1, <2>3 DEF Tree, Merged
  <2>5. Canon' = root
    BY <1>3, <2>4, RootsAreCanonNext DEF RootIsCanon, IdInv
  <2> QED
    BY <2>2, <2>5
<1>6. PICK canon \in [Resource -> Resource] : canon = Canon'
  BY <1>5, InvGives DEF Known
<1>7. proposals[n].from \in Resource /\ proposals[n].into \in Resource
  BY <1>2 DEF Proposal
<1>8. Touched(proposals[n].from) \in Seq(Resource) /\ Touched(proposals[n].into) \in Seq(Resource)
  BY <1>6, <1>7, TouchedTyped
<1>9. PICK ids \in Seq(Resource) : ids = Touched(proposals[n].from) \o Touched(proposals[n].into)
  BY <1>8, ConcatProperties
<1>10. Invalidates(ids)
  BY <1>9 DEF DecideMerge
<1> QED
  BY <1>1, <1>3, <1>4, <1>5, <1>10, SameStore

\* What an approved merge makes of the identities: whoever was merged stays so, and a merge
\* that is made as it was proposed is of the id that was proposed.
ApprovalGives(n, from, into, canon) ==
  /\ from = Canon[proposals[n].from] /\ into = Canon[proposals[n].into] /\ from # into
  /\ canon = MergedRoot(Canon, from, into)
  /\ ApprovedMerged'
  /\ MergesAsProposed' => MergesAsProposed /\ proposals[n].from = from

\* An approved merge.
LEMMA ApprovalMerges ==
  ASSUME MaxProposals <= MaxHops, MaterializerInv, NEW n \in 1..Len(proposals), Decision(n, TRUE),
         NEW canon, canon = Canon'
  PROVE  \E from, into \in Resource : ApprovalGives(n, from, into, canon)
<1>1. Known
  BY InvGives
<1>2. PICK from \in Resource, into \in Resource :
        /\ from = Resolve(proposals[n].from) /\ into = Resolve(proposals[n].into)
        /\ from # into /\ ~ Merged(from) /\ ~ Merged(into)
        /\ redirects' = [redirects EXCEPT ![from] = into]
        /\ Canon' = MergedRoot(Canon, from, into)
  BY DecisionMerges DEF MergesInto, MaterializerInv
<1>3. /\ proposals[n] \in Proposal
      /\ Len(proposals') = Len(proposals)
      /\ proposals[n].status = "proposed"
      /\ proposals'[n].status = "approved"
      /\ proposals'[n].from = proposals[n].from
      /\ \A k \in 1..Len(proposals) : k # n => proposals'[k] = proposals[k]
  BY DecisionGives
<1>4. proposals[n].from \in Resource /\ proposals[n].into \in Resource
  BY <1>3 DEF Proposal
<1>5. from = Canon[proposals[n].from] /\ into = Canon[proposals[n].into]
  BY <1>1, <1>2, <1>4 DEF Known
<1>6. redirects \in [Resource -> Resource \cup {NoResource}]
  BY DEF MaterializerInv, IdInv, IdentityTypeOK
<1>7. ASSUME NEW r \in Resource
      PROVE  redirects'[r] # NoResource <=> Merged(r) \/ r = from
  <2>1. redirects'[r] = IF r = from THEN into ELSE redirects[r]
    BY <1>2, <1>6
  <2> QED
    BY <1>2, <2>1, IdentityAssumption DEF Merged
<1>8. ApprovedMerged'
  <2>1. ASSUME NEW k \in 1..Len(proposals'), proposals'[k].status = "approved"
        PROVE  redirects'[proposals'[k].from] # NoResource
    <3>1. CASE k = n
      <4>1. proposals'[k].from \in Resource /\ proposals'[k].from = proposals[n].from
        BY <1>3, <1>4, <3>1
      <4>2. CASE Merged(proposals[n].from)
        BY <1>4, <1>7, <4>1, <4>2 DEF Merged
      <4>3. CASE ~ Merged(proposals[n].from)
        <5>1. proposals[n].from = from
          BY <1>1, <1>4, <1>5, <4>3 DEF Known
        <5> QED
          BY <1>7, <4>1, <5>1 DEF Merged
      <4> QED
        BY <4>2, <4>3
    <3>2. CASE k # n
      <4>1. proposals'[k] = proposals[k] /\ k \in 1..Len(proposals)
        BY <1>3, <2>1, <3>2
      <4>2. Merged(proposals[k].from)
        BY <2>1, <4>1 DEF MaterializerInv, ApprovedMerged
      <4>3. proposals[k].from \in Resource
        <5>1. proposals[k] \in Proposal
          BY <4>1 DEF MaterializerInv, IdInv, IdentityTypeOK
        <5> QED
          BY <5>1 DEF Proposal
      <4> QED
        BY <1>7, <4>1, <4>2, <4>3 DEF Merged
    <3> QED
      BY <3>1, <3>2
  <2> QED
    BY <2>1 DEF ApprovedMerged, Merged
<1>9. ASSUME MergesAsProposed'
      PROVE  MergesAsProposed /\ proposals[n].from = from
  <2>1. ASSUME NEW r \in Resource, redirects'[r] # NoResource
        PROVE  \E k \in 1..Len(proposals) : proposals'[k].status = "approved" /\ proposals'[k].from = r
    BY <1>3, <1>9, <2>1 DEF MergesAsProposed, Merged
  <2>2. proposals[n].from = from
    <3>1. redirects'[from] # NoResource
      BY <1>7
    <3>2. PICK k \in 1..Len(proposals) : proposals'[k].status = "approved" /\ proposals'[k].from = from
      BY <2>1, <3>1
    <3>3. k = n
      <4>1. ASSUME k # n
            PROVE  FALSE
        <5>1. proposals[k].status = "approved" /\ proposals[k].from = from
          BY <1>3, <3>2, <4>1
        <5>2. Merged(from)
          BY <5>1 DEF MaterializerInv, ApprovedMerged
        <5> QED
          BY <1>2, <5>2
      <4> QED
        BY <4>1
    <3> QED
      BY <1>3, <3>2, <3>3
  <2>3. ASSUME NEW r \in Resource, Merged(r)
        PROVE  \E k \in 1..Len(proposals) : proposals[k].status = "approved" /\ proposals[k].from = r
    <3>1. redirects'[r] # NoResource
      BY <1>7, <2>3
    <3>2. PICK k \in 1..Len(proposals) : proposals'[k].status = "approved" /\ proposals'[k].from = r
      BY <2>1, <3>1
    <3>3. k # n
      BY <1>2, <1>3, <2>2, <2>3, <3>2
    <3> QED
      BY <1>3, <3>2, <3>3
  <2> QED
    BY <2>2, <2>3 DEF MergesAsProposed
<1> QED
  BY <1>2, <1>5, <1>8, <1>9 DEF ApprovalGives

\* A merge that is approved.
LEMMA ApprovalKeeps ==
  ASSUME MaxProposals <= MaxHops, MaterializerInv, NEW n \in 1..Len(proposals), DecideMerge(n, TRUE)
  PROVE  MaterializerInv'
<1>1. Decision(n, TRUE) /\ UNCHANGED claims
  BY DEF DecideMerge
<1>2. Known
  BY InvGives
<1>3. IdInv'
  BY <1>1, DecisionKept DEF MaterializerInv
<1>4. proposals[n].from \in Resource /\ proposals[n].into \in Resource
  <2>1. proposals[n] \in Proposal
    BY DEF MaterializerInv, IdInv, IdentityTypeOK
  <2> QED
    BY <2>1 DEF Proposal
<1>5. PICK canon : canon = Canon'
  OBVIOUS
<1>6. PICK from \in Resource, into \in Resource : ApprovalGives(n, from, into, canon)
  BY <1>1, <1>5, ApprovalMerges
<1>7. canon \in [Resource -> Resource] /\ canon[from] = into
  <2>1. Canon[from] = from
    BY <1>2, <1>4, <1>6 DEF ApprovalGives, Known
  <2> QED
    BY <1>2, <1>6, <2>1 DEF ApprovalGives, MergedRoot, Known
<1>8. /\ Touched(proposals[n].from) \in Seq(Resource) /\ Touched(proposals[n].into) \in Seq(Resource)
      /\ \E i \in 1..Len(Touched(proposals[n].from)) : Touched(proposals[n].from)[i] = proposals[n].from
      /\ \E i \in 1..Len(Touched(proposals[n].from)) :
           Touched(proposals[n].from)[i] = canon[proposals[n].from]
  BY <1>4, <1>5, <1>7, TouchedTyped
<1>9. PICK ids1 \in Seq(Resource), ids2 \in Seq(Resource) :
        ids1 = Touched(proposals[n].from) /\ ids2 = Touched(proposals[n].into)
  BY <1>8
<1>10. PICK ids \in Seq(Resource) : ids = ids1 \o ids2
  BY ConcatProperties
<1>11. /\ Len(ids) = Len(ids1) + Len(ids2)
       /\ \A i \in 1..Len(ids1) : i \in 1..Len(ids) /\ ids[i] = ids1[i]
  BY <1>10
<1>12. PICK L : L = Links'
  OBVIOUS
<1>13. ASSUME MergesAsProposed'
       PROVE  Spares(Canon, Links, canon, L, ids)
  <2>1. ASSUME NEW R \in SUBSET Resource, \A k \in 1..Len(ids) : ids[k] \in R
        PROVE  LinksKept(Canon, Links, canon, L, R)
    <3>1. proposals[n].from = from
      BY <1>6, <1>13 DEF ApprovalGives
    <3>2. from \in R /\ into \in R
      BY <1>7, <1>8, <1>9, <1>11, <2>1, <3>1
    <3>3. PICK cs \in Seq(Claim), canon1 \in [Resource -> Resource] : cs = claims /\ canon1 = Canon
      BY <1>2 DEF Known
    <3>4. canon = MergedRoot(canon1, from, into) /\ from # into
      BY <1>6, <3>3 DEF ApprovalGives
    <3>5. LinksKept(canon1, LinksOf(canon1, cs), canon, LinksOf(canon, cs), R)
      BY <3>2, <3>4, MergeLinks
    <3>6. Links = LinksOf(canon1, cs) /\ L = LinksOf(canon, cs)
      BY <1>1, <1>5, <1>12, <3>3 DEF Links
    <3> QED
      BY <3>3, <3>5, <3>6
  <2> QED
    BY <2>1 DEF Spares
<1>14. Invalidates(ids)
  BY <1>9, <1>10 DEF DecideMerge
<1>15. claims' \in Seq(Claim)
  BY <1>1, <1>2 DEF Known
<1>16. ApprovedMerged' /\ (MergesAsProposed' => MergesAsProposed)
  BY <1>6 DEF ApprovalGives
<1> QED
  BY <1>3, <1>5, <1>12, <1>13, <1>14, <1>15, <1>16, CommitKeeps

\* Rows that follow still do so with more dependents.
LEMMA RowsKeepFollowing ==
  ASSUME NEW canon, NEW L, NEW rs, NEW E, NEW F, E \subseteq F, RowsFollow(canon, L, rs, E)
  PROVE  RowsFollow(canon, L, rs, F)
<1>1. ASSUME NEW x \in Resource
      PROVE  RowFollows(canon, L, x, rs[x], F)
  <2>1. RowFollows(canon, L, x, rs[x], E)
    BY DEF RowsFollow
  <2> QED
    BY <2>1 DEF RowFollows
<1> QED
  BY <1>1 DEF RowsFollow

\* The first of the queue, and the rest of it.
LEMMA RestTyped ==
  ASSUME NEW ids \in Seq(Resource), Unique(ids), ids # <<>>
  PROVE  /\ Head(ids) \in Resource
         /\ Tail(ids) \in Seq(Resource) /\ Unique(Tail(ids))
<1>1. PICK rest \in Seq(Resource) : rest = Tail(ids)
  BY HeadTailProperties
<1>2. Len(rest) = Len(ids) - 1 /\ \A i \in 1..Len(rest) : rest[i] = ids[i + 1]
  BY <1>1, HeadTailProperties
<1>3. ASSUME NEW i \in 1..Len(rest), NEW j \in 1..Len(rest), rest[i] = rest[j]
      PROVE  i = j
  <2>1. i + 1 \in 1..Len(ids) /\ j + 1 \in 1..Len(ids) /\ ids[i + 1] = ids[j + 1]
    BY <1>2, <1>3
  <2>2. i + 1 = j + 1
    BY <2>1 DEF Unique
  <2> QED
    BY <2>2
<1> QED
  BY <1>1, <1>3, HeadTailProperties DEF Unique

\* The projection without the row of a resource that was merged away.
RowGone(s, r, rest) == [s EXCEPT !.queue = rest, !.rows[r] = NoRow]

\* What is left follows as before.
LEMMA RowRemoved ==
  ASSUME NEW canon, NEW L, NEW s \in Projected, NEW r \in Resource,
         NEW rest \in Seq(Resource), Unique(rest), NEW t,
         t = RowGone(s, r, rest)
  PROVE  /\ t \in Projected /\ t.deps = s.deps
         /\ ProjectionFollows(canon, L, s) => ProjectionFollows(canon, L, t)
<1>1. s.rows \in [Resource -> Row \cup {NoRow}]
  BY DEF Projected
<1>2. PICK rs \in [Resource -> Row \cup {NoRow}] : rs = [s.rows EXCEPT ![r] = NoRow]
  BY <1>1
<1>3. t = [rows |-> rs, cache |-> s.cache, deps |-> s.deps, queue |-> rest]
  BY <1>2 DEF RowGone, Projected
<1>4. t \in Projected
  BY <1>3 DEF Projected
<1>5. ASSUME ProjectionFollows(canon, L, s)
      PROVE  RowsFollow(canon, L, rs, Edges(s.deps))
  <2>1. ASSUME NEW x \in Resource
        PROVE  RowFollows(canon, L, x, rs[x], Edges(s.deps))
    <3>1. CASE x = r
      BY <1>1, <1>2, <3>1 DEF RowFollows
    <3>2. CASE x # r
      BY <1>1, <1>2, <1>5, <3>2 DEF ProjectionFollows, RowsFollow
    <3> QED
      BY <3>1, <3>2
  <2> QED
    BY <2>1 DEF RowsFollow
<1>6. t.rows = rs /\ t.cache = s.cache /\ t.deps = s.deps
  BY <1>3
<1>7. ProjectionFollows(canon, L, s) => ProjectionFollows(canon, L, t)
  BY <1>5, <1>6 DEF ProjectionFollows
<1> QED
  BY <1>4, <1>6, <1>7

\* The task comes upon a resource that was merged away.
LEMMA ProcessMergedFollows ==
  ASSUME MaxProposals <= MaxHops, MaterializerInv, NEW r \in Resource,
         NEW rest \in Seq(Resource), Unique(rest), ProcessMerged(r, rest)
  PROVE  \E st \in Projected :
           Becomes(st) /\ (MergesAsProposed => ProjectionFollows(Canon, Links, st))
<1>1. Known /\ World(Canon, Links) /\ Projection \in Projected
  BY InvGives
<1>2. PICK removed : removed = RowGone(Projection, r, rest)
  OBVIOUS
<1>3. PICK s, canon, L : s \in Projected /\ s = Projection /\ canon = Canon /\ L = Links
  BY <1>1
<1>4. removed \in Projected /\ (MergesAsProposed => ProjectionFollows(canon, L, removed))
  <2>1. /\ removed \in Projected
        /\ ProjectionFollows(canon, L, s) => ProjectionFollows(canon, L, removed)
    <3>1. removed = RowGone(s, r, rest)
      BY <1>2, <1>3
    <3> QED
      BY <1>3, <3>1, RowRemoved
  <2>2. MergesAsProposed => ProjectionFollows(canon, L, s)
    BY <1>3, InvGives
  <2> QED
    BY <2>1, <2>2
<1>5. PICK st : /\ Becomes(st)
                /\ st = removed \/ st \in Invalidated(removed, Resolve(r))
  BY <1>2 DEF ProcessMerged, RowGone
<1>6. CASE st = removed
  BY <1>3, <1>4, <1>5, <1>6
<1>7. CASE st \in Invalidated(removed, Resolve(r))
  <2>1. PICK into \in Resource : into = Resolve(r)
    BY <1>1 DEF Known
  <2>2. PICK R : R = Reached(removed.deps, into)
    OBVIOUS
  <2>3. st \in Projected /\ Cleared(removed, st, R)
    BY <1>4, <1>7, <2>1, <2>2, InvalidatedClears
  <2>4. Closed(removed.deps, R)
    BY <1>4, <2>2, ReachedClosed DEF Projected
  <2>5. MergesAsProposed => ProjectionFollows(canon, L, st)
    BY <1>1, <1>3, <1>4, <2>3, <2>4, AllKept, ClearedFollows
  <2> QED
    BY <1>3, <1>5, <2>3, <2>5
<1> QED
  BY <1>5, <1>6, <1>7

\* A search has outcomes of their type.
LEMMA AnswersTyped ==
  ASSUME Known, NEW st \in SearchState, NEW r \in Resource
  PROVE  Answers(st, r) \subseteq Outcome
<1>1. PICK q \in Query : q = [st |-> st, r |-> r, stack |-> {}]
  BY DEF Query
<1>2. PICK n \in 0..(MaxDepth + 1) : n = MaxDepth + 1
  BY MaterializerAssumption
<1>3. Search[n] \in [Query -> SUBSET Outcome]
  BY SearchSteps
<1>4. Search[n][q] \subseteq Outcome
  BY <1>3
<1> QED
  BY <1>1, <1>2, <1>4 DEF Answers

\* The projection with what a search found.
Computed(s, rest, found) ==
  [s EXCEPT
     !.queue = rest,
     !.cache = found.st.cache,
     !.deps  = [a \in Resource |-> @[a] \cup {d \in Resource : <<a, d>> \in found.st.deps}]]

\* The dependents are those of before and those of the search.
LEMMA ComputedIs ==
  ASSUME NEW s \in Projected, NEW rest \in Seq(Resource), Unique(rest), NEW found \in Outcome,
         NEW t, t = Computed(s, rest, found)
  PROVE  /\ t \in Projected /\ t.rows = s.rows /\ t.cache = found.st.cache
         /\ Edges(t.deps) = Edges(s.deps) \cup found.st.deps
<1>1. s.deps \in [Resource -> SUBSET Resource]
  BY DEF Projected
<1>2. found.st \in SearchState
  BY DEF Outcome
<1>3. found.st.cache \in [Resource -> Slot \cup {NoSlot}] /\ found.st.deps \subseteq Pairs
  BY <1>2 DEF SearchState, Pairs
<1>4. PICK deps \in [Resource -> SUBSET Resource] :
        deps = [a \in Resource |-> s.deps[a] \cup {d \in Resource : <<a, d>> \in found.st.deps}]
  BY <1>1
<1>5. t = [rows |-> s.rows, cache |-> found.st.cache, deps |-> deps, queue |-> rest]
  BY <1>4 DEF Computed, Projected
<1>6. t \in Projected
  BY <1>3, <1>5 DEF Projected
<1>7. \A a, d \in Resource : d \in deps[a] <=> d \in s.deps[a] \/ <<a, d>> \in found.st.deps
  BY <1>4
<1>8. Edges(deps) = Edges(s.deps) \cup found.st.deps
  <2>1. ASSUME NEW e \in Pairs
        PROVE  e \in Edges(deps) <=> e \in Edges(s.deps) \/ e \in found.st.deps
    <3>1. e[1] \in Resource /\ e[2] \in Resource /\ e = <<e[1], e[2]>>
      BY DEF Pairs
    <3>2. e[2] \in deps[e[1]] <=> e[2] \in s.deps[e[1]] \/ <<e[1], e[2]>> \in found.st.deps
      BY <1>7, <3>1
    <3> QED
      BY <3>1, <3>2 DEF Edges
  <2>2. Edges(deps) \subseteq Pairs /\ Edges(s.deps) \subseteq Pairs
    BY DEF Edges
  <2> QED
    BY <1>3, <2>1, <2>2
<1> QED
  BY <1>5, <1>6, <1>8

\* The row that was computed is where the walk leads.
LEMMA RowFilledIn ==
  ASSUME NEW canon, NEW L, NEW s \in Projected, NEW r \in Resource, NEW slot \in Slot,
         canon[r] = r, ProjectionFollows(canon, L, s), WalkFrom(L, r).edges \subseteq Edges(s.deps),
         slot.time = WalkFrom(L, r).time \/ WalkFrom(L, r).time.kind = "depth_exceeded",
         NEW rs, rs = [s.rows EXCEPT ![r] = RowOf(slot)]
  PROVE  RowsFollow(canon, L, rs, Edges(s.deps))
<1>1. s.rows \in [Resource -> Row \cup {NoRow}]
  BY DEF Projected
<1>2. RowOf(slot).time = slot.time
  BY DEF RowOf
<1>3. PICK E : E = Edges(s.deps)
  OBVIOUS
<1>4. ASSUME NEW x \in Resource
      PROVE  RowFollows(canon, L, x, rs[x], E)
  <2>1. CASE x = r
    <3>1. rs[x].time = slot.time
      BY <1>1, <1>2, <2>1
    <3> QED
      BY <1>3, <2>1, <3>1 DEF RowFollows
  <2>2. CASE x # r
    BY <1>1, <1>3, <2>2 DEF ProjectionFollows, RowsFollow
  <2> QED
    BY <2>1, <2>2
<1> QED
  BY <1>3, <1>4 DEF RowsFollow

\* The task computes the row of a resource.
LEMMA ProcessRowFollows ==
  ASSUME MaxProposals <= MaxHops, MaterializerInv, NEW r \in Resource, Resolve(r) = r,
         NEW rest \in Seq(Resource), Unique(rest), ProcessRow(r, rest)
  PROVE  \E st \in Projected :
           Becomes(st) /\ (MergesAsProposed => ProjectionFollows(Canon, Links, st))
<1>1. Known /\ World(Canon, Links) /\ Projection \in Projected /\ Canon[r] = r
  BY InvGives DEF Known
<1>2. PICK start \in SearchState : start = [cache |-> cache, deps |-> {}]
  BY DEF SearchState, MaterializerInv, Shape
<1>3. PICK found \in Answers(start, r) :
        \E told \in SetToSeqs(Told(Computed(Projection, rest, found), r, found.slot.time)) :
          \E st \in InvalidatedAll(Computed(Projection, rest, found), told) :
            Becomes([st EXCEPT !.rows[r] = RowOf(found.slot)])
  BY <1>2 DEF ProcessRow, Computed
<1>4. found \in Outcome
  BY <1>1, <1>3, AnswersTyped
<1>5. found.slot \in Slot
  BY <1>4 DEF Outcome
<1>6. PICK s, canon, L : s \in Projected /\ s = Projection /\ canon = Canon /\ L = Links
  BY <1>1
<1>7. PICK t : t = Computed(s, rest, found)
  OBVIOUS
<1>8. /\ t \in Projected /\ t.rows = s.rows /\ t.cache = found.st.cache
      /\ Edges(t.deps) = Edges(s.deps) \cup found.st.deps
  BY <1>4, <1>6, <1>7, ComputedIs
<1>9. PICK told \in SetToSeqs(Told(t, r, found.slot.time)) :
        \E st \in InvalidatedAll(t, told) : Becomes([st EXCEPT !.rows[r] = RowOf(found.slot)])
  BY <1>3, <1>6, <1>7
<1>10. told \in Seq(Resource)
  <2>1. t.deps[r] \subseteq Resource
    BY <1>8 DEF Projected
  <2>2. Told(t, r, found.slot.time) \subseteq Resource
    BY <2>1 DEF Told
  <2> QED
    BY <1>9, <2>2, OrderedTyped
<1>11. PICK st \in InvalidatedAll(t, told) : Becomes([st EXCEPT !.rows[r] = RowOf(found.slot)])
  BY <1>9
<1>12. st \in Projected /\ st.deps = t.deps
  <2>1. st \in Projected /\ Wiped(t, st, told, Len(told))
    BY <1>8, <1>10, <1>11, InvalidatedAllWipes
  <2> QED
    BY <2>1 DEF Wiped, Cleared
<1>13. PICK row \in Row : row = RowOf(found.slot)
  BY <1>5 DEF RowOf, Slot, Row
<1>14. PICK rs \in [Resource -> Row \cup {NoRow}] : rs = [st.rows EXCEPT ![r] = row]
  BY <1>12 DEF Projected
<1>15. PICK u \in Projected : u = [rows |-> rs, cache |-> st.cache, deps |-> st.deps, queue |-> st.queue]
  BY <1>12 DEF Projected
<1>16. PICK filled : filled = [st EXCEPT !.rows[r] = RowOf(found.slot)]
  OBVIOUS
<1>17. Becomes(u)
  <2>1. Becomes(filled)
    BY <1>11, <1>16
  <2>2. /\ filled.rows = [st.rows EXCEPT ![r] = RowOf(found.slot)]
        /\ filled.cache = st.cache /\ filled.deps = st.deps /\ filled.queue = st.queue
    BY <1>12, <1>16 DEF Projected
  <2>3. filled.rows = u.rows /\ filled.cache = u.cache /\ filled.deps = u.deps /\ filled.queue = u.queue
    BY <1>13, <1>14, <1>15, <2>2
  <2> QED
    BY <2>1, <2>3 DEF Becomes
<1>18. ASSUME MergesAsProposed
       PROVE  ProjectionFollows(canon, L, u)
  <2>1. ProjectionFollows(canon, L, s)
    BY <1>6, <1>18, InvGives
  <2>2. CacheFollows(L, start.cache, Edges(s.deps))
    <3>1. start.cache = s.cache
      BY <1>2, <1>6 DEF Projection
    <3> QED
      BY <2>1, <3>1 DEF ProjectionFollows
  <2>3. PICK B : B = Edges(s.deps)
    OBVIOUS
  <2>4. /\ CacheFollows(L, found.st.cache, B \cup found.st.deps)
        /\ Arrives(B, start.cache, WalkFrom(L, r), found)
    BY <1>1, <1>3, <1>6, <2>2, <2>3, AnswersArrive
  <2>5. PICK F : F = Edges(t.deps)
    OBVIOUS
  <2>6. F = B \cup found.st.deps
    BY <1>8, <2>3, <2>5
  <2>7. RowsFollow(canon, L, t.rows, F)
    BY <1>8, <2>1, <2>3, <2>6, RowsKeepFollowing DEF ProjectionFollows
  <2>8. ProjectionFollows(canon, L, t)
    BY <1>8, <2>4, <2>5, <2>6, <2>7 DEF ProjectionFollows
  <2>9. Spares(canon, L, canon, L, told)
    BY AllKept DEF Spares
  <2>10. ProjectionFollows(canon, L, st)
    BY <1>1, <1>6, <1>8, <1>10, <1>11, <2>8, <2>9, WipedFollows
  <2>11. /\ WalkFrom(L, r).edges \subseteq Edges(st.deps)
         /\ found.slot.time = WalkFrom(L, r).time \/ WalkFrom(L, r).time.kind = "depth_exceeded"
    BY <1>12, <2>4, <2>5, <2>6 DEF Arrives
  <2>12. RowsFollow(canon, L, rs, Edges(st.deps))
    <3>1. canon[r] = r
      BY <1>1, <1>6
    <3> QED
      BY <1>5, <1>12, <1>13, <1>14, <2>10, <2>11, <3>1, RowFilledIn
  <2>13. u.rows = rs /\ u.cache = st.cache /\ u.deps = st.deps
    BY <1>15
  <2> QED
    BY <2>10, <2>12, <2>13 DEF ProjectionFollows
<1> QED
  BY <1>6, <1>15, <1>17, <1>18

\* A step of the task.
LEMMA MaterializeKeeps ==
  ASSUME MaxProposals <= MaxHops, MaterializerInv, Materialize
  PROVE  MaterializerInv'
<1>1. UNCHANGED <<identityVars, claims>>
  BY DEF Materialize, Process, FindNothing
<1>2. /\ IdInv' /\ ApprovedMerged' /\ Canon' = Canon
      /\ MergesAsProposed' => MergesAsProposed
  BY <1>1, IdentityKept
<1>3. claims' \in Seq(Claim) /\ Links' = Links
  BY <1>1, <1>2 DEF MaterializerInv, Shape, Links
<1>4. \E st \in Projected :
        Becomes(st) /\ (MergesAsProposed => ProjectionFollows(Canon, Links, st))
  <2>1. CASE FindNothing
    <3>1. Becomes(Projection)
      BY <2>1 DEF FindNothing, projection, Becomes, Projection
    <3> QED
      BY <3>1, InvGives
  <2>2. CASE Process
    <3>1. queue \in Seq(Resource) /\ Unique(queue) /\ queue # <<>>
      BY <2>2 DEF Process, MaterializerInv, Shape
    <3>2. PICK r \in Resource, rest \in Seq(Resource) :
            r = Head(queue) /\ rest = Tail(queue) /\ Unique(rest)
      BY <3>1, RestTyped
    <3>3. CASE Resolve(r) # r
      <4>1. ProcessMerged(r, rest)
        BY <2>2, <3>2, <3>3 DEF Process
      <4> QED
        BY <3>2, <4>1, ProcessMergedFollows
    <3>4. CASE Resolve(r) = r
      <4>1. ProcessRow(r, rest)
        BY <2>2, <3>2, <3>4 DEF Process
      <4> QED
        BY <3>2, <3>4, <4>1, ProcessRowFollows
    <3> QED
      BY <3>3, <3>4
  <2> QED
    BY <2>1, <2>2 DEF Materialize
<1>5. PICK st, canon, L :
        /\ st \in Projected
        /\ canon = Canon' /\ L = Links' /\ Becomes(st)
        /\ MergesAsProposed => ProjectionFollows(Canon, Links, st)
  BY <1>4
<1>6. MergesAsProposed' => ProjectionFollows(canon, L, st)
  BY <1>2, <1>3, <1>5
<1> QED
  BY <1>2, <1>3, <1>5, <1>6, StepFollows

\* Nothing changes.
LEMMA NothingKeeps ==
  ASSUME MaxProposals <= MaxHops, MaterializerInv, UNCHANGED vars
  PROVE  MaterializerInv'
<1>1. UNCHANGED <<identityVars, claims, rows, cache, dependents, queue>>
  BY DEF vars
<1>2. /\ IdInv' /\ ApprovedMerged' /\ Canon' = Canon
      /\ MergesAsProposed' => MergesAsProposed
  BY <1>1, IdentityKept
<1>3. claims' \in Seq(Claim) /\ Links' = Links
  BY <1>1, <1>2 DEF MaterializerInv, Shape, Links
<1>4. PICK st, canon, L : st \in Projected /\ st = Projection /\ canon = Canon' /\ L = Links'
  BY InvGives
<1>5. Becomes(st)
  BY <1>1, <1>4 DEF Becomes, Projection
<1>6. MergesAsProposed' => ProjectionFollows(canon, L, st)
  BY <1>2, <1>3, <1>4, InvGives
<1> QED
  BY <1>2, <1>3, <1>4, <1>5, <1>6, StepFollows

\* Every step keeps the invariant.
LEMMA MaterializerStep ==
  ASSUME MaxProposals <= MaxHops, MaterializerInv, [Next]_vars
  PROVE  MaterializerInv'
<1>1. CASE \E r \in Resource, expr \in Expression : AddClaim(r, expr)
  BY <1>1, AddClaimKeeps
<1>2. CASE \E n \in 1..Len(claims) : RetractClaim(n)
  BY <1>2, RetractClaimKeeps
<1>3. CASE (\E r \in Resource : TouchResource(r)) \/ TouchAll
  BY <1>3, TouchKeeps
<1>4. CASE \E from, into \in Resource : ProposeMerge(from, into)
  BY <1>4, ProposeMergeKeeps
<1>5. CASE \E n \in 1..Len(proposals), approve \in BOOLEAN : DecideMerge(n, approve)
  <2>1. PICK n \in 1..Len(proposals), approve \in BOOLEAN : DecideMerge(n, approve)
    BY <1>5
  <2>2. CASE approve = TRUE
    BY <2>1, <2>2, ApprovalKeeps
  <2>3. CASE approve = FALSE
    BY <2>1, <2>3, RejectionKeeps
  <2> QED
    BY <2>2, <2>3
<1>6. CASE Materialize
  BY <1>6, MaterializeKeeps
<1>7. CASE UNCHANGED vars
  BY <1>7, NothingKeeps
<1> QED
  BY <1>1, <1>2, <1>3, <1>4, <1>5, <1>6, <1>7 DEF Next

\* Nothing is materialized when the log was replayed.
LEMMA MaterializerStart ==
  ASSUME Init
  PROVE  MaterializerInv
<1>1. IdInv
  BY IdentityInit DEF Init
<1>2. claims \in Seq(Claim)
  <2>1. PICK n \in 0..MaxClaims : claims \in [1..n -> ReplayedClaim]
    BY DEF Init, BoundedSeq, SeqOf
  <2>2. n \in Nat
    BY MaterializerAssumption
  <2>3. ReplayedClaim \subseteq Claim
    BY DEF ReplayedClaim
  <2> QED
    BY <2>1, <2>2, <2>3
<1>3. Shape
  <2>1. rows \in [Resource -> Row \cup {NoRow}] /\ \A r \in Resource : rows[r] = NoRow
    BY DEF Init
  <2>2. cache \in [Resource -> Slot \cup {NoSlot}] /\ \A r \in Resource : cache[r] = NoSlot
    BY DEF Init, NoCache
  <2>3. dependents \in [Resource -> SUBSET Resource]
    BY DEF Init
  <2>4. queue \in Seq(Resource) /\ Unique(queue)
    BY AllTyped DEF Init
  <2> QED
    BY <1>2, <2>1, <2>2, <2>3, <2>4 DEF Shape
<1>4. ApprovedMerged
  <2>1. \A n \in 1..Len(proposals) : proposals[n].status # "approved"
    BY DEF Init, InitIdentity
  <2> QED
    BY <2>1 DEF ApprovedMerged
<1>5. Follows
  <2>1. \A r \in Resource : rows[r] = NoRow /\ cache[r] = NoSlot
    BY DEF Init, NoCache
  <2>2. PICK L, E, canon : L = Links /\ E = Edges(dependents) /\ canon = Canon
    OBVIOUS
  <2>3. PICK rank \in [Resource -> Nat] : rank = [r \in Resource |-> 0]
    OBVIOUS
  <2>4. Ranked(L, cache, E, rank)
    BY <2>1 DEF Ranked
  <2>5. RowsFollow(canon, L, rows, E)
    BY <2>1 DEF RowsFollow, RowFollows
  <2> QED
    BY <2>2, <2>4, <2>5 DEF Follows, CacheFollows
<1> QED
  BY <1>1, <1>3, <1>4, <1>5 DEF MaterializerInv

\* The invariant, and the bound on commits.
Bounded == current \in BOOLEAN /\ commits \in 0..MaxEvents

\* A commit counts, and is the last if the bound is reached.
LEMMA BoundedStep ==
  ASSUME MaterializerInv, MaterializerInv', Bounded, [Next]_vars
  PROVE  Bounded'
<1>1. ASSUME NEW ids, Invalidates(ids)
      PROVE  Bounded'
  <2>1. Len(claims') \in Nat /\ Len(proposals') \in Nat
    BY DEF MaterializerInv, Shape, IdInv, IdentityTypeOK
  <2>2. commits' = commits + 1 /\ Len(claims') + Len(proposals') + commits' <= MaxEvents
    BY <1>1 DEF Invalidates
  <2>3. commits' \in 0..MaxEvents
    BY <2>1, <2>2, MaterializerAssumption DEF Bounded
  <2>4. current' \in BOOLEAN
    BY <1>1 DEF Invalidates
  <2> QED
    BY <2>3, <2>4 DEF Bounded
<1>2. CASE Materialize
  BY <1>2 DEF Materialize, Process, FindNothing, Bounded
<1>3. CASE UNCHANGED vars
  BY <1>3 DEF vars, Bounded
<1> QED
  BY <1>1, <1>2, <1>3 DEF Next, AddClaim, RetractClaim, TouchResource, TouchAll, ProposeMerge, DecideMerge

-----------------------------------------------------------------------------
(* The theorems.                                                            *)

\* The projection keeps its shape, and a resource is in the queue at most once, whatever
\* commits and the background task do in between (BranchState::invalidate, process).
THEOREM QueuedAtMostOnce ==
  ASSUME MaxProposals <= MaxHops
  PROVE  Spec => []TypeOK
<1>1. Init => MaterializerInv /\ Bounded
  <2>1. ASSUME Init
        PROVE  Bounded
    <3>1. commits \in 0..MaxEvents
      BY <2>1, MaterializerAssumption DEF Init
    <3>2. current \in BOOLEAN
      BY <2>1 DEF Init
    <3> QED
      BY <3>1, <3>2 DEF Bounded
  <2> QED
    BY <2>1, MaterializerStart
<1>2. (MaterializerInv /\ Bounded) /\ [Next]_vars => (MaterializerInv /\ Bounded)'
  BY MaterializerStep, BoundedStep
<1>3. MaterializerInv /\ Bounded => TypeOK
  BY DEF MaterializerInv, Bounded, Shape, Unique, TypeOK, IdInv
<1> QED
  BY <1>1, <1>2, <1>3, PTL DEF Spec

\* Whatever commits, merges and materialization do in between, a row that is not flagged
\* stale belongs to a resource that was not merged away, and its time is what the store
\* gives now, unless the chain of relative times is beyond the depth limit or a merge was
\* not made as it was proposed (invalidate, process, the time cache).
THEOREM UnflaggedRowsAreHonest ==
  ASSUME MaxProposals <= MaxHops
  PROVE  Spec => []HonestRows
<1>1. Init => MaterializerInv
  BY MaterializerStart
<1>2. MaterializerInv /\ [Next]_vars => MaterializerInv'
  BY MaterializerStep
<1>3. MaterializerInv => HonestRows
  BY FollowingIsHonest
<1> QED
  BY <1>1, <1>2, <1>3, PTL DEF Spec

\* Also while rows are materialized, every id stands for one resource that was not merged
\* away itself, and belongs to that resource's group only (decide_merge).
THEOREM MaterializedIdentities ==
  ASSUME MaxProposals <= MaxHops
  PROVE  Spec => []OneIdentity
<1>1. Init => MaterializerInv
  BY MaterializerStart
<1>2. MaterializerInv /\ [Next]_vars => MaterializerInv'
  BY MaterializerStep
<1>3. MaterializerInv => OneIdentity
  BY ForestIsOneIdentity DEF MaterializerInv
<1> QED
  BY <1>1, <1>2, <1>3, PTL DEF Spec

=============================================================================
