------------------------------- MODULE Facts -------------------------------
(***************************************************************************)
(* What a view of the store says of a resource (facts.rs, rank.rs): which   *)
(* claim of a predicate is preferred, when and where the resource is, and   *)
(* what it is related to.  Times relative to others are in Materializer;     *)
(* here a time is a range on an axis.                                        *)
(***************************************************************************)
EXTENDS Store

-----------------------------------------------------------------------------
(* Claims and their rank *)

SourceOf(s, e) == s.sources[s.acquisitions[e.acquisition].source]

\* Source::root: what it was reprinted from, one step back.
Root(s, id) == IF s.sources[id].root = None THEN id ELSE s.sources[id].root

\* The sources a claim rests on; who asserts a claim without evidence stands for one.
Roots(s, claim) ==
  IF claim.evidence = <<>> THEN {claim.by.name}
  ELSE {Root(s, s.acquisitions[e.acquisition].source) : e \in Range(claim.evidence)}

\* Claims that say the same: corroboration is counted over them.
SayTheSame(a, b) == a.predicate = b.predicate /\ a.object = b.object /\ a.negated = b.negated

IndependentSources(s, claims, c) ==
  Cardinality(UNION {Roots(s, s.claims[d]) : d \in {x \in claims : SayTheSame(s.claims[x], s.claims[c])}})

OriginOrder == [primary |-> 0, secondary |-> 1, tertiary |-> 2, unknown |-> 3]

BestOrigin(s, claim) ==
  LET origins == {SourceOf(s, e).origin : e \in Range(claim.evidence)} \cup {"unknown"}
  IN  CHOOSE o \in origins : \A other \in origins : OriginOrder[o] <= OriginOrder[other]

ByModel(s, e) == e.derivation # None /\ s.derivations[e.derivation].model

AiOnly(s, claim) ==
  IF claim.evidence = <<>> THEN claim.by.kind = "agent" ELSE \A e \in Range(claim.evidence) : ByModel(s, e)

\* RankPolicy::tier
Tier(s, claim, sources) ==
  IF claim.verified THEN 4
  ELSE IF sources >= 2 THEN 3
  ELSE IF AiOnly(s, claim) THEN 0
  ELSE IF BestOrigin(s, claim) = "primary" THEN 2 ELSE 1

DefaultReliability == [primary |-> 80, secondary |-> 60, tertiary |-> 45, unknown |-> 40]

\* The reliability stated of the claim or of a source of it, else what the kind of source has.
Reliability(s, claim) ==
  LET stated == {SourceOf(s, e).reliability : e \in Range(claim.evidence)} \ {None}
  IN  IF claim.reliability # None THEN claim.reliability
      ELSE IF stated # {} THEN Max(stated) ELSE DefaultReliability[BestOrigin(s, claim)]

\* How sure the extractor was: what the claim says, else the best of what it was derived by.
Extraction(s, claim) ==
  LET derived == {s.derivations[e.derivation].extraction : e \in {x \in Range(claim.evidence) : x.derivation # None}}
  IN  IF claim.extraction # None THEN claim.extraction ELSE Max(derived \cup {None})

SpecificityOfSort ==
  [clock |-> 100, day |-> 85, third |-> 70, month |-> 60, year |-> 40, interval |-> 50, relative |-> 60,
   weekday |-> 80, recurring |-> 70, between |-> 30, unparsed |-> 0]

\* ast_specificity: each approx around an expression takes a fifth of it.
Specificity(sorts) == FoldLeft(LAMBDA n, around : (n * 4) \div 5, SpecificityOfSort[Last(sorts)], Front(sorts))

Corroboration(policy, sources) == Smaller(100, ((Larger(sources, 1) - 1) * 100) \div Larger(policy.saturation, 1))

StatusFactor(policy, status) ==
  CASE status = "accepted" -> 100
    [] status = "proposed" -> policy.proposed
    [] status = "disputed" -> policy.disputed
    [] OTHER               -> 0

\* The components of a score with their weights; the last two only of claims that have them.
Components(s, claim, sources) ==
  <<<<s.policy.source, Reliability(s, claim)>>, <<s.policy.corroboration, Corroboration(s.policy, sources)>>>>
    \o (IF Extraction(s, claim) = None THEN <<>> ELSE <<<<s.policy.extraction, Extraction(s, claim)>>>>)
    \o (IF claim.object.kind # "time" THEN <<>> ELSE <<<<s.policy.specificity, Specificity(claim.object.of[3])>>>>)

\* RankPolicy::compute, in millionths: the tier, and a score below one that stays within it.
Score(components, factor) ==
  LET weights == FoldLeft(LAMBDA n, x : n + x[1], 0, components)
      sum     == FoldLeft(LAMBDA n, x : n + x[1] * x[2], 0, components)
  IN  IF weights = 0 THEN 0 ELSE (sum * 100 * factor) \div weights

Rank(s, claim, sources, status) ==
  s.policy.tier * 1000000 * Tier(s, claim, sources)
    + Smaller(Score(Components(s, claim, sources), StatusFactor(s.policy, status)), 999999)

\* Only claims that are live corroborate each other.
RankValue(s, claims, c, view) ==
  Rank(s, s.claims[c],
       IF IsLive(s, c, view) THEN IndependentSources(s, {x \in claims : IsLive(s, x, view)}, c) ELSE 0,
       StatusAt(s.claims[c], view.knownAt))

-----------------------------------------------------------------------------
(* What the claims about a resource amount to *)

StatusOrder == [accepted |-> 0, proposed |-> 1, disputed |-> 2, retracted |-> 3, superseded |-> 4]

\* summarize: the best ranked first, then the better status, then the older.
Sooner(a, b) ==
  \/ a[1] > b[1]
  \/ a[1] = b[1] /\ a[2] < b[2]
  \/ a[1] = b[1] /\ a[2] = b[2] /\ a[3] < b[3]

InOrder(standing) == SortedBy(DOMAIN standing, LAMBDA c, d : Sooner(standing[c], standing[d]))

Saying(s, claims, view, key) == {c \in claims : IsLive(s, c, view) /\ s.claims[c].predicate = key}

Values(s, claims, view, key) ==
  InOrder([c \in {x \in Saying(s, claims, view, key) : ~s.claims[x].negated} |->
             <<RankValue(s, claims, c, view), StatusOrder[StatusAt(s.claims[c], view.knownAt)], c>>])

Contested(s, claims, view, key) ==
  LET saying   == Saying(s, claims, view, key)
      objects(negated) == {s.claims[c].object : c \in {x \in saying : s.claims[x].negated = negated}}
  IN  \/ PredicateOf(s, key).functional /\ Cardinality(objects(FALSE)) > 1
      \/ objects(FALSE) \cap objects(TRUE) # {}
      \/ \E c \in saying : StatusAt(s.claims[c], view.knownAt) = "disputed"

ContestedKeys(s, claims, view) ==
  {k \in {s.claims[c].predicate : c \in claims} : Contested(s, claims, view, k)}

-----------------------------------------------------------------------------
(* Time *)

NoTime == [kind |-> "none"]
Incomparable == [kind |-> "incomparable"]
\* The program panics: "start or end exists".
Failed == [kind |-> "failed"]
Resolved(axis, range, claim, contested, others) ==
  [kind |-> "resolved", axis |-> axis, range |-> range, claim |-> claim,
   contested |-> contested, alternatives |-> others]

IsTimeClaim(s, c) == RoleOf(s, s.claims[c].predicate) = "EventTime" /\ s.claims[c].object.kind = "time"

AxisOf(s, c) == s.claims[c].object.of[1]
WhenOf(s, c) == s.claims[c].object.of[2]

\* A document without a time of its own has the time its source was published.
PublicationTime(s, id) ==
  LET dated == {x \in Ids(s.sources) : s.sources[x].resource = id /\ s.sources[x].time # UnknownValue}
  IN  IF dated = {} THEN NoTime
      ELSE LET t == s.sources[Min(dated)].time.of IN Resolved(t[1], t[2], None, FALSE, {})

\* A start and an end, one of which may be missing.
FromTo(s, starts, ends, contested) ==
  LET first == IF starts = <<>> THEN ends[1] ELSE starts[1]
      from  == IF starts = <<>> THEN Range4(NegInf, PosInf, NegInf, PosInf) ELSE WhenOf(s, starts[1])
      to    == IF ends = <<>> THEN Range4(NegInf, PosInf, NegInf, PosInf) ELSE WhenOf(s, ends[1])
  IN  IF starts # <<>> /\ ends # <<>> /\ AxisOf(s, starts[1]) # AxisOf(s, ends[1]) THEN Incomparable
      ELSE Resolved(AxisOf(s, first), Normalized(Range4(from.es, from.le, to.es, to.le)), first, contested, {})

\* compute_time: occurred_at is preferred to start_time and end_time.
TimeAmong(s, id, claims, occurred, starts, ends, contested) ==
  IF claims = {} THEN PublicationTime(s, id)
  ELSE IF occurred # <<>>
  THEN Resolved(AxisOf(s, Head(occurred)), WhenOf(s, Head(occurred)), Head(occurred), contested,
                {s.claims[c].object.of : c \in Range(Tail(occurred))})
  ELSE IF starts = <<>> /\ ends = <<>> THEN Failed
  ELSE FromTo(s, starts, ends, contested)

TimeSaid(s, id, claims, view) ==
  TimeAmong(s, id, claims, Values(s, claims, view, "occurred_at"), Values(s, claims, view, "start_time"),
            Values(s, claims, view, "end_time"), ContestedKeys(s, claims, view) # {})

TimeOf(s, id, view) == TimeSaid(s, id, {c \in ClaimsAbout(s, id, view) : IsTimeClaim(s, c)}, view)

-----------------------------------------------------------------------------
(* Hierarchies *)

Affirmed(s, claims, view) == {c \in claims : IsLive(s, c, view) /\ ~s.claims[c].negated}

ObjectOf(s, c) == Canonical(s, AsResource(s.claims[c].object))
SubjectOf(s, c) == Canonical(s, s.claims[c].subject)
ObjectsOf(s, claims) == {ObjectOf(s, c) : c \in {x \in claims : AsResource(s.claims[x].object) # None}}

WithKeys(s, claims, keys) == {c \in claims : s.claims[c].predicate \in keys}

\* place_parents: what it is said to be in, and what is said to contain it.
PlaceParents(s, place, view) ==
  ObjectsOf(s, WithKeys(s, Affirmed(s, ClaimsAbout(s, place, view), view), {"located_in", "inside"}))
    \cup {SubjectOf(s, c) :
            c \in WithKeys(s, Affirmed(s, ClaimsReferencing(s, place, view), view), {"contains"})}

WorkParents(s, work, view) ==
  ObjectsOf(s, WithKeys(s, Affirmed(s, ClaimsAbout(s, work, view), view), {"part_of_work"}))

\* closure, 32 levels at most: the starts and all above them.
Above(starts, parents) ==
  LET up[n \in Nat] == IF n = 0 THEN starts
                       ELSE LET below == up[n - 1] IN below \cup UNION {parents[x] : x \in below}
  IN  up[Smaller(31, Cardinality(DOMAIN parents))]

PlacesAbove(s, starts, view) ==
  IF starts = {} THEN {} ELSE Above(starts, [p \in Ids(s.resources) |-> PlaceParents(s, p, view)])

WorksAbove(s, starts, view) ==
  IF starts = {} THEN {} ELSE Above(starts, [w \in Ids(s.resources) |-> WorkParents(s, w, view)])

-----------------------------------------------------------------------------
(* Facts *)

\* The claims of the predicates with a role.
OfRole(s, claims, role) == {c \in claims : RoleOf(s, s.claims[c].predicate) = role}

\* The types of a resource are the keys it was given.  A claim that it is an instance of something
\* adds the id of a resource, and no type has an id of those: write.rs:520 takes only what is in
\* resources, where DefineType puts nothing.  So such an id has nothing above it.
TypesOf(s, id) == TypeClosure(s, s.resources[id].types)
ClassesOf(s, claims) == {AsResource(s.claims[c].object) : c \in OfRole(s, claims, "Typing")} \ {None}

\* Where it is: a place is at itself; what is no place is also where it is located.
PlacesOf(s, id, claims, types) ==
  ObjectsOf(s, OfRole(s, claims, "Location"))
    \cup (IF "Place" \in types THEN {id} ELSE ObjectsOf(s, OfRole(s, claims, "SpatialContainment")))

Nowhere == [at |-> UnknownValue, from |-> None]

\* The first of the claims about a resource: its own come before those merged into it.
First(s, id, claims) ==
  LET group == Group(s, id)
      at(c) == CHOOSE i \in DOMAIN group : group[i] = s.claims[c].subject
  IN  CHOOSE c \in claims : \A d \in claims : at(c) < at(d) \/ (at(c) = at(d) /\ c <= d)

\* inherited_placement: the coordinates of the only place below all the others, if there is one.
Lowest(s, places, view) == {p \in places : \A q \in places \ {p} : p \notin PlacesAbove(s, {q}, view)}

PlacementOf(s, leaf, located) ==
  IF located = {} THEN Nowhere ELSE [at |-> s.claims[First(s, leaf, located)].object, from |-> leaf]

InheritedPlacement(s, lowest, view) ==
  IF Cardinality(lowest) # 1 THEN Nowhere
  ELSE LET leaf == CHOOSE p \in lowest : TRUE
       IN  PlacementOf(s, leaf, {c \in OfRole(s, ClaimsAbout(s, leaf, view), "Coordinates") :
                                   IsLive(s, c, view) /\ s.claims[c].object.kind = "geo"})

\* What is said of where it is itself, by the first of the predicates that say so: they are in
\* the order of their ids, which are hashes, and CHOOSE stands for it.
OwnCoordinates(s, claims, view) ==
  LET keys == {k \in {s.claims[c].predicate : c \in OfRole(s, claims, "Coordinates")} : Values(s, claims, view, k) # <<>>}
  IN  IF keys = {} THEN <<>> ELSE Values(s, claims, view, CHOOSE k \in keys : TRUE)

Placement(s, id, own, places, view) ==
  IF own # <<>> /\ s.claims[Head(own)].object.kind = "geo"
  THEN [at |-> s.claims[Head(own)].object, from |-> None]
  ELSE InheritedPlacement(s, Lowest(s, places \ {id}, view), view)

\* The other end of the claims that relate it to something.
EntitiesOf(s, id, claims, incoming, view) ==
  LET related(all) == Affirmed(s, {c \in all : RoleOf(s, s.claims[c].predicate)
                                                 \in {"General", "TemporalRelation", "Adaptation"}}, view)
      other(c) == IF SubjectOf(s, c) = id THEN AsResource(s.claims[c].object) ELSE s.claims[c].subject
  IN  {Canonical(s, other(c)) : c \in {x \in related(claims \cup incoming) : other(x) # None}} \ {id}

Redistributable(s, license) == license = "none" \/ license \notin DOMAIN s.licenses \/ s.licenses[license]

FactsAmong(s, id, view, claims, live, said, types, places) ==
  [types     |-> types,
   classes   |-> ClassesOf(s, said),
   time      |-> TimeOf(s, id, view),
   placement |-> Placement(s, id, OwnCoordinates(s, claims, view), places, view),
   places    |-> places,
   ancestors |-> PlacesAbove(s, places, view),
   entities  |-> EntitiesOf(s, id, claims, ClaimsReferencing(s, id, view), view),
   works     |-> WorksAbove(s, ObjectsOf(s, OfRole(s, said, "WorkMembership"))
                                 \cup (IF "Work" \in types THEN {id} ELSE {}), view),
   canons    |-> {s.claims[c].canon : c \in live} \ {None},
   timelines |-> {s.claims[c].timeline : c \in live} \ {None},
   stated    |-> live # {},
   contested |-> ContestedKeys(s, claims, view),
   known     |-> IF live = {} THEN s.resources[id].at ELSE Min({s.claims[c].known : c \in live}),
   free      |-> /\ Redistributable(s, s.resources[id].license)
                 /\ \A c \in live : Redistributable(s, s.claims[c].license),
   rank      |-> Max({RankValue(s, claims, c, view) : c \in said} \cup {0})]

\* compute, for an id that is not redirected.
FactsOf(s, id, view) ==
  LET claims == ClaimsAbout(s, id, view)
      said   == Affirmed(s, claims, view)
      types  == TypesOf(s, id)
  IN  FactsAmong(s, id, view, claims, {c \in claims : IsLive(s, c, view)}, said, types,
                 PlacesOf(s, id, said, types))
=============================================================================
