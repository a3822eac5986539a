------------------------------- MODULE Store -------------------------------
(***************************************************************************)
(* The canonical store (canonical.rs) as a record s: resources, claims,     *)
(* sources and the vocabulary, what a command does to each, and what of the *)
(* claims a view shows (view.rs, model/security.rs).                        *)
(*                                                                         *)
(* An id is a position in its sequence, 0 is none.  A label is a pair: the  *)
(* text normalize_label makes of it, a sequence of the tokens of tokenize,    *)
(* and the form it was written in.  Only the main branch exists: Branching    *)
(* has the others.                                                           *)
(***************************************************************************)
EXTENDS Vocabulary, FuzzyRange, SequencesExt, TLC

None == 0
Empty == <<>>

\* RankPolicy: weights and factors in percent.
DefaultPolicy ==
  [tier |-> 1, source |-> 35, extraction |-> 20, corroboration |-> 30, specificity |-> 15,
   saturation |-> 3, proposed |-> 80, disputed |-> 50]

EmptyStore ==
  [types |-> Empty, predicates |-> Empty, licenses |-> BuiltInLicenses, policy |-> DefaultPolicy,
   calendars |-> {"gregorian"}, resources |-> <<>>, externals |-> Empty, claims |-> <<>>,
   sources |-> <<>>, acquisitions |-> <<>>, derivations |-> <<>>, proposals |-> <<>>,
   redirects |-> Empty, members |-> Empty, sequences |-> <<>>, tables |-> <<>>, links |-> <<>>,
   observations |-> {}, trajectories |-> <<>>, rows |-> {}, embeddings |-> Empty, clock |-> 1]

Ids(seq) == 1..Len(seq)

\* The members of a set in a strict order.
SortedBy(set, Before(_, _)) ==
  [i \in 1..Cardinality(set) |-> CHOOSE x \in set : Cardinality({y \in set : Before(y, x)}) = i - 1]
Ascending(ids) == SortedBy(ids, <)

-----------------------------------------------------------------------------
(* Values *)

ResourceValue(id) == [kind |-> "resource", of |-> id]
\* A time: where on which axis, and the sorts of expression it was written as, from the outside in.
TimeValue(axis, range, sorts) == [kind |-> "time", of |-> <<axis, range, sorts>>]
GeoValue(frame, at) == [kind |-> "geo", of |-> <<frame, at>>]
UnknownValue == [kind |-> "unknown"]

\* as_resource
AsResource(v) == IF v.kind = "resource" THEN v.of ELSE None

-----------------------------------------------------------------------------
(* Lookup *)

TypeDefined(s, t) == t \in DOMAIN BuiltInTypes \cup DOMAIN s.types

TypeOf(s, t) == IF t \in DOMAIN s.types THEN s.types[t] ELSE BuiltInTypes[t]

PredicateDefined(s, k) == k \in DOMAIN BuiltInPredicates \cup DOMAIN s.predicates

PredicateOf(s, k) == IF k \in DOMAIN s.predicates THEN s.predicates[k] ELSE BuiltInPredicates[k]

RoleOf(s, k) == PredicateOf(s, k).role

\* resolve_id: sixteen redirects at most.
Follow(s, id) == IF id \in DOMAIN s.redirects THEN s.redirects[id] ELSE id
Canonical(s, id) ==
  LET hop[n \in 0..16] == IF n = 0 THEN id ELSE Follow(s, hop[n - 1])
  IN  IF id \in DOMAIN s.redirects THEN hop[16] ELSE id

\* identity_group: the resource, and what was merged into it, breadth first.
MergedInto(s, id) == IF id \in DOMAIN s.members THEN s.members[id] ELSE <<>>
\* With a fault: what was merged into those that were merged into it is left out.
DirectGroup(s, id) == <<id>> \o MergedInto(s, id)

Group(s, id) ==
  IF id \notin DOMAIN s.members THEN <<id>>
  ELSE FoldLeft(LAMBDA group, i : IF i <= Len(group) /\ Len(group) < 256
                                  THEN group \o MergedInto(s, group[i]) ELSE group,
                <<id>>, [i \in Ids(s.resources) |-> i])

\* type_closure: the types and all types above them; an unknown type has none.
ParentsOf(s, t) == IF TypeDefined(s, t) THEN TypeOf(s, t).parents ELSE {}
TypeClosure(s, types) ==
  LET up[n \in Nat] ==
        IF n = 0 THEN types ELSE LET below == up[n - 1] IN below \cup UNION {ParentsOf(s, t) : t \in below}
  IN  up[Cardinality(DOMAIN s.types) + 4]

Normal(label) == label[1]

\* find_by_label, by the exact normalised text.
Named(s, id, text) == \E l \in Range(s.resources[id].labels) : Normal(l) = text
FindByLabel(s, label) ==
  {Canonical(s, id) : id \in {x \in Ids(s.resources) : Named(s, x, Normal(label))}}

FindByExternal(s, ext) == IF ext \in DOMAIN s.externals THEN Canonical(s, s.externals[ext]) ELSE None

-----------------------------------------------------------------------------
(* Commands *)

Put(table, key, value) == key :> value @@ table

WithType(s, key, def) == [s EXCEPT !.types = Put(s.types, key, def)]

WithPredicate(s, key, def) == [s EXCEPT !.predicates = Put(s.predicates, key, def)]

WithLicense(s, key, free) == [s EXCEPT !.licenses = Put(s.licenses, key, free)]

\* The last one to claim an external id has it.
Claiming(externals, exts, id) == [e \in exts |-> id] @@ externals

WithResource(s, r) ==
  LET id == Len(s.resources) + 1
  IN  [s EXCEPT !.resources = Append(s.resources, r),
                !.externals = Claiming(s.externals, r.externals, id)]

\* UpdateResource: adds what is not there yet, then takes types away.
WithUpdate(s, id, labels, exts, types, removed) ==
  [s EXCEPT !.resources[id].labels = @ \o SelectSeq(labels, LAMBDA l : l \notin Range(s.resources[id].labels)),
            !.resources[id].externals = @ \cup exts,
            !.resources[id].types = (@ \cup types) \ removed,
            !.externals = Claiming(s.externals, exts, id)]

\* first_known: when the earliest of the acquisitions behind it was made, if that was earlier.
Acquired(s, evidence) == {s.acquisitions[e.acquisition].at : e \in Range(evidence)}
FirstKnown(s, evidence, now) == Min(Acquired(s, evidence) \cup {now})

WithClaim(s, claim) ==
  [s EXCEPT !.claims = Append(s.claims, [claim EXCEPT !.known = FirstKnown(s, claim.evidence, @)])]

WithStatus(s, id, change) ==
  [s EXCEPT !.claims[id].status = change.to, !.claims[id].history = Append(@, change)]

WithSupersede(s, old, new) ==
  [s EXCEPT !.claims[old].supersededBy = new, !.claims[new].supersedes = old]

WithEvidence(s, id, e) ==
  [s EXCEPT !.claims[id].evidence = IF e \in Range(@) THEN @ ELSE Append(@, e),
            !.claims[id].known = Smaller(@, s.acquisitions[e.acquisition].at)]

WithSource(s, source) == [s EXCEPT !.sources = Append(s.sources, source)]

WithAcquisition(s, acquisition) == [s EXCEPT !.acquisitions = Append(s.acquisitions, acquisition)]

WithDerivation(s, derivation) == [s EXCEPT !.derivations = Append(s.derivations, derivation)]

\* DecideMerge: the redirect goes between the ids it names, not those of the proposal.
WithDecision(s, id, approve, from, into) ==
  LET decided == [s EXCEPT !.proposals[id].status = IF approve THEN "approved" ELSE "rejected"]
  IN  IF ~approve THEN decided
      ELSE [decided EXCEPT !.redirects = Put(s.redirects, from, into),
                           !.members = Put(s.members, into, Append(MergedInto(s, into), from))]

WithLink(s, link) == [s EXCEPT !.links = Append(s.links, link)]

-----------------------------------------------------------------------------
(* Principals and views *)

PublicData == [level |-> "public"]
PrivateTo(owner) == [level |-> "private", owner |-> owner]
SharedWith(groups) == [level |-> "groups", groups |-> groups]

Principal(name, kind, curator, groups, owner) ==
  [name |-> name, kind |-> kind, curator |-> curator, groups |-> groups, onBehalfOf |-> owner]

Anonymous == Principal("anonymous", "agent", FALSE, {}, "nobody")

ActsFor(p, owner) == p.name = owner \/ p.onBehalfOf = owner

CanSee(p, v) ==
  \/ v.level = "public"
  \/ p.kind = "system"
  \/ v.level = "groups" /\ v.groups \cap p.groups # {}
  \/ v.level = "private" /\ ActsFor(p, v.owner)

IsCurator(p) == p.curator /\ p.kind # "agent"

Live == {"accepted", "proposed", "disputed"}

\* The view of the projection; a canon, timelines or a past time narrow it.
ProjectionView == [canon |-> None, timelines |-> {}, knownAt |-> PosInf, statuses |-> Live, who |-> Anonymous]

\* is_projection_equivalent
AsProjected(view) == [view EXCEPT !.who = Anonymous] = ProjectionView

\* When a status change was known: when what it rests on was acquired, or when it was recorded.
KnownSince(change) == IF change.basis # None THEN change.basis ELSE change.at

\* With a fault: whatever is known now was known then.
LatestStatus(claim, t) == claim.status

StatusAt(claim, t) ==
  LET first == IF claim.history = <<>> THEN claim.status ELSE claim.history[1].from
  IN  FoldLeft(LAMBDA status, change : IF KnownSince(change) > t THEN status ELSE change.to,
               first, claim.history)

\* effective_status, of a claim the view shows.
Shown(claim, view) ==
  /\ claim.known <= view.knownAt
  /\ StatusAt(claim, view.knownAt) \in view.statuses
  /\ CanSee(view.who, claim.visibility)
  /\ view.canon # None /\ claim.canon # None => view.canon = claim.canon
  /\ view.timelines # {} /\ claim.timeline # None => claim.timeline \in view.timelines

ShownClaims(s, view) == {c \in Ids(s.claims) : Shown(s.claims[c], view)}

IsLive(s, c, view) == StatusAt(s.claims[c], view.knownAt) \in Live

ClaimsAbout(s, id, view) ==
  LET group == Range(Group(s, id)) IN {c \in ShownClaims(s, view) : s.claims[c].subject \in group}

ClaimsReferencing(s, id, view) ==
  LET group == Range(Group(s, id)) IN {c \in ShownClaims(s, view) : AsResource(s.claims[c].object) \in group}
=============================================================================
