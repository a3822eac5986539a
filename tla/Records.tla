------------------------------ MODULE Records ------------------------------
(***************************************************************************)
(* The other write requests (write.rs): identity, sources, observations,    *)
(* vocabulary and schema, sequences, tables and embeddings.  An outcome is   *)
(* as in Requests.                                                          *)
(***************************************************************************)
EXTENDS Requests

(* Identity *)

\* Only the claims about the two ids themselves are looked at, not those about what was merged into them.
KeptApart(s, a, b) ==
  \E c \in Ids(s.claims) :
    LET claim == s.claims[c]
    IN  /\ claim.subject \in {a, b} /\ AsResource(claim.object) \in {a, b}
        /\ claim.predicate = "distinct_from" /\ claim.status \in Live /\ ~claim.negated

MergeIdentity(s, q) ==
  LET from == Canonical(s, q.from)
      into == Canonical(s, q.into)
      proposal == [from |-> from, into |-> into, status |-> "proposed", at |-> s.clock]
  IN  If(/\ Exists(s, q.from) /\ Exists(s, q.into)
         /\ from # into
         /\ ~KeptApart(s, from, into),
         Committed([s EXCEPT !.proposals = Append(@, proposal)], {}, NoRole))

\* What the decision touches are the ids of the proposal, with no role that spreads it.
DecideMerge(s, p, id, approve) ==
  LET from == Canonical(s, s.proposals[id].from)
      into == Canonical(s, s.proposals[id].into)
  IN  IF ~IsCurator(p) \/ id \notin Ids(s.proposals) THEN {}
      ELSE If(/\ s.proposals[id].status = "proposed"
              /\ approve => from # into,
              Committed(WithDecision(s, id, approve, from, into),
                        {s.proposals[id].from, s.proposals[id].into}, "Identity"))

-----------------------------------------------------------------------------
(* Sources *)

MaySee(s, p, source) == source \in Ids(s.sources) /\ CanSee(p, s.sources[source].visibility)

\* check_new_visibility
MayOwn(p, v) ==
  \/ v.level = "public"
  \/ v.level = "private" /\ (ActsFor(p, v.owner) \/ p.kind = "system")
  \/ v.level = "groups" /\ v.groups # {} /\ CanSee(p, v)

\* source_by_locator: the last source with the locator and the same visibility.
SourceAt(s, locator, visibility) ==
  Max({x \in Ids(s.sources) : s.sources[x].locator = locator /\ s.sources[x].visibility = visibility} \cup {None})

\* link_source finds the source by its id or its locator, or registers it; either way it has
\* been read once more.
NamedSource(s, q) == IF q.source # None THEN q.source ELSE SourceAt(s, q.locator, q.visibility)

MayLink(s, p, q) ==
  /\ MayOwn(p, q.visibility)
  /\ \A source \in {q.source, q.root} \ {None} : MaySee(s, p, source)
  /\ q.license \in DOMAIN s.licenses \cup {"none"}
  /\ NamedSource(s, q) = None => \A ref \in q.of : MayRefer(s, ref)

Registered(s, q) ==
  LET ref == CHOOSE r \in q.of : TRUE
      about == IF q.of = {} THEN None ELSE Referred(s, ref)
  IN  WithSource(IF q.of = {} THEN s ELSE Referring(s, ref),
                 [locator |-> q.locator, visibility |-> q.visibility, resource |-> about, time |-> q.time,
                  origin |-> q.origin, reliability |-> q.reliability, root |-> q.root, license |-> q.license])

LinkSource(s, p, q) ==
  LET known  == NamedSource(s, q)
      after  == IF known = None THEN Registered(s, q) ELSE s
      source == IF known = None THEN Len(after.sources) ELSE known
  IN  If(MayLink(s, p, q),
         Committed(WithAcquisition(after, [source |-> source, at |-> q.at]),
                   {after.sources[source].resource} \ {None}, NoRole))

-----------------------------------------------------------------------------
(* Observations and trajectories: kept under the id of their target as it is now. *)

AddObservation(s, p, q) ==
  If(/\ Exists(s, q.target)
     /\ q.acquisition # None => MayCite(s, p, q.acquisition),
     Committed([s EXCEPT !.observations = @ \cup {[q EXCEPT !.target = Canonical(s, q.target)] @@ ("at" :> s.clock)}],
               {}, NoRole))

ByTime(samples) == SortSeq(samples, LAMBDA a, b : a.t < b.t)

AddTrajectory(s, p, q) ==
  If(/\ Exists(s, q.target)
     /\ q.acquisition # None => MayCite(s, p, q.acquisition),
     Committed([s EXCEPT !.trajectories = Append(@, [target |-> Canonical(s, q.target), samples |-> ByTime(q.samples),
                                                     interpolation |-> q.interpolation])],
               {}, NoRole))

-----------------------------------------------------------------------------
(* Vocabulary and schema: every row is computed again. *)

Redefined(s) == Committed(s, {Everything}, NoRole)

GrantedVocabulary(p) == IF IsCurator(p) THEN "accepted" ELSE "proposed"

ProposePredicate(s, p, q) ==
  If(/\ ~PredicateDefined(s, q.key) /\ q.wellFormed
     /\ \A t \in q.domain : TypeDefined(s, t)
     /\ q.role # "TemporalRelation",
     Redefined(WithPredicate(s, q.key, [role |-> q.role, range |-> q.range, domain |-> q.domain,
                                        functional |-> q.functional, status |-> GrantedVocabulary(p)])))

AcceptPredicate(s, p, key) ==
  If(IsCurator(p) /\ PredicateDefined(s, key),
     Redefined(WithPredicate(s, key, [PredicateOf(s, key) EXCEPT !.status = "accepted"])))

ProposeType(s, p, q) ==
  If(/\ ~TypeDefined(s, q.key)
     /\ \A t \in q.parents : TypeDefined(s, t),
     Redefined(WithType(s, q.key, [parents |-> q.parents, status |-> GrantedVocabulary(p)])))

DefineCalendar(s, p, key, wellFormed) ==
  If(IsCurator(p) /\ key \notin {"gregorian", "julian"} /\ wellFormed,
     Redefined([s EXCEPT !.calendars = @ \cup {key}]))

DefineLicense(s, p, key, free) == If(IsCurator(p), Redefined(WithLicense(s, key, free)))

SetRankPolicy(s, p, policy) == If(IsCurator(p), Redefined([s EXCEPT !.policy = policy]))

-----------------------------------------------------------------------------
(* Sequences, tables and embeddings *)

DefineSequence(s, q) ==
  If(\A id \in {q.scope} \cup Range(q.items) \cup ({q.canon} \ {None}) : Exists(s, id),
     Committed([s EXCEPT !.sequences = Append(@, [q EXCEPT !.scope = Canonical(s, q.scope), !.canon = Canonical(s, q.canon),
                                                           !.items = [i \in DOMAIN q.items |-> Canonical(s, q.items[i])]])],
               {}, NoRole))

DefineTable(s, q) ==
  If(MayRefer(s, q.dataset) /\ q.primaryKey \subseteq q.columns,
     LET created == IF IsNew(q.dataset) THEN {Len(s.resources) + 1} ELSE {}
     IN  Committed([Referring(s, q.dataset) EXCEPT !.tables = Append(@, [q EXCEPT !.dataset = Referred(s, q.dataset)])],
                   created, NoRole))

AddTableRows(s, table, rows) ==
  If(/\ table \in Ids(s.tables) /\ s.tables[table].inline
     /\ \A r \in rows : s.tables[table].primaryKey \subseteq DOMAIN r,
     Committed([s EXCEPT !.rows = @ \cup {[table |-> table, row |-> r] : r \in rows}], {}, NoRole))

LinkRow(s, table, key, id) ==
  If(table \in Ids(s.tables) /\ Exists(s, id),
     Committed(WithLink(s, [table |-> table, key |-> key, resource |-> Canonical(s, id)]), {}, NoRole))

\* The first vector of a space fixes its dimension.
Dimension(s, space) ==
  LET set == {k \in DOMAIN s.embeddings : k[1] = space} IN IF set = {} THEN None ELSE Len(s.embeddings[CHOOSE k \in set : TRUE])

SetEmbedding(s, id, space, vector) ==
  If(Exists(s, id) /\ Dimension(s, space) \in {None, Len(vector)},
     Committed([s EXCEPT !.embeddings = Put(@, <<space, Canonical(s, id)>>, vector)], {}, NoRole))
=============================================================================
