----------------------------- MODULE Ingestion -----------------------------
(***************************************************************************)
(* What an extractor found in a document, linked to what is known and       *)
(* written with the requests of Requests and Records (link.rs, pipeline.rs). *)
(* An extraction d has mentions, the claims made of them by their position,   *)
(* and observations; the extractor itself (rules.rs) is its input.            *)
(***************************************************************************)
EXTENDS Projection

Existing(id, via) == [decision |-> "existing", id |-> id, via |-> via]
NewOne == [decision |-> "new"]
Ambiguous(ids) == [decision |-> "ambiguous", candidates |-> ids]

-----------------------------------------------------------------------------
(* Linking *)

\* compatible: a type in common other than the root.
Compatible(s, types, id) ==
  (TypeClosure(s, s.resources[id].types) \cap TypeClosure(s, types)) \ {"Resource"} # {}

\* With a fault: among many of a name, none is taken note of.
LinkAmongOrNew(s, e, candidates) ==
  IF e.resource # None /\ Exists(s, e.resource) THEN Existing(Canonical(s, e.resource), "extractor")
  ELSE IF "Event" \in e.types \/ Cardinality(candidates) # 1 THEN NewOne
  ELSE Existing(CHOOSE id \in candidates : TRUE, "label")

LinkAmong(s, e, candidates) ==
  IF e.resource # None /\ Exists(s, e.resource) THEN Existing(Canonical(s, e.resource), "extractor")
  ELSE IF "Event" \in e.types \/ candidates = {} THEN NewOne
  ELSE IF Cardinality(candidates) = 1 THEN Existing(CHOOSE id \in candidates : TRUE, "label")
  ELSE Ambiguous(candidates)

CompatibleNamed(s, e) == {id \in FindByLabel(s, e.label) : Compatible(s, e.types, id)}

LinkDecision(s, e) == LinkAmong(s, e, CompatibleNamed(s, e))

\* The places above, by every live claim that names the id itself, denials included.
SaidAbove(s, id) ==
  LET live(keys) == {c \in Ids(s.claims) : s.claims[c].predicate \in keys /\ s.claims[c].status \in Live}
  IN  ({Canonical(s, AsResource(s.claims[c].object)) :
         c \in {x \in live({"located_in", "inside"}) : s.claims[x].subject = id}}
         \cup {Canonical(s, s.claims[c].subject) :
                 c \in {x \in live({"contains"}) : AsResource(s.claims[x].object) = id}}) \ {None}

\* within, 64 places at most.
IsWithin(s, id, ancestor) ==
  LET up[n \in Nat] == IF n = 0 THEN SaidAbove(s, id) ELSE LET x == up[n - 1] IN x \cup UNION {SaidAbove(s, y) : y \in x}
  IN  ancestor \in up[Smaller(64, Len(s.resources))]

Narrowed(inside) ==
  CASE Cardinality(inside) = 0 -> NewOne
    [] Cardinality(inside) = 1 -> Existing(CHOOSE c \in inside : TRUE, "label")
    [] OTHER -> Ambiguous(inside)

\* A decision d made by the label, below a parent.
LinkWithin(s, d, parent) ==
  CASE d.decision = "existing" -> IF d.via = "label" /\ ~IsWithin(s, d.id, parent) THEN NewOne ELSE d
    [] d.decision = "new" -> d
    [] d.decision = "ambiguous" -> Narrowed({c \in d.candidates : IsWithin(s, c, parent)})

\* The last of the claims that say where a mention is located.
ParentMention(d, i) ==
  Max({n \in DOMAIN d.claims : /\ d.claims[n].predicate = "located_in" /\ d.claims[n].subject = i
                               /\ d.claims[n].object.kind = "mention"} \cup {None})

\* A mention that lies in another is linked only below what that one is linked to, by its label
\* alone: that it may itself turn out to be new is not looked at.
DecisionBelow(s, e, parent) ==
  IF parent.decision = "existing" THEN LinkWithin(s, LinkDecision(s, e), parent.id) ELSE NewOne

Decision(s, d, i) ==
  LET e == d.entities[i]
      n == ParentMention(d, i)
  IN  IF e.resource # None \/ n = None THEN LinkDecision(s, e)
      ELSE DecisionBelow(s, e, LinkDecision(s, d.entities[d.claims[n].object.of]))

Decisions(s, d) == [i \in DOMAIN d.entities |-> Decision(s, d, i)]

\* validate
Valid(s, d) ==
  /\ \A i \in DOMAIN d.entities : \A t \in d.entities[i].types : TypeDefined(s, t)
  /\ \A n \in DOMAIN d.claims :
       /\ d.claims[n].subject \in DOMAIN d.entities
       /\ d.claims[n].object.kind = "mention" => d.claims[n].object.of \in DOMAIN d.entities
  /\ \A n \in DOMAIN d.observations : d.observations[n].target \in DOMAIN d.entities

-----------------------------------------------------------------------------
(* Writing *)

MissingPredicates(s, d) == {k \in {d.claims[n].predicate : n \in DOMAIN d.claims} : ~PredicateDefined(s, k)}

RangeOfMention(object) == IF object.kind = "mention" THEN [kind |-> "resource", types |-> {}] ELSE [kind |-> object.kind]

\* The writes in their order: the source, a resource for each mention, what is left undecided,
\* the predicates that are missing, the claims, the observations.
Steps(s, d, decisions) ==
  LET all(seq, what) == [i \in DOMAIN seq |-> [what |-> what, n |-> i]]
      undecided(i) == IF decisions[i].decision # "ambiguous" THEN <<>>
                      ELSE LET ids == Ascending(decisions[i].candidates)
                           IN  [c \in DOMAIN ids |-> [what |-> "same", n |-> i, id |-> ids[c]]]
      keys == SetToSeq(MissingPredicates(s, d))
  IN  <<[what |-> "source"]>> \o all(d.entities, "entity")
        \o FlattenSeq([i \in DOMAIN d.entities |-> undecided(i)])
        \o [i \in DOMAIN keys |-> [what |-> "predicate", key |-> keys[i]]]
        \o all(d.claims, "claim") \o all(d.observations, "observation")

SourceRequest(d) ==
  [source |-> None, locator |-> d.locator, visibility |-> PublicData, of |-> {}, time |-> d.published,
   origin |-> d.origin, reliability |-> None, root |-> None, license |-> d.license, at |-> d.acquiredAt]

\* When what is measured was so: at the time of the source if it has one.
PublishedAt(d) == IF d.published = UnknownValue THEN d.acquiredAt ELSE d.published.of[2].es

Evidence(st, d, confidence) ==
  <<[acquisition |-> st.acquisition, by |-> d.extractor, extraction |-> confidence]>>

ClaimRequest(st, d, claim) ==
  LET object == IF claim.object.kind = "mention" THEN ResourceValue(Old(st.ids[claim.object.of])) ELSE claim.object
  IN  [Proposal(Old(st.ids[claim.subject]), claim.predicate, object)
        EXCEPT !.evidence = Evidence(st, d, claim.confidence), !.license = d.license]

\* The write of a step.
Write(st, p, d, step) ==
  LET s == st.store
  IN  CASE step.what = "source" -> LinkSource(s, p, SourceRequest(d))
        [] step.what = "entity" -> CreateResource(s, NewResource(<<d.entities[step.n].label>>, d.entities[step.n].types))
        [] step.what = "same" ->
             ProposeAssertion(s, p, [Proposal(Old(st.ids[step.n]), "possibly_same_as", ResourceValue(Old(step.id)))
                                       EXCEPT !.evidence = Evidence(st, d, None)])
        [] step.what = "predicate" ->
             LET first == Min({n \in DOMAIN d.claims : d.claims[n].predicate = step.key})
             IN  ProposePredicate(s, p, [key |-> step.key, wellFormed |-> step.key \notin d.oddKeys, domain |-> {},
                                         range |-> RangeOfMention(d.claims[first].object),
                                         functional |-> FALSE, role |-> "General"])
        [] step.what = "claim" -> ProposeAssertion(s, p, ClaimRequest(st, d, d.claims[step.n]))
        [] step.what = "observation" ->
             LET o == d.observations[step.n]
             IN  AddObservation(s, p, [target |-> st.ids[o.target], metric |-> o.metric, value |-> o.value,
                                       observedAt |-> PublishedAt(d), acquisition |-> st.acquisition])

Wrote(st, step, r) ==
  [st EXCEPT !.store = r.store,
             !.projection = Invalidated(r.store, @, r.touched, r.role),
             !.acquisition = IF step.what = "source" THEN Len(r.store.acquisitions) ELSE @,
             !.ids = IF step.what = "entity" THEN Append(@, Len(r.store.resources)) ELSE @]

\* A claim that is refused is skipped; any other refusal ends the ingestion.
Perform(st, p, d, decisions, step) ==
  IF st.failed THEN st
  ELSE IF step.what = "entity" /\ decisions[step.n].decision = "existing"
  THEN [st EXCEPT !.ids = Append(@, decisions[step.n].id)]
  ELSE LET outcomes == Write(st, p, d, step)
       IN  IF outcomes # {} THEN Wrote(st, step, CHOOSE r \in outcomes : TRUE)
           ELSE [st EXCEPT !.failed = step.what # "claim"]

\* ingest: the first steps of it, where it is cut short; the store and the projection after them.
Ingested(s, projection, p, d, decisions, steps) ==
  FoldLeft(LAMBDA st, step : Perform(st, p, d, decisions, step),
           [store |-> s, projection |-> projection, acquisition |-> None, ids |-> <<>>, failed |-> FALSE],
           SubSeq(Steps(s, d, decisions), 1, steps))
=============================================================================
