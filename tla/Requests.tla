------------------------------ MODULE Requests ------------------------------
(***************************************************************************)
(* The write requests (write.rs) on the main branch, other than those of    *)
(* Branching and ConversationHistory: what each one commits.  A request      *)
(* yields the set of its outcomes: one, or none where the code refuses it.   *)
(* An outcome is the store it leaves and what its commands touch.            *)
(*                                                                         *)
(* Texts, units and wording are left out, and so are encryption and the     *)
(* bytes of snapshots; the clock moves on with every commit.                *)
(***************************************************************************)
EXTENDS Facts

If(granted, outcome) == IF granted THEN {outcome} ELSE {}

\* commit_batch.  No id stands for a change that touches every row.
Committed(s, touched, role) == [store |-> [s EXCEPT !.clock = @ + 1], touched |-> touched, role |-> role]
NoRole == "none"
Everything == None

Exists(s, id) == Canonical(s, id) \in Ids(s.resources)

-----------------------------------------------------------------------------
(* Resources *)

NewResource(labels, types) ==
  [labels |-> labels, types |-> types, externals |-> {}, visibility |-> PublicData, license |-> "none"]

\* new_resource looks for the external ids in the store, not in the same request.
MayCreate(s, n) ==
  /\ n.labels # <<>>
  /\ \A t \in n.types : TypeDefined(s, t)
  /\ \A e \in n.externals : FindByExternal(s, e) = None
  /\ n.license \in DOMAIN s.licenses \cup {"none"}

Created(s, n) == WithResource(s, n @@ ("at" :> s.clock))

CreateResource(s, n) == If(MayCreate(s, n), Committed(Created(s, n), {Len(s.resources) + 1}, NoRole))

\* The command could take types away as well; no request does.
UpdateResource(s, q) ==
  LET id == Canonical(s, q.id)
  IN  If(/\ Exists(s, q.id)
         /\ \A e \in q.externals : FindByExternal(s, e) \in {None, id}
         /\ \A t \in q.types : TypeDefined(s, t),
         Committed(WithUpdate(s, id, q.labels, q.externals, q.types, {}), {id}, NoRole))

\* A reference is an id, or a resource to be created.
IsNew(ref) == "new" \in DOMAIN ref
Old(id) == [id |-> id]
New(n) == [new |-> n]
MayRefer(s, ref) == IF IsNew(ref) THEN MayCreate(s, ref.new) ELSE Exists(s, ref.id)
Referring(s, ref) == IF IsNew(ref) THEN Created(s, ref.new) ELSE s
Referred(s, ref) == IF IsNew(ref) THEN Len(s.resources) + 1 ELSE Canonical(s, ref.id)

-----------------------------------------------------------------------------
(* Claims *)

\* visible_acquisition
MayCite(s, p, acquisition) ==
  acquisition \in Ids(s.acquisitions) /\ CanSee(p, s.sources[s.acquisitions[acquisition].source].visibility)

\* derivation_cmd: evidence by an extractor registers how it was derived.
Deriving(s, e) ==
  IF e.by = "hand" THEN s
  ELSE WithDerivation(s, [acquisition |-> e.acquisition, model |-> e.by = "model",
                          extraction |-> e.extraction, at |-> s.clock])
Cited(s, e) == [acquisition |-> e.acquisition, derivation |-> IF e.by = "hand" THEN None ELSE Len(s.derivations) + 1]

\* Registers the derivations one by one.
Citing(s, evidence) ==
  FoldLeft(LAMBDA done, e : [store |-> Deriving(done.store, e),
                             evidence |-> Append(done.evidence, Cited(done.store, e))],
           [store |-> s, evidence |-> <<>>], evidence)

\* check_range
InRange(s, key, object) ==
  LET range == PredicateOf(s, key).range
  IN  \/ range.kind = "any" \/ object.kind = "unknown"
      \/ /\ range.kind = "resource" /\ object.kind = "resource"
         /\ range.types = {} \/ range.types \cap TypeClosure(s, s.resources[object.of].types) # {}
      \/ range.kind # "resource" /\ object.kind = range.kind

InDomain(s, key, subject) ==
  LET domain == PredicateOf(s, key).domain
  IN  domain = {} \/ domain \cap TypeClosure(s, s.resources[subject].types) # {}

\* Only a human curator may state a claim as anything but proposed.
GrantedStatus(p, status) == IF IsCurator(p) THEN status ELSE "proposed"

Proposal(subject, key, object) ==
  [subject |-> subject, predicate |-> key, object |-> object, negated |-> FALSE, canon |-> None,
   timeline |-> None, status |-> "proposed", evidence |-> <<>>, visibility |-> PublicData,
   license |-> "none", reliability |-> None, extraction |-> None]

\* An object that is a resource is given as a reference.
ObjectRef(q) == IF q.object.kind = "resource" THEN {q.object.of} ELSE {}

MayPropose(s, p, q) ==
  /\ PredicateDefined(s, q.predicate) /\ PredicateOf(s, q.predicate).status # "deprecated"
  /\ \A ref \in {q.subject} \cup ObjectRef(q) : MayRefer(s, ref)
  /\ \A e \in Range(q.evidence) : MayCite(s, p, e.acquisition)
  /\ GrantedStatus(p, q.status) \in Live
  /\ q.license \in DOMAIN s.licenses \cup {"none"}
  /\ \A id \in {q.canon, q.timeline} \ {None} : Exists(s, id)

\* The store with what the references create, the subject and the object.
Resolving(s, q) ==
  LET first == Referring(s, q.subject)
  IN  [store   |-> IF q.object.kind = "resource" THEN Referring(first, q.object.of) ELSE first,
       subject |-> Referred(s, q.subject),
       object  |-> IF q.object.kind = "resource" THEN ResourceValue(Referred(first, q.object.of)) ELSE q.object]

\* build_assertion
Built(s, p, q, found, evidence) ==
  [subject |-> found.subject, predicate |-> q.predicate, object |-> found.object, negated |-> q.negated,
   canon |-> Canonical(s, q.canon), timeline |-> Canonical(s, q.timeline),
   status |-> GrantedStatus(p, q.status), history |-> <<>>, evidence |-> evidence, verified |-> FALSE,
   by |-> [name |-> p.name, kind |-> p.kind], at |-> s.clock, known |-> s.clock,
   visibility |-> q.visibility, license |-> q.license, reliability |-> q.reliability,
   extraction |-> q.extraction, supersedes |-> None, supersededBy |-> None]

Touched(s, subject, object) == {subject} \cup ({AsResource(object)} \ {None})

ProposeAssertion(s, p, q) ==
  LET found == Resolving(s, q)
      cited == Citing(found.store, q.evidence)
      claim == Built(s, p, q, found, cited.evidence)
  IN  IF ~MayPropose(s, p, q) THEN {}
      ELSE If(/\ InRange(found.store, q.predicate, found.object)
              /\ InDomain(found.store, q.predicate, found.subject)
              /\ RoleOf(s, q.predicate) = "Identity" => AsResource(found.object) # found.subject,
              Committed(WithClaim(cited.store, claim), Touched(s, found.subject, found.object),
                        RoleOf(s, q.predicate)))

TouchedBy(s, c) == Touched(s, s.claims[c].subject, s.claims[c].object)
RoleOfClaim(s, c) == RoleOf(s, s.claims[c].predicate)

\* status_cmds, of a claim of this branch; basis is the acquisition it rests on, if any.
Changing(s, p, c, to, basis) ==
  LET view == [ProjectionView EXCEPT !.statuses = DOMAIN StatusOrder, !.who = p]
      change == [from |-> StatusAt(s.claims[c], PosInf), to |-> to, at |-> s.clock,
                 basis |-> IF basis = None THEN None ELSE s.acquisitions[basis].at]
  IN  If(c \in Ids(s.claims) /\ Shown(s.claims[c], view), WithStatus(s, c, change))

ChangedTo(s, p, c, to, basis) ==
  {Committed(t, TouchedBy(s, c), RoleOfClaim(s, c)) : t \in Changing(s, p, c, to, basis)}

\* Who is neither the author nor a curator disputes a claim instead.
RetractAssertion(s, p, c, basis) ==
  IF c \notin Ids(s.claims) \/ (basis # None /\ ~MayCite(s, p, basis)) THEN {}
  ELSE ChangedTo(s, p, c, IF IsCurator(p) \/ s.claims[c].by.name = p.name THEN "retracted" ELSE "disputed", basis)

DisputeAssertion(s, p, c) == ChangedTo(s, p, c, "disputed", None)

\* The claim it replaces is superseded with it.
AcceptAssertion(s, p, c) ==
  IF ~IsCurator(p) THEN {}
  ELSE UNION {LET old == t.claims[c].supersedes
              IN  IF old = None THEN {Committed(t, TouchedBy(s, c), RoleOfClaim(s, c))}
                  ELSE {Committed(u, TouchedBy(s, c) \cup TouchedBy(s, old), RoleOfClaim(s, c)) :
                          u \in Changing(t, p, old, "superseded", None)} :
                t \in Changing(s, p, c, "accepted", None)}

SupersedeAssertion(s, p, c, q) ==
  UNION {LET new == Len(r.store.claims)
             linked == WithSupersede(r.store, c, new)
             stores == IF linked.claims[new].status = "accepted" THEN Changing(linked, p, c, "superseded", None) ELSE {linked}
         IN  IF s.claims[c].subject # linked.claims[new].subject \/ s.claims[c].predicate # q.predicate THEN {}
             ELSE {[r EXCEPT !.store = t, !.touched = @ \cup TouchedBy(s, c)] : t \in stores} :
           r \in IF c \in Ids(s.claims) THEN ProposeAssertion(s, p, q) ELSE {}}

VerifyAssertion(s, p, c) ==
  If(IsCurator(p) /\ c \in Ids(s.claims),
     Committed([s EXCEPT !.claims[c].verified = TRUE], TouchedBy(s, c), RoleOfClaim(s, c)))

AddEvidence(s, p, c, e) ==
  If(c \in Ids(s.claims) /\ MayCite(s, p, e.acquisition),
     Committed(WithEvidence(Deriving(s, e), c, Cited(s, e)), TouchedBy(s, c), RoleOfClaim(s, c)))
=============================================================================
