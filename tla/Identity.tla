------------------------------ MODULE Identity ------------------------------
(***************************************************************************)
(* Identity of resources: merge proposals, their decision by a curator, and *)
(* the redirects and groups that follow (canonical.rs, and merge_identity   *)
(* and decide_merge of write.rs).  Claims that two resources are distinct   *)
(* are left out; nothing blocks a proposal here.                            *)
(***************************************************************************)
EXTENDS Naturals, Sequences

CONSTANTS
  Resource,      \* resource ids
  NoResource,
  MaxHops,       \* resolve_id gives up after that many redirects (16)
  MaxProposals   \* bound on merge proposals

ASSUME IdentityAssumption ==
  /\ NoResource \notin Resource
  /\ MaxHops \in Nat
  /\ MaxProposals \in Nat

VARIABLES
  redirects,  \* resource id -> where it was merged into
  members,    \* merged_members: resource id -> the ids merged into it
  proposals   \* the merge proposals; a proposal's id is its index

identityVars == <<redirects, members, proposals>>

MergeStatus == {"proposed", "approved", "rejected"}

Proposal == [from : Resource, into : Resource, status : MergeStatus]

Merged(r) == redirects[r] # NoResource

\* One redirect, if there is one.
Follow == [r \in Resource |-> IF Merged(r) THEN redirects[r] ELSE r]

\* f applied n times, first to a.
Iterated(n, f, a) ==
  LET at[m \in 0..n] == IF m = 0 THEN a ELSE f[at[m - 1]]
  IN  at[n]

\* resolve_id: follow the redirects, MaxHops times at most.
Resolve(r) == Iterated(MaxHops, Follow, r)

\* These and what was merged into them.
WithMerged == [ids \in SUBSET Resource |-> ids \cup UNION {members[r] : r \in ids}]

\* identity_group: a resource and what was merged into it, into that, and so on, as often
\* as there can be merges.
IdentityGroup(r) == Iterated(MaxProposals, WithMerged, {r})

-----------------------------------------------------------------------------
\* merge_identity resolves both ids first.
NewProposal(from, into) ==
  /\ Len(proposals) < MaxProposals
  /\ Resolve(from) # Resolve(into)
  /\ proposals' =
       Append(proposals, [from   |-> Resolve(from),
                          into   |-> Resolve(into),
                          status |-> "proposed"])
  /\ UNCHANGED <<redirects, members>>

\* With a fault: the proposed ids are taken as they are.
AsProposed(r) == r

\* decide_merge resolves the ids again: other merges may have been approved since.
Current(r) == Resolve(r)

Approved(n) ==
  LET from == Current(proposals[n].from)
      into == Current(proposals[n].into)
  IN  /\ from # into
      /\ redirects' = [redirects EXCEPT ![from] = into]
      /\ members' = [members EXCEPT ![into] = @ \cup {from}]

Decision(n, approve) ==
  /\ proposals[n].status = "proposed"
  /\ proposals' = [proposals EXCEPT ![n].status = IF approve THEN "approved" ELSE "rejected"]
  /\ IF approve THEN Approved(n) ELSE UNCHANGED <<redirects, members>>

InitIdentity ==
  /\ redirects = [r \in Resource |-> NoResource]
  /\ members = [r \in Resource |-> {}]
  /\ proposals \in UNION {[1..n -> Proposal] : n \in 0..MaxProposals}
  /\ \A n \in 1..Len(proposals) : proposals[n].status = "proposed" /\ proposals[n].from # proposals[n].into

\* The requests that merge, in any order.
ChangeIdentity ==
  \/ \E from, into \in Resource : NewProposal(from, into)
  \/ \E n \in 1..Len(proposals), approve \in BOOLEAN : Decision(n, approve)

IdentitySpec == InitIdentity /\ [][ChangeIdentity]_identityVars

-----------------------------------------------------------------------------
\* The part of a type invariant about these variables.
IdentityTypeOK ==
  /\ redirects \in [Resource -> Resource \cup {NoResource}]
  /\ members \in [Resource -> SUBSET Resource]
  /\ proposals \in Seq(Proposal)
  /\ Len(proposals) <= MaxProposals

\* Every id stands for one resource that was not merged away itself, and belongs
\* to that resource's group and to no other's, in whatever order proposals are
\* made and approved (decide_merge).
OneIdentity ==
  \A r \in Resource :
    /\ ~ Merged(Resolve(r))
    /\ \A s \in Resource : ~ Merged(s) => (r \in IdentityGroup(s) <=> s = Resolve(r))
=============================================================================
