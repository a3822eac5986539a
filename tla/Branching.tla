----------------------------- MODULE Branching -----------------------------
(***************************************************************************)
(* Assertions and branches of the canonical store: copy-on-write branches  *)
(* over one revision log, and the status of an assertion as a branch sees   *)
(* it (canonical.rs, view.rs, and the assertion operations of write.rs).    *)
(*                                                                         *)
(* Every action is one write request and commits one revision; the write   *)
(* lock of the server makes a request atomic.  All assertions here share    *)
(* one subject and one predicate, the only case in which they interact, and *)
(* all are public.  Refused requests change nothing and are the disabled    *)
(* cases of an action.                                                      *)
(***************************************************************************)
EXTENDS Integers, Sequences

CONSTANTS
  Branch,         \* branch ids
  Main,           \* BranchId::main()
  Actor,          \* principals
  Curator,        \* the human curators among them (p.curator && !p.actor.is_ai())
  Evidence,       \* evidence that add_evidence can attach
  MaxSeq,         \* bound on revisions; plays u64::MAX in branch_chain
  MaxAssertions,  \* bound on assertions
  MaxChain        \* branch_chain refuses a longer chain (64 in the code)

ASSUME BranchingAssumption ==
  /\ Main \in Branch
  /\ Curator \subseteq Actor
  /\ MaxSeq \in Nat
  /\ MaxAssertions \in Nat
  /\ MaxChain \in Nat \ {0}

VARIABLES
  revisions,   \* the headers of the log; a revision's seq is its index
  branches,    \* branch id -> [parent, fork], for the branches that exist
  chain,       \* branch id -> its visible chain, nearest branch first
  assertions   \* the assertions; an assertion's id is its index

vars == <<revisions, branches, chain, assertions>>

None == 0

Status == {"accepted", "proposed", "disputed", "retracted", "superseded"}

Live == {"accepted", "proposed", "disputed"}

Unborn == "unborn"

Hidden == "hidden"

\* The branch ids a chain link or an assertion may name, and what a link holds:
\* the branch and the highest revision of it that is visible.
Link == [branch : Branch, limit : 0..MaxSeq]

\* status_history is kept as the function from a revision to the status once it is
\* applied: a change sets that revision and all later ones.
AssertionRec ==
  [branch       : Branch,
   created      : 1..MaxSeq,
   history      : [1..MaxSeq -> Status \cup {Unborn}],
   overrides    : 0..MaxAssertions,
   supersedes   : 0..MaxAssertions,
   supersededBy : 0..MaxAssertions,
   author       : Actor,
   evidence     : SUBSET Evidence,
   verified     : BOOLEAN]

HeadSeq == Len(revisions)

\* With a fault: the head's seq is used again.
NextSeqAtHead == HeadSeq

\* The seq of the revision being committed.
NextSeq == HeadSeq + 1

Exists(b) == b \in DOMAIN branches

Min2(x, y) == IF x <= y THEN x ELSE y

Max2(x, y) == IF x >= y THEN x ELSE y

-----------------------------------------------------------------------------
(* The view of a branch.                                                    *)

\* With a fault: the parent's chain is not cut at the fork.
UncutChain(b, parent, fork) ==
  [i \in 1..(Len(chain[parent]) + 1) |->
     IF i = 1 THEN [branch |-> b, limit |-> MaxSeq] ELSE chain[parent][i - 1]]

\* branch_chain of a branch created now: its own revisions without limit, then
\* the chain of its parent cut at the fork.  A branch never changes after it is
\* created, so the walk of branch_chain is evaluated once, then.
ChainOfNew(b, parent, fork) ==
  [i \in 1..(Len(chain[parent]) + 1) |->
     IF i = 1
       THEN [branch |-> b, limit |-> MaxSeq]
       ELSE [branch |-> chain[parent][i - 1].branch,
             limit  |-> Min2(chain[parent][i - 1].limit, fork)]]

InChain(b, c) == \E i \in 1..Len(chain[b]) : chain[b][i].branch = c

Position(b, c) == CHOOSE i \in 1..Len(chain[b]) : chain[b][i].branch = c

LimitOf(b, c) == chain[b][Position(b, c)].limit

\* View::projection fails on a branch whose chain is too deep.
Viewable(b) == Len(chain[b]) <= MaxChain

\* With a fault: overrides are ignored.
NeverOverridden(b, a) == FALSE

\* An override hides the original from the branches that see the override.
OverriddenIn(b, a) ==
  \E o \in 1..Len(assertions) :
    /\ assertions[o].overrides = a
    /\ InChain(b, assertions[o].branch)
    /\ Position(b, assertions[o].branch) < Position(b, assertions[a].branch)
    /\ assertions[o].created <= LimitOf(b, assertions[o].branch)

Visible(b, a) ==
  /\ InChain(b, assertions[a].branch)
  /\ assertions[a].created <= LimitOf(b, assertions[a].branch)
  /\ ~ OverriddenIn(b, a)

\* The status after the changes of the revisions up to a limit.
StatusAt(a, limit) == assertions[a].history[limit]

EffectiveStatus(b, a) ==
  IF Visible(b, a) THEN StatusAt(a, LimitOf(b, assertions[a].branch)) ELSE Hidden

\* What a branch shows: the visible assertions with their statuses.
View(b) ==
  {v \in (1..Len(assertions)) \X Status : EffectiveStatus(b, v[1]) = v[2]}

-----------------------------------------------------------------------------
(* Building the commands of a request.                                      *)

Commit(actor, b) == revisions' = Append(revisions, [branch |-> b, actor |-> actor])

NeverWas == [s \in 1..MaxSeq |-> Unborn]

\* A history that continues an earlier one with a new status.
Became(st, earlier) == [s \in 1..MaxSeq |-> IF s >= NextSeq THEN st ELSE earlier[s]]

NewAssertion(p, b, st, supersedes) ==
  [branch       |-> b,
   created      |-> NextSeq,
   history      |-> Became(st, NeverWas),
   overrides    |-> None,
   supersedes   |-> supersedes,
   supersededBy |-> None,
   author       |-> p,
   evidence     |-> {},
   verified     |-> FALSE]

\* The status a request may ask for a new assertion: curators choose, everyone
\* else gets `proposed`.
InitialStatus(p) ==
  IF p \in Curator THEN {"accepted", "proposed", "disputed"} ELSE {"proposed"}

\* The guard of status_cmds.
CanSetStatus(b, a) ==
  /\ Viewable(b)
  /\ Visible(b, a)

\* With a fault: inherited assertions are changed in place.
WithStatusInPlace(list, b, a, st) == [list EXCEPT ![a].history = Became(st, @)]

\* The command status_cmds pushes, applied to list: a change of the assertion
\* itself if it belongs to b, else a copy of it in b, cloned before the commit.
WithStatus(list, b, a, st) ==
  IF assertions[a].branch = b
    THEN [list EXCEPT ![a].history = Became(st, @)]
    ELSE Append(list, [assertions[a] EXCEPT
           !.branch    = b,
           !.created   = NextSeq,
           !.history   = Became(st, NeverWas),
           !.overrides = a])

Commits(p, b, list) ==
  /\ HeadSeq < MaxSeq
  /\ Len(list) <= MaxAssertions
  /\ assertions' = list
  /\ Commit(p, b)
  /\ UNCHANGED <<branches, chain>>

-----------------------------------------------------------------------------
(* Write requests.                                                          *)

ProposeAssertion(p, b, st) ==
  /\ Exists(b)
  /\ st \in InitialStatus(p)
  /\ Commits(p, b, Append(assertions, NewAssertion(p, b, st, None)))

\* retract_assertion marks the assertion disputed when the caller is neither its
\* author nor a curator.
RetractedStatus(p, a) ==
  IF p \in Curator \/ assertions[a].author = p THEN "retracted" ELSE "disputed"

RetractAssertion(p, b, a) ==
  /\ Exists(b)
  /\ CanSetStatus(b, a)
  /\ Commits(p, b, WithStatus(assertions, b, a, RetractedStatus(p, a)))

DisputeAssertion(p, b, a) ==
  /\ Exists(b)
  /\ CanSetStatus(b, a)
  /\ Commits(p, b, WithStatus(assertions, b, a, "disputed"))

\* With a fault: what the assertion replaces is left alone.
AcceptedListKeepingOld(b, a) == WithStatus(assertions, b, a, "accepted")

\* Accepting a replacement supersedes what it replaces; if that is not visible
\* in the branch the whole request is refused.
AcceptedList(b, a) ==
  LET old      == assertions[a].supersedes
      accepted == WithStatus(assertions, b, a, "accepted")
  IN  IF old = None THEN accepted ELSE WithStatus(accepted, b, old, "superseded")

\* With a fault: the curator check is missing.
AnyoneAccepts(p) == TRUE

\* require_curator.
MayAccept(p) == p \in Curator

AcceptAssertion(p, b, a) ==
  /\ MayAccept(p)
  /\ Exists(b)
  /\ CanSetStatus(b, a)
  /\ assertions[a].supersedes # None => CanSetStatus(b, assertions[a].supersedes)
  /\ Commits(p, b, AcceptedList(b, a))

\* Adds the replacement, links the pair, and supersedes the old assertion at
\* once when the replacement is accepted from the start.
SupersededList(p, b, old, st) ==
  LET added  == Append(assertions, NewAssertion(p, b, st, old))
      linked == [added EXCEPT ![old].supersededBy = Len(added)]
  IN  IF st = "accepted" THEN WithStatus(linked, b, old, "superseded") ELSE linked

SupersedeAssertion(p, b, old, st) ==
  /\ Exists(b)
  /\ st \in InitialStatus(p)
  /\ st = "accepted" => CanSetStatus(b, old)
  /\ Commits(p, b, SupersededList(p, b, old, st))

\* Committed on main whatever branch the assertion belongs to.
VerifyAssertion(p, a) ==
  /\ p \in Curator
  /\ Commits(p, Main, [assertions EXCEPT ![a].verified = TRUE])

AddEvidence(p, a, e) ==
  Commits(p, assertions[a].branch, [assertions EXCEPT ![a].evidence = @ \cup {e}])

\* With a fault: the parent's newest revision is lost.
ForkTooEarly == Max2(HeadSeq - 1, 0)

\* fork_seq is the head before the revision that creates the branch, and the
\* revision is committed on the parent.  The depth of the chain is not checked.
ForkPoint == HeadSeq

CreateBranch(p, b, parent) ==
  /\ ~ Exists(b)
  /\ Exists(parent)
  /\ HeadSeq < MaxSeq
  /\ branches' = [c \in DOMAIN branches \cup {b} |->
                    IF c = b THEN [parent |-> parent, fork |-> ForkPoint] ELSE branches[c]]
  /\ chain' = [c \in DOMAIN chain \cup {b} |->
                 IF c = b THEN ChainOfNew(b, parent, ForkPoint) ELSE chain[c]]
  /\ Commit(p, parent)
  /\ UNCHANGED assertions

-----------------------------------------------------------------------------
Init ==
  /\ revisions = <<>>
  /\ branches = [b \in {Main} |-> [parent |-> Main, fork |-> 0]]
  /\ chain = [b \in {Main} |-> <<[branch |-> Main, limit |-> MaxSeq]>>]
  /\ assertions = <<>>

Next ==
  \E p \in Actor :
    \/ \E b \in Branch, st \in Status : ProposeAssertion(p, b, st)
    \/ \E b \in Branch, a \in 1..Len(assertions) : RetractAssertion(p, b, a)
    \/ \E b \in Branch, a \in 1..Len(assertions) : DisputeAssertion(p, b, a)
    \/ \E b \in Branch, a \in 1..Len(assertions) : AcceptAssertion(p, b, a)
    \/ \E b \in Branch, a \in 1..Len(assertions), st \in Status :
         SupersedeAssertion(p, b, a, st)
    \/ \E a \in 1..Len(assertions) : VerifyAssertion(p, a)
    \/ \E a \in 1..Len(assertions), e \in Evidence : AddEvidence(p, a, e)
    \/ \E b, parent \in Branch : CreateBranch(p, b, parent)

Spec == Init /\ [][Next]_vars

-----------------------------------------------------------------------------
(* Properties.                                                              *)

\* Every variable has its type: the log, the branches with their chains, and
\* the assertions with their per-revision histories.
TypeOK ==
  /\ revisions \in Seq([branch : Branch, actor : Actor])
  /\ HeadSeq <= MaxSeq
  /\ DOMAIN branches \subseteq Branch
  /\ \A b \in DOMAIN branches : branches[b] \in [parent : Branch, fork : 0..MaxSeq]
  /\ DOMAIN chain = DOMAIN branches
  /\ \A b \in DOMAIN chain : chain[b] \in Seq(Link)
  /\ assertions \in Seq(AssertionRec)
  /\ Len(assertions) <= MaxAssertions

\* The branch the newest revision was committed on, and who committed it.
LastRevision == revisions[Len(revisions)]

\* Fork isolation: a commit changes what its own branch shows and what no other
\* existing branch shows.  A branch sees its ancestors as they were when it
\* forked (branch_chain, effective_status), whatever is written to them later.
IsolationStep ==
  \A b \in DOMAIN branches : b # LastRevision'.branch => View(b)' = View(b)

ForkIsolation == [][IsolationStep]_vars

\* A new branch starts with exactly the view its parent has at that moment: the
\* fork point neither loses the parent's last revision nor admits a later one.
SnapshotStep ==
  \A b \in DOMAIN branches' \ DOMAIN branches :
    View(b)' = View(branches'[b].parent)

BranchStartsAsParent == [][SnapshotStep]_vars

\* The assertion a copy-on-write copy goes back to.
RootOf ==
  LET root[a \in 1..Len(assertions)] ==
        IF assertions[a].overrides = None THEN a ELSE root[assertions[a].overrides]
  IN  root

\* Copy-on-write never shows a claim twice: of an assertion and all the copies
\* made of it, in whatever branches and in whatever order, a branch sees at most
\* one (the overrides check of effective_status).
OneVersionPerClaim ==
  LET root == RootOf
  IN  \A b \in DOMAIN branches :
        \A a1, a2 \in 1..Len(assertions) :
          /\ Visible(b, a1)
          /\ Visible(b, a2)
          /\ root[a1] = root[a2]
          => a1 = a2

\* An assertion becomes accepted, in any branch's view and by whatever request,
\* only through a human curator.
AcceptanceStep ==
  \A b \in DOMAIN branches : \A a \in 1..Len(assertions') :
    /\ EffectiveStatus(b, a)' = "accepted"
    /\ a > Len(assertions) \/ EffectiveStatus(b, a) # "accepted"
    => LastRevision'.actor \in Curator

AcceptedOnlyByCurator == [][AcceptanceStep]_vars

\* When a replacement becomes accepted in a branch, no version of what it
\* replaces is live there after the same revision: accept_assertion and
\* supersede_assertion never leave both standing.
ReplacementStep ==
  LET root == RootOf'
  IN  \A b \in DOMAIN branches : \A a \in 1..Len(assertions') :
        /\ assertions'[a].supersedes # None
        /\ EffectiveStatus(b, a)' = "accepted"
        /\ a > Len(assertions) \/ EffectiveStatus(b, a) # "accepted"
        => \A o \in 1..Len(assertions') :
             root[o] = root[assertions'[a].supersedes]
               => EffectiveStatus(b, o)' \notin Live

ReplacementRetiresOld == [][ReplacementStep]_vars

\* chain is what the walk of branch_chain computes from branches: start
\* unlimited, and cap the limit by fork_seq at every step to the parent.
WalkedChain(b) ==
  LET walk[n \in 1..Len(chain[b])] ==
        IF n = 1
          THEN [branch |-> b, limit |-> MaxSeq]
          ELSE [branch |-> branches[walk[n - 1].branch].parent,
                limit  |-> Min2(walk[n - 1].limit, branches[walk[n - 1].branch].fork)]
  IN  [n \in 1..Len(chain[b]) |-> walk[n]]

ChainIsWalk ==
  \A b \in DOMAIN branches :
    /\ chain[b] = WalkedChain(b)
    /\ chain[b][Len(chain[b])].branch = Main
=============================================================================
