--------------------------- MODULE HistoryQueries ---------------------------
(***************************************************************************)
(* The queries of the conversation history (query/history.rs), as functions  *)
(* of h, the sequence of recorded events; an event's place in h is its        *)
(* document number.  Of an event there is what the queries go by: owner,      *)
(* conversation, sequence, when it occurred, its text, whether that is        *)
(* indexed (ConversationHistory has why it is), and who may see its source.   *)
(***************************************************************************)
EXTENDS Integers, FiniteSets, FiniteSetsExt, SequencesExt

NoText == "any"
NoCursor == <<>>

Docs(h, owner) == {d \in DOMAIN h : h[d].owner = owner}
InConversations(h, owner, cs) == {d \in Docs(h, owner) : h[d].conversation \in cs}

Visible(h, who, d) == who \in h[d].readers

-----------------------------------------------------------------------------
(* history_search *)

\* No conversation means all of them.
IsSearch(q) == q.order = "sequence" => Cardinality(q.conversations) = 1

SortKey(order, e) == IF order = "sequence" THEN e.sequence ELSE e.at

Passes(h, q, d) ==
  /\ Visible(h, q.who, d)
  /\ q.conversations # {} => h[d].conversation \in q.conversations
  /\ h[d].at >= q.from /\ h[d].at < q.to

\* A text is looked for among the indexed texts; which of them share its pairs of characters
\* is left open (Indexes, GramTokens).
SearchCandidates(h, q) ==
  {d \in Docs(h, q.owner) : Passes(h, q, d) /\ (q.text # NoText => h[d].indexed)}

\* Those that a text search counts because it cannot find them, for want of an index.
NotSearchable(h, q) ==
  IF q.text = NoText THEN {} ELSE {d \in Docs(h, q.owner) : Passes(h, q, d) /\ ~h[d].indexed}

Precedes(a, b) == a[1] < b[1] \/ (a[1] = b[1] /\ a[2] < b[2])

\* The keys of the candidates, the last first if the newest are asked for.
Rank(keys, k) == Cardinality({o \in keys : Precedes(o, k)}) + 1
OldestFirst(keys) == [i \in 1..Cardinality(keys) |-> CHOOSE k \in keys : Rank(keys, k) = i]

Keyed(h, q) ==
  LET oldest == OldestFirst({<<SortKey(q.order, h[d]), d>> : d \in SearchCandidates(h, q)})
  IN  IF q.order = "newest" THEN Reverse(oldest) ELSE oldest

\* With a fault: the cursor is the sort key alone.
BehindKey(q, keys, cursor) ==
  SelectSeq(keys, LAMBDA k : \/ cursor = NoCursor
                             \/ IF q.order = "newest" THEN k[1] < cursor[1] ELSE cursor[1] < k[1])

\* What comes after the cursor, which need not be a candidate any more.
Behind(q, keys, cursor) ==
  SelectSeq(keys, LAMBDA k : \/ cursor = NoCursor
                             \/ IF q.order = "newest" THEN Precedes(k, cursor) ELSE Precedes(cursor, k))

Matches(e, q) == q.text = NoText \/ e.text = q.text

\* One page: it ends with the limit, or when the budget for the answer is spent, and then has a
\* cursor at the last event that was looked at.
EmptyPage == [events |-> <<>>, looked |-> 0, last |-> NoCursor, full |-> FALSE]

Looked(h, q, keys, limit, budget) ==
  FoldLeft(LAMBDA page, k :
             IF page.full \/ Len(page.events) >= limit \/ page.looked = budget THEN [page EXCEPT !.full = TRUE]
             ELSE [page EXCEPT !.events = IF Matches(h[k[2]], q) THEN Append(@, k[2]) ELSE @,
                               !.looked = @ + 1, !.last = k],
           EmptyPage, keys)

Answered(page) == [events |-> page.events, next |-> IF page.full THEN page.last ELSE NoCursor]

HistoryPage(h, q, cursor, limit, budget) == Answered(Looked(h, q, Behind(q, Keyed(h, q), cursor), limit, budget))

-----------------------------------------------------------------------------
(* history_context and history_conversations *)

Sequences(h, owner, c) == {h[d].sequence : d \in InConversations(h, owner, {c})}

LowestOf(numbers, n) == {x \in numbers : Cardinality({y \in numbers : y < x}) < n}
HighestOf(numbers, n) == {x \in numbers : Cardinality({y \in numbers : y > x}) < n}

NoAnchor == -1

\* The events around a sequence number, or the last ones.
ContextBefore(all, anchor, before) ==
  HighestOf(IF anchor = NoAnchor THEN all ELSE {x \in all : x < anchor}, before)
ContextFrom(all, anchor, after) ==
  IF anchor = NoAnchor THEN {} ELSE LowestOf({x \in all : x >= anchor}, after + 1)

\* The numbers that are missing between one shown event and the next.
GapsIn(shown) ==
  {<<x + 1, Min({y \in shown : y > x}) - 1>> :
     x \in {z \in shown : \E y \in shown : y > z /\ \A w \in shown : w > z => w > z + 1}}

ContextOf(all, prev, next) ==
  [error      |-> "none",
   shown      |-> prev \cup next,
   gaps       |-> GapsIn(prev \cup next),
   moreBefore |-> prev # {} /\ \E x \in all : x < Min(prev),
   moreAfter  |-> next # {} /\ \E x \in all : x > Max(next)]

\* A conversation is there for whoever sees its first event.
MayRead(h, who, owner, c) ==
  \E d \in InConversations(h, owner, {c}) : Visible(h, who, d) /\ h[d].sequence = Min(Sequences(h, owner, c))

NotFound == [error |-> "not_found"]

HistoryContext(h, who, owner, c, anchor, before, after) ==
  LET all == Sequences(h, owner, c)
  IN  IF MayRead(h, who, owner, c)
      THEN ContextOf(all, ContextBefore(all, anchor, before), ContextFrom(all, anchor, after))
      ELSE NotFound

\* What history_conversations lists of one that is there.
ConversationSummary(h, who, owner, c) ==
  LET all == Sequences(h, owner, c)
  IN  IF MayRead(h, who, owner, c)
      THEN [error |-> "none", first |-> Min(all), last |-> Max(all), events |-> Cardinality(InConversations(h, owner, {c})),
            missing |-> (Max(all) - Min(all) + 1) - Cardinality(InConversations(h, owner, {c}))]
      ELSE NotFound

-----------------------------------------------------------------------------
(* Pages of a text *)

\* content_page: from an offset, that many bytes, or up to the end of the last whole character of
\* them, but one character at least.  The offsets where characters begin, and the end, are given.
ContentPage(boundaries, offset, length) ==
  LET total == Max(boundaries)
      end   == Max({b \in boundaries : b <= offset + length})
      last  == IF end = offset /\ offset < total THEN Min({b \in boundaries : b > offset}) ELSE end
  IN  [from |-> offset, to |-> last, next |-> IF last < total THEN last ELSE NoAnchor]
=============================================================================
