------------------------------ MODULE Indexes ------------------------------
(***************************************************************************)
(* The indexes behind a search, as values: the buckets of the temporal index *)
(* (index/temporal.rs), the grid of the spatial one (index/geo.rs) with the  *)
(* frames that coordinates belong to (space/mod.rs), and the pairs of        *)
(* characters of the text index (text.rs).                                   *)
(*                                                                         *)
(* Coordinates are integers in a plane: a transform is any affine map of it,  *)
(* and heights are left out.  Characters are model values, some of which are  *)
(* other forms of others.                                                    *)
(***************************************************************************)
EXTENDS Integers, FiniteSets, SequencesExt, TLC

CONSTANTS
  TickBits,        \* the width of a tick (64)
  LevelStep,       \* how many times wider each level's buckets are, as a power of two (4)
  CellSize,        \* the width of a cell of the grid
  MostCells,       \* a box over more cells is listed for its whole frame (4096)
  MostCellsRead,   \* a query of more cells goes through all boxes of the frame (65536)
  Spaces,          \* characters that are white space
  Separators,      \* other characters that no word has
  LowerCase        \* what a character is folded to, if to another

ASSUME IndexAssumption ==
  /\ LevelStep \in Nat \ {0} /\ TickBits \in Nat /\ TickBits % LevelStep = 0
  /\ CellSize \in Nat \ {0} /\ MostCells \in Nat \ {0}

\* Powers of two, which the provers do not know for an exponent that they do not know.
ASSUME PowersAssumption ==
  /\ TickBits # 0 /\ 2 ^ TickBits = 2 * 2 ^ (TickBits - 1)
  /\ \A n \in 0..TickBits : 2 ^ n \in Nat \ {0}

-----------------------------------------------------------------------------
(* Spans of time *)

FirstTick == -(2 ^ (TickBits - 1))
LastTick == 2 ^ (TickBits - 1) - 1

\* Subtraction as the release build does it.
Wrapped(v) == ((v - FirstTick) % (2 ^ TickBits)) + FirstTick

\* The last level is for what is infinite.
LastLevel == TickBits \div LevelStep

Bucket(t, level) == t \div (2 ^ (level * LevelStep))

\* level_of: the first level on which it lies in two buckets at most.
LevelOf(es, le) ==
  LET fits == {l \in 0..(LastLevel - 1) : Wrapped(Bucket(le, l) - Bucket(es, l)) <= 1}
  IN  IF fits = {} THEN LastLevel ELSE CHOOSE l \in fits : \A m \in fits : l <= m

\* With a fault: a span need not reach into the bucket before.
OwnBucketOnly(level, qs, qe) == Bucket(qs, level)..Bucket(qe - 1, level)

BucketsRead(level, qs, qe) == (Bucket(qs, level) - 1)..Bucket(qe - 1, level)

NoSpans == {}

RemoveSpan(index, doc) == {x \in index : x.doc # doc}

OnLevel(doc, level, es, le) ==
  [doc |-> doc, level |-> level, key |-> IF level = LastLevel THEN 0 ELSE Bucket(es, level), es |-> es, le |-> le]

InsertSpan(index, doc, es, end) ==
  LET le == IF end < es THEN es ELSE end
  IN  RemoveSpan(index, doc) \cup
        {OnLevel(doc, IF es = FirstTick \/ le = LastTick THEN LastLevel ELSE LevelOf(es, le), es, le)}

OverlappingSpans(index, qs, qe) ==
  {x.doc : x \in {y \in index : /\ y.level = LastLevel \/ y.key \in BucketsRead(y.level, qs, qe)
                                /\ y.es < qe /\ y.le > qs}}

-----------------------------------------------------------------------------
(* Frames and the grid *)

\* A frame has a parent and the transform to it, or only the one, or neither.
NoFrame == "none"
Frame(parent, transform) == [parent |-> parent, transform |-> transform]
NoTransform == [kind |-> "none"]
Affine(xx, xy, yx, yy, dx, dy) ==
  [kind |-> "affine", xx |-> xx, xy |-> xy, yx |-> yx, yy |-> yy, dx |-> dx, dy |-> dy]

Apply(t, p) == [x |-> t.xx * p.x + t.xy * p.y + t.dx, y |-> t.yx * p.x + t.yy * p.y + t.dy]

Lesser(a, b) == IF a <= b THEN a ELSE b
Greater(a, b) == IF a >= b THEN a ELSE b

Box(x0, y0, x1, y1) == [min |-> [x |-> x0, y |-> y0], max |-> [x |-> x1, y |-> y1]]

\* Geometry::map: of a box, two opposite corners are mapped.
MappedBox(box, t) ==
  LET a == Apply(t, box.min)
      b == Apply(t, box.max)
  IN  Box(Lesser(a.x, b.x), Lesser(a.y, b.y), Greater(a.x, b.x), Greater(a.y, b.y))

\* to_root: up to a frame that has no transform to a parent.
ToRoot(frames, placement) ==
  LET up[n \in 0..Cardinality(DOMAIN frames)] ==
        IF n = 0 THEN placement
        ELSE LET p == up[n - 1]
                 f == frames[p.frame]
             IN  IF f.parent = NoFrame \/ f.transform = NoTransform THEN p
                 ELSE [frame |-> f.parent, box |-> MappedBox(p.box, f.transform)]
  IN  up[Cardinality(DOMAIN frames)]

Columns(box) == (box.min.x \div CellSize)..(box.max.x \div CellSize)
Lines(box) == (box.min.y \div CellSize)..(box.max.y \div CellSize)
CellsOf(box) == Columns(box) \X Lines(box)

NoBoxes == [cells |-> {}, docs |-> {}]
Whole == <<FirstTick, FirstTick>>

RemoveBox(index, doc) ==
  [cells |-> {c \in index.cells : c.doc # doc}, docs |-> {d \in index.docs : d.doc # doc}]

CellsListed(box) == IF Cardinality(CellsOf(box)) > MostCells THEN {Whole} ELSE CellsOf(box)

WithBox(index, doc, root) ==
  [cells |-> index.cells \cup {[frame |-> root.frame, cell |-> c, doc |-> doc] : c \in CellsListed(root.box)},
   docs  |-> index.docs \cup {[doc |-> doc, frame |-> root.frame, box |-> root.box]}]

InsertBox(index, frames, doc, placement) == WithBox(RemoveBox(index, doc), doc, ToRoot(frames, placement))

Meet(a, b) == /\ a.min.x <= b.max.x /\ a.max.x >= b.min.x
              /\ a.min.y <= b.max.y /\ a.max.y >= b.min.y

\* The documents of the cells that a box reads.
Gathered(index, root) ==
  IF Cardinality(CellsOf(root.box)) > MostCellsRead
  THEN {d.doc : d \in {e \in index.docs : e.frame = root.frame}}
  ELSE {c.doc : c \in {e \in index.cells : e.frame = root.frame /\ e.cell \in CellsOf(root.box) \cup {Whole}}}

Meeting(index, root) == {d.doc : d \in {e \in index.docs : e.doc \in Gathered(index, root) /\ Meet(e.box, root.box)}}

\* GeoIndex::intersecting
Intersecting(index, frames, placement) == Meeting(index, ToRoot(frames, placement))

-----------------------------------------------------------------------------
(* Texts: sequences of characters *)

Folded(c) == IF c \in DOMAIN LowerCase THEN LowerCase[c] ELSE c

\* The maximal runs of characters that do not break one, in order.
RunsOf(text, breaks) ==
  LET split[n \in 0..Len(text)] ==
        IF n = 0 THEN <<<<>>>>
        ELSE LET runs == split[n - 1]
             IN  IF text[n] \notin breaks THEN Append(Front(runs), Append(Last(runs), text[n]))
                 ELSE IF Last(runs) = <<>> THEN runs ELSE Append(runs, <<>>)
      all == split[Len(text)]
  IN  IF Last(all) = <<>> THEN Front(all) ELSE all

\* query_terms, and the words that normalize_label joins with one space.
Terms(text) == RunsOf([i \in DOMAIN text |-> Folded(text[i])], Spaces)

Joined(words, space) ==
  LET line[n \in 0..Len(words)] ==
        IF n = 0 THEN <<>>
        ELSE LET before == line[n - 1]
             IN  IF before = <<>> THEN words[n] ELSE Append(before, space) \o words[n]
  IN  line[Len(words)]

\* normalize_label
NormalText(text) == Joined(Terms(text), CHOOSE c \in Spaces : TRUE)

Pairs(run) == {SubSeq(run, i, i + 1) : i \in 1..(Len(run) - 1)}

\* gram_tokens: the pairs of each run of letters and digits, or the one it has.
GramTokens(text) ==
  UNION {IF Len(run) = 1 THEN {run} ELSE Pairs(run) : run \in Range(RunsOf(NormalText(text), Spaces \cup Separators))}

\* gram_query_tokens
GramQueryTokens(term) == UNION {Pairs(run) : run \in Range(RunsOf(NormalText(term), Spaces \cup Separators))}

\* search_tokens: nothing to look for does not narrow.
HasTokens(text, tokens) == tokens \subseteq GramTokens(text)

HasPart(text, part) == part \in SubSeqs(text)

\* find_all: has all words of the query; or, exactly, the query as it stands.
Finds(text, query) == \A term \in Range(Terms(query)) : HasPart(NormalText(text), term)

\* Whether a search for a text finds a document (query/history.rs).
TextFound(text, query, exact) ==
  IF exact THEN HasTokens(text, GramQueryTokens(query)) /\ HasPart(text, query)
  ELSE HasTokens(text, UNION {GramQueryTokens(t) : t \in Range(Terms(query))}) /\ Finds(text, query)
=============================================================================
