----------------------------- MODULE Vocabulary -----------------------------
(***************************************************************************)
(* The built-in vocabulary (vocab.rs, model/predicate.rs): types with the   *)
(* types above them, and predicates with what their values must be and what *)
(* the projection makes of them.  Labels and mappings to other vocabularies  *)
(* are left out.                                                             *)
(***************************************************************************)
EXTENDS Functions, FiniteSetsExt

Subtypes ==
  [Resource |-> {"Event", "Entity", "Place", "Work", "Document", "Dataset", "Concept"},
   Entity   |-> {"Person", "Character", "Organization", "Object"},
   Object   |-> {"Vehicle"},
   Place    |-> {"World", "Region", "Area", "Subplace", "Building", "Station",
                 "TransportFacility", "VirtualSpace", "Dream"},
   Region   |-> {"Country", "City"},
   Area     |-> {"Dungeon"},
   Subplace |-> {"Room"},
   World    |-> {"Dimension"},
   Work     |-> {"Franchise", "Series", "Season", "Episode", "Movie", "OVA", "Volume",
                 "Chapter", "Game", "Book"},
   Document |-> {"WebPage", "Post", "Image", "Video", "Audio"},
   Dataset  |-> {"Table"},
   Concept  |-> {"Predicate", "Type", "Canon", "Timeline"}]

BuiltInTypes ==
  [t \in {"Resource"} \cup UNION Range(Subtypes) |->
     [parents |-> {p \in DOMAIN Subtypes : t \in Subtypes[p]}, status |-> "accepted"]]

AllenPredicates ==
  {"before", "after", "meets", "met_by", "overlaps", "overlapped_by", "during",
   "temporally_contains", "starts", "started_by", "finishes", "finished_by", "simultaneous"}

KeysOfRole ==
  [Typing             |-> {"instance_of"},
   EventTime          |-> {"occurred_at", "start_time", "end_time"},
   TemporalRelation   |-> AllenPredicates,
   Location           |-> {"took_place_at", "birth_place", "death_place", "set_in"},
   SpatialContainment |-> {"located_in", "contains", "inside"},
   SpatialRelation    |-> {"adjacent", "connected", "near", "north_of", "south_of", "east_of",
                           "west_of", "between", "portal_to"},
   Coordinates        |-> {"coordinates"},
   WorkMembership     |-> {"part_of_work", "appears_in"},
   Adaptation         |-> {"adaptation_of", "adapted_as"},
   Identity           |-> {"same_as", "possibly_same_as", "distinct_from"},
   General            |-> {"participated_in", "has_participant", "part_of", "has_part", "causes",
                           "caused_by", "alternative_of", "height", "population", "birth_date",
                           "death_date", "publication_date", "inception", "name", "follows",
                           "followed_by", "member_of", "created_by", "diverges_from",
                           "derived_from"}]

\* What the value of a predicate must be, where it need not be a resource.
LiteralOf ==
  [time     |-> {"occurred_at", "start_time", "end_time", "birth_date", "death_date",
                 "publication_date", "inception"},
   quantity |-> {"height", "population"},
   geo      |-> {"coordinates"},
   text     |-> {"name"},
   any      |-> {"between"}]

OneValueOnly ==
  {"occurred_at", "start_time", "end_time", "coordinates", "height", "birth_date", "death_date", "inception"}

Holding(table, key, else) ==
  IF \E k \in DOMAIN table : key \in table[k] THEN CHOOSE k \in DOMAIN table : key \in table[k] ELSE else

\* A range is a kind of value and, for resources, the types of which it must have one.
RangeOf(kind, types) == [kind |-> kind, types |-> types]

BuiltInPredicates ==
  [k \in UNION Range(KeysOfRole) |->
     [role       |-> Holding(KeysOfRole, k, "General"),
      range      |-> RangeOf(Holding(LiteralOf, k, "resource"), {}),
      domain     |-> {},
      functional |-> k \in OneValueOnly,
      status     |-> "accepted"]]

\* Whether it allows redistribution.
BuiltInLicenses ==
  [l \in {"CC0-1.0", "CC-BY-4.0", "CC-BY-SA-4.0", "proprietary", "fair-use-excerpt", "unknown"} |->
     l \in {"CC0-1.0", "CC-BY-4.0", "CC-BY-SA-4.0"}]
=============================================================================
