----------------------------- MODULE MCCatalog -----------------------------
(* Worlds for Catalog: what is known to begin with, and the requests that may come. *)
EXTENDS Catalog

Least == -1000

Carol == Principal("carol", "human", TRUE, {}, "nobody")
Dan == Principal("dan", "human", FALSE, {}, "nobody")
Bot == Principal("bot", "agent", FALSE, {"team"}, "carol")

FewReaders == {Anonymous, Bot}

-----------------------------------------------------------------------------
(* Making a store *)

After(outcomes) == (CHOOSE o \in outcomes : TRUE).store

Texts(tokens) == <<tokens, tokens>>
Text(token) == Texts(<<token>>)
To(id) == ResourceValue(Old(id))
On(axis, from, to) == TimeValue(axis, Within(from, to), <<"day">>)
About(axis, from, to) == TimeValue(axis, Within(from, to), <<"approx", "month">>)

Thing(label, types) == NewResource(<<Text(label)>>, types)
Says(subject, key, object) == [Proposal(Old(subject), key, object) EXCEPT !.status = "accepted"]

Read(locator, at) ==
  [source |-> None, locator |-> locator, visibility |-> PublicData, of |-> {}, time |-> UnknownValue,
   origin |-> "secondary", reliability |-> None, root |-> None, license |-> "none", at |-> at]

By(acquisition, extractor) == [acquisition |-> acquisition, by |-> extractor, extraction |-> None]

\* Resources, then claims by Carol.
With(s, things, claims) ==
  LET created == FoldLeft(LAMBDA t, n : After(CreateResource(t, n)), s, things)
  IN  FoldLeft(LAMBDA t, q : After(ProposeAssertion(t, Carol, q)), created, claims)

Proposing(by, q) == [op |-> "propose_assertion", by |-> by, q |-> q]
Retracting(by, claim, basis) == [op |-> "retract_assertion", by |-> by, claim |-> claim, basis |-> basis]
Merging(from, into) == [op |-> "merge_identity", q |-> [from |-> from, into |-> into]]
Deciding(proposal, approve) == [op |-> "decide_merge", by |-> Carol, proposal |-> proposal, approve |-> approve]

-----------------------------------------------------------------------------
(* Places: 1 a city in 2 a country, 3 an event there at a time, 4 another country, 5 a later event. *)

Places ==
  [store |-> With(EmptyStore,
      <<Thing("edo", {"City"}), Thing("japan", {"Country"}), Thing("fire", {"Event"}), Thing("musashi", {"Country"}), [Thing("siege", {"Event"}) EXCEPT !.visibility = PrivateTo("carol")]>>,
      <<Says(1, "located_in", To(2)), Says(3, "took_place_at", To(1)), Says(3, "occurred_at", On("gregorian", 0, 9)),
        Says(2, "coordinates", GeoValue("earth", 5)), Says(5, "occurred_at", On("gregorian", 9, 12))>>),
   requests |->
     <<[op |-> "supersede_assertion", by |-> Bot, claim |-> 1, q |-> Proposal(Old(1), "located_in", To(4))],
       [op |-> "accept_assertion", by |-> Carol, claim |-> 6],
       Retracting(Carol, 1, None),
       Proposing(Bot, Proposal(Old(1), "coordinates", GeoValue("earth", 7))),
       Proposing(Dan, Proposal(Old(3), "occurred_at", On("gregorian", 20, 29))),
       [op |-> "dispute_assertion", by |-> Dan, claim |-> 3],
       [op |-> "update_resource", q |-> [id |-> 3, labels |-> <<Text("blaze")>>, externals |-> {"x1"}, types |-> {"Concept"}]]>>]

-----------------------------------------------------------------------------
(* Merges: three of one name, one of them said to be another's part, a sequence over two of them. *)

Merges ==
  [store |->
      LET s == With(EmptyStore,
                 <<Thing("taro", {"Person"}), Thing("taro", {"Person"}), Thing("taro", {"Person"}), Thing("war", {"Event"})>>,
                 <<Says(1, "possibly_same_as", To(2)), Says(4, "has_participant", To(1)), Says(2, "height", [kind |-> "quantity", of |-> 170])>>)
          t == After(DefineSequence(s, [scope |-> 4, kind |-> "cast", canon |-> None, items |-> <<1, 2>>]))
      IN  FoldLeft(LAMBDA u, q : After(MergeIdentity(u, q)), t,
                   <<[from |-> 1, into |-> 2], [from |-> 2, into |-> 3], [from |-> 3, into |-> 1]>>),
   requests |->
     <<Merging(3, 1), Deciding(1, TRUE), Deciding(2, TRUE), Deciding(3, TRUE),
       Proposing(Dan, Proposal(Old(1), "distinct_from", To(2))),
       Proposing(Dan, [Proposal(Old(1), "height", [kind |-> "quantity", of |-> 180]) EXCEPT !.visibility = SharedWith({"team"})])>>]

-----------------------------------------------------------------------------
(* Sources: a claim read in one document, and documents that are read late. *)

Sources ==
  [store |->
      LET s == With(EmptyStore, <<Thing("castle", {"Building"}), Thing("era", {"Concept"})>>, <<>>)
          t == After(LinkSource(s, Dan, [Read("book", 2) EXCEPT !.of = {New(Thing("book", {"Document"}))}, !.license = "proprietary"]))
      IN  With(t, <<>>, <<[Says(1, "inception", On("gregorian", 3, 4)) EXCEPT !.evidence = <<By(1, "model")>>]>>),
   requests |->
     <<[op |-> "link_source", by |-> Dan, q |-> [Read("book", 1) EXCEPT !.of = {Old(1)}]],
       [op |-> "link_source", by |-> Dan, q |-> [Read("scroll", 4) EXCEPT !.root = 1, !.time = On("gregorian", 1, 2), !.of = {Old(3)}]],
       [op |-> "add_evidence", by |-> Bot, claim |-> 1, e |-> By(2, "hand")],
       Proposing(Carol, [Says(1, "inception", On("gregorian", 3, 5)) EXCEPT !.evidence = <<By(2, "hand")>>]),
       Retracting(Carol, 1, 2),
       [op |-> "verify_assertion", by |-> Carol, claim |-> 1],
       [op |-> "set_rank_policy", by |-> Carol, policy |-> [DefaultPolicy EXCEPT !.tier = 0]],
       [op |-> "define_license", by |-> Carol, key |-> "proprietary", free |-> TRUE]>>]

-----------------------------------------------------------------------------
(* Axes: 1 an event at a time of one axis, of which others say a time of another; 2 an event that *)
(* not all may see; 3 a yard that is said to be what it is, and where by a predicate of its own.   *)

Axes ==
  [store |-> With(EmptyStore,
      <<[Thing("war", {"Event"}) EXCEPT !.labels = <<Texts(<<"steel", "war">>)>>],
        [Thing("plot", {"Event"}) EXCEPT !.visibility = PrivateTo("carol")], Thing("yard", {"Building"})>>,
      <<Says(1, "occurred_at", On("gregorian", 0, 9)), Says(1, "took_place_at", To(3)),
        Says(2, "occurred_at", On("stardate", 5, 8)), Says(3, "coordinates", GeoValue("earth", 1))>>),
   requests |->
     <<Proposing(Dan, Proposal(Old(1), "occurred_at", About("stardate", 30, 39))),
       [op |-> "verify_assertion", by |-> Carol, claim |-> 5],
       Retracting(Carol, 1, None),
       [op |-> "dispute_assertion", by |-> Dan, claim |-> 3],
       [op |-> "propose_predicate", by |-> Carol, q |-> [key |-> "berth", wellFormed |-> TRUE, domain |-> {},
          range |-> RangeOf("geo", {}), functional |-> FALSE, role |-> "Coordinates"]],
       Proposing(Dan, [Proposal(Old(3), "berth", GeoValue("earth", 3)) EXCEPT !.extraction = 70]),
       Proposing(Dan, Proposal(Old(3), "instance_of", To(1)))>>]

-----------------------------------------------------------------------------
(* Schema: types, predicates, tables, sequences and the rest, in any order. *)

Words ==
  [store |-> With(EmptyStore, <<Thing("log", {"Dataset"}), Thing("ship", {"Vehicle"})>>, <<Says(2, "part_of", To(1))>>),
   requests |->
     <<[op |-> "propose_type", by |-> Bot, q |-> [key |-> "Galleon", parents |-> {"Vehicle"}]],
       [op |-> "create_resource", q |-> [Thing("victory", {"Galleon"}) EXCEPT !.externals = {"x1"}]],
       [op |-> "propose_predicate", by |-> Dan, q |-> [key |-> "moored_at", wellFormed |-> TRUE, domain |-> {"Vehicle"},
          range |-> RangeOf("resource", {"Dataset"}), functional |-> TRUE, role |-> "Location"]],
       [op |-> "accept_predicate", by |-> Carol, key |-> "moored_at"],
       Proposing(Dan, Proposal(Old(2), "moored_at", To(1))),
       [op |-> "define_calendar", by |-> Carol, key |-> "ship_time", wellFormed |-> TRUE]>>]

Tables ==
  [store |-> Words.store,
   requests |->
     <<[op |-> "define_table", q |-> [dataset |-> New(Thing("crew", {"Table"})), columns |-> {"name", "age"},
                                      primaryKey |-> {"name"}, inline |-> TRUE]],
       [op |-> "add_table_rows", table |-> 1, rows |-> {[name |-> "ann", age |-> 20]}],
       [op |-> "link_row", table |-> 1, key |-> "ann", id |-> 2],
       [op |-> "define_sequence", q |-> [scope |-> 1, kind |-> "watch", canon |-> None, items |-> <<2, 1>>]],
       [op |-> "add_observation", by |-> Dan, q |-> [target |-> 2, metric |-> "speed", value |-> 5, observedAt |-> 3, acquisition |-> None]],
       [op |-> "add_trajectory", by |-> Dan, q |-> [target |-> 2, samples |-> <<[t |-> 4, x |-> 8], [t |-> 0, x |-> 0]>>,
                                                    interpolation |-> "linear", acquisition |-> None]],
       [op |-> "set_embedding", id |-> 2, space |-> "text", vector |-> <<1, 0>>]>>]

-----------------------------------------------------------------------------
(* Ingestion: a page read twice, of which someone may already know a part. *)

Mention(label, types) == [label |-> Text(label), types |-> types, resource |-> None]
ClaimOf(i, key, j) ==
  [subject |-> i, predicate |-> key, object |-> [kind |-> "mention", of |-> j], confidence |-> 90]

Page ==
  [locator |-> "page", published |-> On("gregorian", 0, 1), origin |-> "secondary", license |-> "none", acquiredAt |-> 1,
   extractor |-> "model", oddKeys |-> {},
   entities |-> <<Mention("hana", {"Person"}), Mention("ball", {"Event"}), Mention("hall", {"Building"}),
                  Mention("door", {"Room"})>>,
   claims |-> <<ClaimOf(2, "has_participant", 1), ClaimOf(1, "dances_at", 2), ClaimOf(4, "located_in", 3)>>,
   observations |-> <<[target |-> 1, metric |-> "age", value |-> 20]>>]

Pages ==
  [store |->
      LET s == With(EmptyStore, <<Thing("hana", {"Person"}), Thing("hana", {"City"}), Thing("hana", {"Character", "Person"})>>, <<>>)
      IN  After(MergeIdentity(s, [from |-> 3, into |-> 1])),
   requests |->
     <<[op |-> "ingest", by |-> Bot, d |-> Page], [op |-> "ingest", by |-> Bot, d |-> Page], Deciding(1, TRUE)>>]

-----------------------------------------------------------------------------
(* A resource that is left with nothing but a denial of when it was. *)

Undated ==
  [store |-> With(EmptyStore, <<Thing("battle", {"Event"}), Thing("king", {"Person"})>>,
                  <<Says(1, "occurred_at", On("gregorian", 0, 9)), Says(1, "has_participant", To(2))>>),
   requests |->
     <<Proposing(Dan, [Proposal(Old(1), "occurred_at", On("gregorian", 0, 4)) EXCEPT !.negated = TRUE]),
       Retracting(Carol, 1, None)>>]

AllWorlds == {Places, Merges, Sources, Axes, Words, Tables, Pages, Undated}
Quarrel == {Undated}

-----------------------------------------------------------------------------

FewSearches ==
  {[NoFilter EXCEPT !.types = {"Event"}],
   [NoFilter EXCEPT !.place = 2],
   [NoFilter EXCEPT !.place = 4, !.types = {"Event", "City"}],
   [NoFilter EXCEPT !.entities = {1}],
   [NoFilter EXCEPT !.text = <<"taro">>, !.minRank = 1],
   [NoFilter EXCEPT !.text = <<"blaze">>],
   [NoFilter EXCEPT !.text = <<"war", "steel">>, !.order = "relevance"],
   [NoFilter EXCEPT !.contestedOnly = TRUE],
   [NoFilter EXCEPT !.window = Window("gregorian", 0, 10, "within", TRUE)],
   [NoFilter EXCEPT !.window = Window("gregorian", 20, 22, "possibly", FALSE)],
   [NoFilter EXCEPT !.window = Window("stardate", 6, 36, "possibly", FALSE)],
   [NoFilter EXCEPT !.window = Window("stardate", 30, 36, "possibly", FALSE)]}
=============================================================================
