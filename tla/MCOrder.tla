------------------------------ MODULE MCOrder ------------------------------
(* A small instance of OrderMaintenance: three relations that may close a circle. *)
EXTENDS OrderMaintenance

CONSTANTS e1, e2, e3

Claims(a, rels, b, accepted) ==
  [subject : {a}, rel : rels, object : {b}, accepted : accepted]

RelateThree ==
  <<Claims(e1, Relation, e2, {FALSE}),
    Claims(e2, {"before", "met_by", "starts", "during"}, e3, {FALSE}),
    Claims(e3, {"before", "starts", "equals"}, e1, BOOLEAN)
      \cup Claims(e2, {"during"}, e1, {FALSE})>>
=============================================================================
