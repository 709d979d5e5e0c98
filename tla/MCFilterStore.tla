--------------------------- MODULE MCFilterStore ---------------------------
(* Two text fields to search, one of which may be empty, a field of ids     *)
(* with a menu of its own, and the tags and categories of a domain; two     *)
(* values, so that a list of two ids becomes a group, a search has two      *)
(* terms, and a tag may have the name of a category.  An answer and a       *)
(* category are kept to one value a row, which keeps the rows few.          *)
EXTENDS FilterStore

MCOperatorsOf == [domain |-> <<"contains", "is_empty">>, answer |-> <<"contains">>,
                  person_id |-> <<"equals">>, tag |-> <<"in">>, category |-> <<"in">>]
MCKindOf == [domain |-> "text", answer |-> "choice", person_id |-> "number",
             tag |-> "text", category |-> "choice"]
MCLookupOf == [domain |-> "domains", answer |-> "none", person_id |-> "clients",
               tag |-> "tags", category |-> "categories"]

(* Two tags to choose from find a query that has no tag, by a category of   *)
(* the second one's name: what StoredAsDrawn leaves out is left out for a   *)
(* reason.                                                                  *)
ASSUME MergedTagsFindCategories ==
  \A v, w \in Values :
    LET tree == [op |-> "or", children |-> <<ListCondition("tag", {v}), ListCondition("tag", {w})>>]
        row == [[f \in Fields |-> {}] EXCEPT !["category"] = {w}]
    IN row \in Matches(tree) /\ ~Holds(tree, row) /\ LosesKind(tree)
=============================================================================
