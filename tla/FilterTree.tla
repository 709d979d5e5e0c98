----------------------------- MODULE FilterTree -----------------------------
(***************************************************************************)
(* Filter trees on both sides of the API: what the browser makes of the    *)
(* controls of the filter bar and of the builder                           *)
(* (frontend/src/stores/useFilterStore.ts, components/FilterBuilder.tsx)   *)
(* and what the backend accepts and means by it (app/filters/nodes.py,     *)
(* app/filters/sql_builder.py).                                            *)
(*                                                                         *)
(* A node is a group [op, children] or a condition [field, operator,       *)
(* value, values]; Null stands for a missing tree, and for the empty       *)
(* object older versions stored.  A condition without a value has value    *)
(* Blank, one without a list has values {}.  A row is what the conditions  *)
(* can tell of a query: for each field the values it answers to.           *)
(***************************************************************************)
EXTENDS Naturals, FiniteSets, SequencesExt

CONSTANTS
  Values,       \* what can be typed or picked as a value
  OperatorsOf,  \* [field -> sequence of operators], the first one the default
  KindOf,       \* [field -> "text", "number", "bool" or "choice"]
  LookupOf,     \* [field -> the subquery it is found by, or "none"]
  QuickKeys,    \* the lists of the filter bar in use, and its result menu
  Searchable,   \* SEARCHABLE_FIELDS
  BuilderFields, \* bound: the fields chosen in the builder, of those it offers
  BlankText,    \* the blank texts typed into a value's box, beside none
  MaxDepth,     \* MAX_DEPTH of nodes.py
  MaxNesting    \* how deep GroupEditor offers to nest groups

Fields == DOMAIN OperatorsOf
GroupOps == {"and", "or", "not"}
VALUELESS == {"is_empty", "is_not_empty"}
LIST_OPERATORS == {"in", "not_in"}

Blank == ""
Spaces == "  "
trim(v) == IF v = Spaces THEN Blank ELSE v

Null == [op |-> "null", children |-> <<>>]
emptyGroup == [op |-> "and", children |-> <<>>]
IsGroup(n) == "op" \in DOMAIN n
Condition(f, o, v) == [field |-> f, operator |-> o, value |-> v, values |-> {}]
ListCondition(f, vs) == [field |-> f, operator |-> "in", value |-> Blank, values |-> vs]
Present(nodes) == SelectSeq(nodes, LAMBDA n : n # Null)
Each(set, Op(_)) == LET s == SetToSeq(set) IN [i \in DOMAIN s |-> Op(s[i])]

(***************************************************************************)
(* A list of trees as one tree: nothing, the tree itself, or a group.      *)
(***************************************************************************)
Joined(op, nodes) ==
  CASE nodes = <<>> -> Null
    [] Len(nodes) = 1 -> nodes[1]
    [] OTHER -> [op |-> op, children |-> nodes]

-----------------------------------------------------------------------------
(* The browser: half-finished conditions                                    *)

finished(p) ==
  CASE p.operator \in VALUELESS -> [p EXCEPT !.value = Blank, !.values = {}]
    [] p.operator \in LIST_OPERATORS ->
         LET vs == {v \in p.values : trim(v) # Blank}
         IN IF vs = {} THEN Null ELSE [p EXCEPT !.values = vs]
    [] OTHER -> IF p.value = Blank THEN Null ELSE [p EXCEPT !.values = {}]

RECURSIVE pruneGroup(_)
pruneGroup(g) ==
  LET children == Present([i \in DOMAIN g.children |->
        IF IsGroup(g.children[i]) THEN pruneGroup(g.children[i])
                                  ELSE finished(g.children[i])])
  IN IF children = <<>> THEN Null ELSE [op |-> g.op, children |-> children]

\* As if a stored condition outside a group were no filter.
asGroupOfGroups(filter) ==
  IF filter # Null /\ IsGroup(filter) THEN pruneGroup(filter) ELSE Null

asGroup(filter) ==
  IF filter = Null THEN Null
  ELSE pruneGroup(IF IsGroup(filter) THEN filter
                  ELSE [op |-> "and", children |-> <<filter>>])

RECURSIVE Size(_)
Size(n) ==
  IF n = Null THEN 0
  ELSE IF ~IsGroup(n) THEN 1
  ELSE FoldSeq(LAMBDA c, total : total + Size(c), 1, n.children)

RECURSIVE groupHasContent(_)
groupHasContent(group) ==
  \E i \in DOMAIN group.children :
    LET c == group.children[i]
    IN IF IsGroup(c) THEN groupHasContent(c)
       ELSE \/ c.operator \in VALUELESS
            \/ c.operator \in LIST_OPERATORS /\ c.values # {}
            \/ c.operator \notin VALUELESS \cup LIST_OPERATORS /\ c.value # Blank

-----------------------------------------------------------------------------
(* The browser: the controls of the filter bar as trees                     *)

KeyField == [personIds |-> "person_id", clientIds |-> "client_id", tags |-> "tag",
             categories |-> "category", queryTypes |-> "query_type", result |-> "result"]
IdKeys == {"personIds", "clientIds"}
KeyOrder == <<"personIds", "clientIds", "tags", "categories", "queryTypes", "result">>

orOf(children) == Joined("or", children)

quickNode(key, picked) ==
  LET field == KeyField[key]
  IN CASE picked = {} -> Null
       [] key \in IdKeys -> orOf(Each(picked, LAMBDA v : Condition(field, "equals", v)))
       [] key = "result" -> Condition(field, "equals", CHOOSE v \in picked : TRUE)
       [] OTHER -> ListCondition(field, picked)

quickToNodes(quick) ==
  LET keys == SelectSeq(KeyOrder, LAMBDA k : k \in QuickKeys)
  IN Present([i \in DOMAIN keys |-> quickNode(keys[i], quick[keys[i]])])

(***************************************************************************)
(* Each term matches in any of the fields; the terms combine with the mode.*)
(* The store builds this tree for saved filters, the backend for searches. *)
(***************************************************************************)
termNode(fields, term) == Joined("or", Each(fields, LAMBDA f : Condition(f, "contains", term)))
searchTree(terms, mode, fields) ==
  Joined(IF mode = "any" THEN "or" ELSE "and",
         Each(terms, LAMBDA term : termNode(fields, term)))

-----------------------------------------------------------------------------
(* The builder: every tree one edit away from a group                       *)

defaultPredicate ==
  LET f == IF "domain" \in Fields THEN "domain" ELSE CHOOSE g \in Fields : TRUE
  IN Condition(f, Head(OperatorsOf[f]), Blank)

(* What the value editor can make of a condition.  A text field passes on   *)
(* what is typed, the list editor trims and drops what is blank, a number   *)
(* field turns an emptied box into 0.                                       *)
ValueEdits(p) ==
  CASE p.operator \in VALUELESS -> {}
    [] p.operator \in LIST_OPERATORS -> {[p EXCEPT !.values = vs] : vs \in SUBSET Values}
    [] OTHER ->
         LET typed == CASE KindOf[p.field] = "bool" -> {"true", "false"}
                        [] KindOf[p.field] = "choice" -> Values \cup {Blank}
                        [] KindOf[p.field] = "number" -> Values \cup {"0"}
                        [] OTHER -> Values \cup {Blank} \cup BlankText
         IN {[p EXCEPT !.value = v] : v \in typed}

PredicateEdits(p) ==
  {[field |-> f, value |-> Blank, values |-> {},
    operator |-> IF p.operator \in Range(OperatorsOf[f]) THEN p.operator
                 ELSE Head(OperatorsOf[f])] : f \in BuilderFields}
  \cup {[p EXCEPT !.operator = o] : o \in Range(OperatorsOf[p.field])}
  \cup ValueEdits(p)

replaceAt(group, i, node) == [group EXCEPT !.children[i] = node]
removeAt(group, i) == [group EXCEPT !.children = RemoveAt(@, i)]
Appended(group, node) == [group EXCEPT !.children = Append(@, node)]

RECURSIVE GroupEdits(_, _)
GroupEdits(group, depth) ==
  {[group EXCEPT !.op = op] : op \in GroupOps}
  \cup {Appended(group, defaultPredicate)}
  \cup (IF depth < MaxNesting THEN {Appended(group, emptyGroup)} ELSE {})
  \cup UNION {
         LET child == group.children[i]
         IN {removeAt(group, i)}
            \cup {replaceAt(group, i, next) :
                    next \in IF IsGroup(child) THEN GroupEdits(child, depth + 1)
                                               ELSE PredicateEdits(child)}
         : i \in DOMAIN group.children}

-----------------------------------------------------------------------------
(* The backend: which trees are valid, and what they mean                   *)

RECURSIVE AcceptsAt(_, _)
AcceptsAt(n, depth) ==
  /\ depth <= MaxDepth
  /\ IF IsGroup(n)
     THEN /\ n.op = "not" => Len(n.children) = 1
          /\ \A i \in DOMAIN n.children : AcceptsAt(n.children[i], depth + 1)
     ELSE /\ n.field \in Fields
          /\ n.operator \in Range(OperatorsOf[n.field])
          /\ n.operator \in LIST_OPERATORS => n.values # {}
          /\ n.operator \notin LIST_OPERATORS \cup VALUELESS => trim(n.value) # Blank

Accepts(n) == n = Null \/ AcceptsAt(n, 0)

\* As if every group of one child were that child.
RECURSIVE parsedSingles(_)
parsedSingles(n) ==
  IF n = Null \/ ~IsGroup(n) THEN n
  ELSE Joined(n.op, Present([i \in DOMAIN n.children |-> parsedSingles(n.children[i])]))

RECURSIVE parsed(_)
parsed(n) ==
  IF n = Null \/ ~IsGroup(n) THEN n
  ELSE LET children == Present([i \in DOMAIN n.children |-> parsed(n.children[i])])
       IN IF children # <<>> /\ n.op = "not" THEN [n EXCEPT !.children = children]
                                             ELSE Joined(n.op, children)

(* A number, a choice or an answer yes or no is one of a kind in a row.     *)
Rows == {row \in [Fields -> SUBSET Values] :
           \A f \in Fields : KindOf[f] # "text" => Cardinality(row[f]) <= 1}

(* The subqueries that join what a query may lack: there is no blank person *)
(* or tag to be found, so "is empty" finds nothing.                         *)
Joining == {"people", "tags", "categories"}
NEGATIVE_OPERATORS == {"not_equals", "not_contains", "not_in", "not_regex", "is_not_empty"}

IsBlank(p, row) == LookupOf[p.field] \notin Joining /\ row[p.field] = {}

PredicateHolds(p, row) ==
  LET there == row[p.field]
  IN CASE p.operator \in {"contains", "equals"} -> p.value \in there
       [] p.operator = "not_contains" -> p.value \notin there
       [] p.operator = "in" -> p.values \cap there # {}
       [] p.operator = "not_in" -> p.values \cap there = {}
       [] p.operator = "is_empty" -> IsBlank(p, row)
       [] p.operator = "is_not_empty" -> ~IsBlank(p, row)

(* What the tree says                                                       *)
RECURSIVE Holds(_, _)
Holds(n, row) ==
  CASE n = Null -> TRUE
    [] ~IsGroup(n) -> PredicateHolds(n, row)
    [] n.op = "and" -> \A i \in DOMAIN n.children : Holds(n.children[i], row)
    [] n.op = "or" -> \E i \in DOMAIN n.children : Holds(n.children[i], row)
    [] n.op = "not" -> ~Holds(n.children[1], row)

(* Alternatives found by one subquery are compiled into one: the first of   *)
(* them, and those that are appended to it with OR.                         *)
Mergeable(n) ==
  ~IsGroup(n) /\ n.operator \notin NEGATIVE_OPERATORS /\ LookupOf[n.field] # "none"
MergedInto(nodes, i) ==
  \E j \in 1 .. i - 1 : /\ Mergeable(nodes[i]) /\ Mergeable(nodes[j])
                         /\ LookupOf[nodes[i].field] = LookupOf[nodes[j].field]

(* Tags and categories are kept in one table.  Their subqueries begin with  *)
(* the kind asked for AND, which an appended OR does not belong to: it      *)
(* finds names of either kind.                                              *)
Labels == {f \in Fields : LookupOf[f] \in {"tags", "categories"}}
KindLost(nodes, i) ==
  ~IsGroup(nodes[i]) /\ nodes[i].field \in Labels /\ MergedInto(nodes, i)
OfEitherKind(row) ==
  [f \in Fields |-> IF f \in Labels THEN UNION {row[g] : g \in Labels} ELSE row[f]]

(* What the compiled SQL finds                                              *)
RECURSIVE Finds(_, _)
Finds(n, row) ==
  CASE n = Null -> TRUE
    [] ~IsGroup(n) -> PredicateHolds(n, row)
    [] n.op = "and" -> \A i \in DOMAIN n.children : Finds(n.children[i], row)
    [] n.op = "or" ->
         \E i \in DOMAIN n.children :
           Finds(n.children[i], IF KindLost(n.children, i) THEN OfEitherKind(row) ELSE row)
    [] n.op = "not" -> ~Finds(n.children[1], row)

Matches(n) == LET tree == parsed(n) IN {row \in Rows : Finds(tree, row)}

(* A tree in which an alternative about tags, or about categories, is       *)
(* appended to another.                                                     *)
RECURSIVE LosesKind(_)
LosesKind(n) ==
  n # Null /\ IsGroup(n) /\ \E i \in DOMAIN n.children :
    LosesKind(n.children[i]) \/ (n.op = "or" /\ KindLost(n.children, i))
=============================================================================
