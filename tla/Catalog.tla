------------------------------ MODULE Catalog ------------------------------
(***************************************************************************)
(* What the user keeps on the server and the pages of the browser edit:    *)
(* people and their devices, tags, rules, tags put on domains by hand      *)
(* (app/services/device_service.py, tag_service.py, rules_service.py,      *)
(* behind app/api/).  A request is a record; Outcome is what the server    *)
(* does with it, in one transaction: it answers, or refuses and nothing    *)
(* has changed.                                                            *)
(*                                                                         *)
(* A thing that does not exist is None.  Ids are SQLite rowids: a new row  *)
(* gets the highest id plus one, so the id of a deleted newest row is used *)
(* again.  Colours, notes, descriptions and a rule's match mode travel with *)
(* the fields modelled and are left out.                                   *)
(***************************************************************************)
EXTENDS Integers, Sequences, FiniteSets, SequencesExt, FiniteSetsExt

CONSTANTS
  Texts,      \* what is typed into a name or value, blank texts aside
  Ids,        \* ids of people, tags and rules: 1 .. n
  Devices, Domains,
  RuleOperators, \* OPERATORS of categorization/matchers.py
  Priorities,    \* the numbers a request may have for a rule's priority
  Whole          \* those of them that are whole numbers

Empty == ""
Spaces == "  "
Typed == Texts \cup {Empty, Spaces}
trim(text) == IF text = Spaces THEN Empty ELSE text
Blank(text) == trim(text) = Empty

None == [name |-> Empty, kind |-> "none"]
NoId == 0
Created == -1   \* the id the first request of a save is answered with
New == [id |-> NoId]
KINDS == {"tag", "category"}

Zero == "0"
DefaultPriority == "100"
orDefault(priority) == IF priority = Zero THEN DefaultPriority ELSE priority

(* The items of a list at the positions of a set, in the order of the list. *)
Picked(list, I) ==
  [k \in 1 .. Cardinality(I) |-> list[CHOOSE i \in I : Cardinality({j \in I : j <= i}) = k]]

Existing(table) == {id \in Ids : table[id] # None}
NextId(table) == Max(Existing(table) \cup {NoId}) + 1
Named(table, name) == {id \in Existing(table) : table[id].name = name}

IsCatalog(c) ==
  c \in [persons : {c.persons}, owner : {c.owner}, alias : {c.alias}, tags : {c.tags},
         marks : {c.marks}, rules : {c.rules}, pending : {c.pending}]

(* The server's answers                                                     *)
Done(c, id) == [ok |-> TRUE, catalog |-> c, id |-> id]
Refused(c) == [ok |-> FALSE, catalog |-> c, id |-> NoId]

-----------------------------------------------------------------------------
(* People and devices                                                       *)

createPerson(c, r) ==
  LET id == NextId(c.persons) IN
  IF Blank(r.name) \/ Named(c.persons, trim(r.name)) # {} \/ id \notin Ids THEN Refused(c)
  ELSE Done([c EXCEPT !.persons[id] = [name |-> trim(r.name), kind |-> "person"]], id)

updatePerson(c, r) ==
  IF \/ Blank(r.name) \/ c.persons[r.id] = None
     \/ Named(c.persons, trim(r.name)) \ {r.id} # {}
  THEN Refused(c)
  ELSE Done([c EXCEPT !.persons[r.id].name = trim(r.name)], r.id)

(* The schema unassigns the devices of a person who is deleted.             *)
deletePerson(c, r) ==
  IF c.persons[r.id] = None THEN Refused(c)
  ELSE Done([c EXCEPT !.persons[r.id] = None,
                      !.owner = [d \in Devices |-> IF @[d] = r.id THEN NoId ELSE @[d]]], r.id)

(* NoId stands for null, which unassigns; a person who is gone breaks the   *)
(* foreign key.                                                             *)
assignDevices(c, r) ==
  IF r.id # NoId /\ c.persons[r.id] = None THEN Refused(c)
  ELSE Done([c EXCEPT !.owner = [d \in Devices |-> IF d \in r.devices THEN r.id ELSE @[d]]],
            r.id)

updateDevice(c, r) ==
  IF r.id # NoId /\ c.persons[r.id] = None THEN Refused(c)
  ELSE Done([c EXCEPT !.owner[r.device] = r.id, !.alias[r.device] = trim(r.name)], NoId)

-----------------------------------------------------------------------------
(* Tags: a name is unique among those of its kind                           *)

createTag(c, r) ==
  LET id == NextId(c.tags) IN
  IF \/ Blank(r.name) \/ r.kind \notin KINDS \/ id \notin Ids
     \/ \E other \in Named(c.tags, trim(r.name)) : c.tags[other].kind = r.kind
  THEN Refused(c)
  ELSE Done([c EXCEPT !.tags[id] = [name |-> trim(r.name), kind |-> r.kind,
                                    builtin |-> FALSE]], id)

updateTag(c, r) ==
  IF \/ Blank(r.name) \/ c.tags[r.id] = None
     \/ \E other \in Named(c.tags, trim(r.name)) \ {r.id} :
          c.tags[other].kind = c.tags[r.id].kind
  THEN Refused(c)
  ELSE Done([c EXCEPT !.tags[r.id].name = trim(r.name)], r.id)

(* Links to a tag that is deleted go with it.                               *)
deleteTag(c, r) ==
  IF c.tags[r.id] = None \/ c.tags[r.id].builtin THEN Refused(c)
  ELSE Done([c EXCEPT !.tags[r.id] = None,
                      !.marks = [d \in Domains |-> @[d] \ {r.id}]], r.id)

(* Replaces every tag put on the domain by hand.                            *)
setDomainTags(c, r) ==
  IF \E id \in r.tags : c.tags[id] = None THEN Refused(c)
  ELSE Done([c EXCEPT !.marks[r.domain] = r.tags], NoId)

-----------------------------------------------------------------------------
(* Rules: the schema of the request takes a whole number for a priority and *)
(* a tag of either kind.  Of such a rule the server keeps the conditions and*)
(* tags it understands, and refuses one that is left without a name, a      *)
(* condition or a tag.                                                      *)

RuleWrite(r) == r.priority \in Whole /\ \A i \in DOMAIN r.tags : r.tags[i].kind \in KINDS
Condition_from_dict(x) == [operator |-> x.operator, value |-> trim(x.value)]
understood(x) == x.operator \in RuleOperators /\ ~Blank(x.value)
TagRef_from_dict(x) == [name |-> trim(x.name), kind |-> x.kind]
CategoryRule_from_dict(r) ==
  LET conditions == [i \in DOMAIN r.conditions |-> Condition_from_dict(r.conditions[i])]
      tags == [i \in DOMAIN r.tags |-> TagRef_from_dict(r.tags[i])]
  IN [name |-> trim(r.name), enabled |-> r.enabled, priority |-> orDefault(r.priority),
      conditions |-> Picked(conditions, {i \in DOMAIN conditions : understood(conditions[i])}),
      tags |-> Picked(tags, {i \in DOMAIN tags : ~Blank(tags[i].name) /\ tags[i].kind \in KINDS})]
validated(rule) == ~Blank(rule.name) /\ rule.conditions # <<>> /\ rule.tags # <<>>

writeRule(c, id, r) ==
  LET rule == CategoryRule_from_dict(r) IN
  IF \/ ~RuleWrite(r) \/ ~validated(rule) \/ id \notin Ids
     \/ Named(c.rules, rule.name) \ {id} # {}
  THEN Refused(c)
  ELSE Done([c EXCEPT !.rules[id] = rule, !.pending = TRUE], id)

createRule(c, r) == writeRule(c, NextId(c.rules), r)
updateRule(c, r) == IF c.rules[r.id] = None THEN Refused(c) ELSE writeRule(c, r.id, r)
deleteRule(c, r) ==
  IF c.rules[r.id] = None THEN Refused(c)
  ELSE Done([c EXCEPT !.rules[r.id] = None, !.pending = TRUE], r.id)

(* The request makes every domain stale; the polls of the ingestor classify *)
(* what is stale, a request of somebody else here.                          *)
reclassify(c) == Done([c EXCEPT !.pending = TRUE], NoId)
reclassifyStale(c) == Done([c EXCEPT !.pending = FALSE], NoId)

-----------------------------------------------------------------------------
Operations == {"createPerson", "updatePerson", "deletePerson", "assignDevices", "updateDevice",
               "createTag", "updateTag", "deleteTag", "setDomainTags",
               "createRule", "updateRule", "deleteRule", "reclassify",
               "reclassifyStale"}

Outcome(c, r) ==
  CASE r.do = "createPerson" -> createPerson(c, r)
    [] r.do = "updatePerson" -> updatePerson(c, r)
    [] r.do = "deletePerson" -> deletePerson(c, r)
    [] r.do = "assignDevices" -> assignDevices(c, r)
    [] r.do = "updateDevice" -> updateDevice(c, r)
    [] r.do = "createTag" -> createTag(c, r)
    [] r.do = "updateTag" -> updateTag(c, r)
    [] r.do = "deleteTag" -> deleteTag(c, r)
    [] r.do = "setDomainTags" -> setDomainTags(c, r)
    [] r.do = "createRule" -> createRule(c, r)
    [] r.do = "updateRule" -> updateRule(c, r)
    [] r.do = "deleteRule" -> deleteRule(c, r)
    [] r.do = "reclassify" -> reclassify(c)
    [] r.do = "reclassifyStale" -> reclassifyStale(c)
=============================================================================
