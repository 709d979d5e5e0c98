------------------------------ MODULE MCPages ------------------------------
(***************************************************************************)
(* Small instances of Pages: two people with two devices, two tags, two    *)
(* rules, two domains, and what another tab might do meanwhile.            *)
(***************************************************************************)
EXTENDS Pages

MCDepsOf == [s \in Screens |-> CASE s = "devices" -> {"all", "some"}
                                 [] s = "domain" -> Domains
                                 [] s = "settings" -> {"en", "hu"}
                                 [] OTHER -> {"list"}]
MCDeps == UNION {MCDepsOf[s] : s \in Screens}
MCFound == [d \in MCDeps |-> IF d = "some" THEN {"d1"} ELSE Devices]

(* Picked is the filter of a list.                                          *)
ASSUME PickedIsAFilter ==
  \A n \in 0 .. 4 : \A I \in SUBSET (1 .. n) :
    LET list == [i \in 1 .. n |-> i] IN Picked(list, I) = SelectSeq(list, LAMBDA i : i \in I)

Ann == [name |-> "a", kind |-> "person"]
Bob == [name |-> "b", kind |-> "person"]
ATag == [name |-> "a", kind |-> "tag", builtin |-> FALSE]
BuiltIn == [name |-> "b", kind |-> "category", builtin |-> TRUE]
ARule == [name |-> "a", enabled |-> TRUE, priority |-> "100",
          conditions |-> <<[operator |-> "equals", value |-> "a"]>>,
          tags |-> <<[name |-> "a", kind |-> "tag"]>>]
Nothing == [id \in Ids |-> None]

MCCatalog0 ==
  [s \in Screens |->
     [persons |-> CASE s = "persons" -> [Nothing EXCEPT ![1] = Ann, ![2] = Bob]
                    [] s = "devices" -> [Nothing EXCEPT ![1] = Ann]
                    [] OTHER -> Nothing,
      owner |-> [d \in Devices |-> IF s \in {"persons", "devices"} /\ d = "d1" THEN 1 ELSE NoId],
      alias |-> [d \in Devices |-> Empty],
      tags |-> IF s \in {"tags", "domain"} THEN [Nothing EXCEPT ![1] = BuiltIn, ![2] = ATag]
               ELSE Nothing,
      marks |-> [d \in Domains |-> {}],
      rules |-> IF s = "rules" THEN [Nothing EXCEPT ![1] = ARule] ELSE Nothing,
      pending |-> s = "rules"]]

MCElsewhere ==
  [s \in Screens |->
     CASE s = "persons" -> {[do |-> "assignDevices", id |-> id, devices |-> {d}] :
                              id \in {2}, d \in {"d1"}}
       [] s = "devices" -> {[do |-> "updateDevice", device |-> "d1", name |-> "a", id |-> NoId],
                            [do |-> "deletePerson", id |-> 1]}
       [] s = "tags" -> {[do |-> "deleteTag", id |-> 2],
                         [do |-> "updateTag", id |-> 2, name |-> "b"]}
       [] s = "rules" -> {[do |-> "deleteRule", id |-> 1], [do |-> "reclassifyStale"]}
       [] s = "domain" -> {[do |-> "setDomainTags", domain |-> d, tags |-> {1}] : d \in Domains}
       [] OTHER -> {}]

(* Bounds, larger where the page is about more: revisions, saves and edits. *)
Bound(persons, tags, rules, devices, domain) ==
  [s \in Screens |-> CASE s = "persons" -> persons [] s = "tags" -> tags [] s = "rules" -> rules
                       [] s = "devices" -> devices [] s = "domain" -> domain [] OTHER -> 0]
MCMaxRevision == Bound(3, 2, 1, 1, 1)
MCMaxSaves == Bound(1, 2, 1, 1, 1)
MCMaxEdits == Bound(1, 1, 2, 1, 1)

(* Of the preferences one that changes at once and one that is corrected.   *)
MCOffered == [language |-> {"auto", "hu"}, page_size |-> {"10", "25"}]
MCDefaults == [language |-> "auto", page_size |-> "25"]
MCValidated(key, value) == IF value = "10" THEN "25" ELSE value

(* Preferences that change, and a provider that does.                       *)
MCBounds == {[clock |-> 0, providers |-> 1, changes |-> 2, buttons |-> 1],
             [clock |-> 3, providers |-> 2, changes |-> 0, buttons |-> 1]}
=============================================================================
