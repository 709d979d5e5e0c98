---------------------------- MODULE PersonsPage ----------------------------
(***************************************************************************)
(* The page of the people (frontend/src/pages/PersonsPage.tsx): what it    *)
(* lists, its dialog, and the requests it makes of a draft.  Pages has the *)
(* steps.                                                                  *)
(***************************************************************************)
EXTENDS Catalog

rows(c) ==
  {[id |-> id, name |-> c.persons[id].name, devices |-> {d \in Devices : c.owner[d] = id}] :
     id \in Existing(c.persons)}

openNew == [target |-> New, draft |-> [name |-> Empty, selected |-> {}], touched |-> {}]

openEdit(person) ==
  [target |-> person, draft |-> [name |-> person.name, selected |-> person.devices],
   touched |-> {}]

fields(dialog) == {[dialog EXCEPT !.draft.name = text] : text \in Typed}

Toggled(set, x) == IF x \in set THEN set \ {x} ELSE set \cup {x}

(* One box for each device; "touched" is history: the boxes that are not    *)
(* as the dialog found them.                                                *)
deviceBoxes(dialog) ==
  {[dialog EXCEPT !.draft.selected = Toggled(@, d), !.touched = Toggled(@, d)] : d \in Devices}

mayBeSaved(draft) == ~Blank(draft.name)

assign(id, devices) ==
  IF devices = {} THEN <<>>
  ELSE <<[do |-> "assignDevices", id |-> id, devices |-> devices]>>

\* As if every device with its box checked were sent, those that were already.
saveAll(target, draft) ==
  IF target = New
  THEN <<[do |-> "createPerson", name |-> draft.name]>> \o assign(Created, draft.selected)
  ELSE <<[do |-> "updatePerson", id |-> target.id, name |-> draft.name]>>
         \o assign(target.id, draft.selected)
         \o assign(NoId, target.devices \ draft.selected)

(* The person first, then the devices: only those whose box differs from    *)
(* what the list said when the dialog was opened.                           *)
save(target, draft) ==
  IF target = New
  THEN <<[do |-> "createPerson", name |-> draft.name]>> \o assign(Created, draft.selected)
  ELSE <<[do |-> "updatePerson", id |-> target.id, name |-> draft.name]>>
         \o assign(target.id, draft.selected \ target.devices)
         \o assign(NoId, target.devices \ draft.selected)

remove(person) == <<[do |-> "deletePerson", id |-> person.id]>>
=============================================================================
