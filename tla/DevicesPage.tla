---------------------------- MODULE DevicesPage ----------------------------
(***************************************************************************)
(* The page of the devices (frontend/src/pages/DevicesPage.tsx): what it   *)
(* lists, its dialog, and the request it makes of a draft.  What is typed  *)
(* into the search box and the order chosen are the deps of its list.      *)
(***************************************************************************)
EXTENDS Catalog

CONSTANT Found  \* [deps -> SUBSET Devices]: what the search finds

rows(c, deps) == {[device |-> d, name |-> c.alias[d], person |-> c.owner[d]] : d \in Found[deps]}

openEditor(row) ==
  [target |-> row, draft |-> [name |-> row.name, person |-> row.person], touched |-> {}]

(* The person is picked from the list the store keeps, which knows of those *)
(* who were there when it was fetched.                                      *)
fields(dialog) ==
  {[dialog EXCEPT !.draft.name = text] : text \in Typed}
    \cup {[dialog EXCEPT !.draft.person = id] : id \in Ids \cup {NoId}}

(* Name and person always go together: no person clears the one there is.   *)
save(target, draft) ==
  <<[do |-> "updateDevice", device |-> target.device, name |-> draft.name, id |-> draft.person]>>
=============================================================================
