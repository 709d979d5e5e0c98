----------------------------- MODULE DomainPage -----------------------------
(***************************************************************************)
(* The page of a domain (frontend/src/pages/DomainDetailPage.tsx): the     *)
(* dialog that puts tags on it by hand.  The deps of what it shows are the *)
(* domain of the address and the range; the page is not mounted anew when  *)
(* a link or the back button changes the domain.                           *)
(***************************************************************************)
EXTENDS Catalog

(* Opened on what is shown, which may still be the domain before.           *)
openTags(c, shown) ==
  [target |-> [domain |-> shown], draft |-> [selected |-> c.marks[shown]], touched |-> {}]

tagBoxes(dialog) ==
  {[dialog EXCEPT !.draft.selected = (@ \cup {id}) \ (@ \cap {id})] : id \in Ids}

(* Saved for the domain of the address, which may be the next already.      *)
saveTags(domain, draft) ==
  <<[do |-> "setDomainTags", domain |-> domain, tags |-> draft.selected]>>
=============================================================================
