------------------------------ MODULE TagsPage ------------------------------
(***************************************************************************)
(* The page of the tags (frontend/src/pages/TagsPage.tsx): what it lists,  *)
(* its dialog, and the requests it makes of a draft.                       *)
(***************************************************************************)
EXTENDS Catalog

(* One list for each kind: a tag of another kind is in neither.             *)
rows(c) == UNION {{[id |-> id, name |-> c.tags[id].name, kind |-> kind,
                    builtin |-> c.tags[id].builtin] :
                     id \in {x \in Existing(c.tags) : c.tags[x].kind = kind}} : kind \in KINDS}

open(tag) ==
  [target |-> tag, touched |-> {},
   draft |-> IF tag = New THEN [name |-> Empty, kind |-> "tag"]
             ELSE [name |-> tag.name, kind |-> tag.kind]]

(* The kind is chosen once and for all.                                     *)
fields(dialog) ==
  {[dialog EXCEPT !.draft.name = text] : text \in Typed}
    \cup (IF dialog.target = New THEN {[dialog EXCEPT !.draft.kind = k] : k \in KINDS} ELSE {})

mayBeSaved(draft) == ~Blank(draft.name)

save(target, draft) ==
  IF target = New
  THEN <<[do |-> "createTag", name |-> draft.name, kind |-> draft.kind]>>
  ELSE <<[do |-> "updateTag", id |-> target.id, name |-> draft.name]>>

(* A built-in tag has no button for it.                                     *)
remove(tag) == IF tag.builtin THEN <<>> ELSE <<[do |-> "deleteTag", id |-> tag.id]>>
=============================================================================
