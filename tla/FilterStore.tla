---------------------------- MODULE FilterStore ----------------------------
(***************************************************************************)
(* The filter the user is looking at: the store behind the log and the     *)
(* dashboard (frontend/src/stores/useFilterStore.ts), the filter bar with  *)
(* its builder and its search box, the saved filters and their page.       *)
(*                                                                         *)
(* The same controls become three trees: the one a request carries, with   *)
(* the search terms beside it, the one a saved filter keeps, with the      *)
(* terms inside it, and the one the advanced builder edits.  The browser   *)
(* never filters rows itself, so what counts is what the backend accepts   *)
(* and means by these trees.                                               *)
(***************************************************************************)
EXTENDS FilterTree, Integers, FiniteSets

CONSTANTS
  SavedIds,    \* ids of saved filters
  MaxWeight,   \* bound on terms, picks and nodes of all trees where more are added
  MaxStored    \* bound on the nodes of a saved filter

ASSUME FilterAssumption ==
  /\ "domain" \in Searchable /\ BuilderFields \subseteq Fields
  /\ \A f \in Searchable : f \in Fields /\ "contains" \in Range(OperatorsOf[f])
  /\ MaxWeight \in Nat /\ MaxStored \in Nat

VARIABLES
  terms, searchMode, searchFields, quick, advanced, savedFilterId,
  onSaved,    \* the page of the saved filters is shown, not the log
  dialog,     \* the dialog that is open, with the tree it edits
  stored,     \* [SavedIds -> tree, or Gone]: the saved filters
  applied     \* history: the saved filter applied and not edited since

search == <<terms, searchMode, searchFields>>
chosen == <<quick, advanced, savedFilterId>>
screen == <<onSaved, dialog>>
vars == <<search, chosen, screen, stored, applied>>

Gone == [op |-> "gone", children |-> <<>>]
NoId == 0
NewFilter == -1
Closed == [kind |-> "none", target |-> NoId, draft |-> Null]
EMPTY_QUICK == [k \in QuickKeys |-> {}]
DEFAULT_SEARCH_FIELDS == {"domain"}

OnBar == ~onSaved /\ dialog = Closed
Picks == FoldSeq(LAMBDA k, n : n + Cardinality(quick[k]), 0, SetToSeq(QuickKeys))
Trees == <<advanced, dialog.draft>> \o Each(SavedIds, LAMBDA id : stored[id])
Weight == FoldSeq(LAMBDA tree, n : n + (IF tree = Gone THEN 0 ELSE Size(tree)),
                  Cardinality(terms) + Picks, Trees)

-----------------------------------------------------------------------------
(* The trees the store makes of its state                                   *)

activeFilterNode == Joined("and", quickToNodes(quick) \o
                      (IF advanced = Null THEN <<>> ELSE Present(<<pruneGroup(advanced)>>)))

searchNode == searchTree(terms, searchMode, searchFields)

\* As if a saved filter left the search terms to the request.
saveableWithoutTerms == activeFilterNode

saveableFilterNode == Joined("and", Present(<<activeFilterNode, searchNode>>))

buildRequest ==
  [filter |-> activeFilterNode,
   search |-> IF terms = {} THEN [terms |-> {}] ELSE
                [terms |-> terms, mode |-> searchMode, fields |-> searchFields]]

(* The rows the backend answers with: those of the filter and of the search *)
Answered == Matches(buildRequest.filter) \cap
            Matches(searchTree(terms, searchMode, searchFields))

hasFilters ==
  \/ terms # {} \/ quickToNodes(quick) # <<>> \/ savedFilterId # NoId
  \/ advanced # Null /\ groupHasContent(advanced)

-----------------------------------------------------------------------------
(* The filter bar: search box and menus.  The range and the order of the     *)
(* rows travel with the request and are no part of the filter.              *)

(* Enter, a comma or leaving the box commits what was typed, split at       *)
(* commas; blank parts and terms already there add nothing.                 *)
addTerms ==
  /\ OnBar
  /\ \E typed \in SUBSET Values :
       /\ typed \ terms # {} /\ Weight + Cardinality(typed \ terms) <= MaxWeight
       /\ terms' = terms \cup typed
  /\ UNCHANGED <<searchMode, searchFields, chosen, screen, stored, applied>>

removeTerm ==
  /\ OnBar
  /\ \E term \in terms : terms' = terms \ {term}
  /\ UNCHANGED <<searchMode, searchFields, chosen, screen, stored, applied>>

setSearchMode ==
  /\ OnBar /\ Cardinality(terms) > 1
  /\ searchMode' = IF searchMode = "any" THEN "all" ELSE "any"
  /\ UNCHANGED <<terms, searchFields, chosen, screen, stored, applied>>

(* All fields or one of them: the first one stands for the others.          *)
setSearchFields ==
  /\ OnBar
  /\ \E fields \in {DEFAULT_SEARCH_FIELDS, Searchable} : searchFields' = fields
  /\ UNCHANGED <<terms, searchMode, chosen, screen, stored, applied>>

toggleQuick ==
  /\ OnBar
  /\ \E k \in QuickKeys \ {"result"}, v \in Values :
       /\ v \in quick[k] \/ Weight < MaxWeight
       /\ quick' = [quick EXCEPT ![k] = IF v \in @ THEN @ \ {v} ELSE @ \cup {v}]
  /\ UNCHANGED <<search, advanced, savedFilterId, screen, stored, applied>>

(* The clear button of a list, and the menu of the results                  *)
setQuick ==
  /\ OnBar
  /\ \E k \in QuickKeys, picked \in {{}} \cup {{v} : v \in Values} :
       /\ picked # {} => k = "result" /\ Weight < MaxWeight
       /\ picked # quick[k] /\ quick' = [quick EXCEPT ![k] = picked]
  /\ UNCHANGED <<search, advanced, savedFilterId, screen, stored, applied>>

reset ==
  /\ OnBar /\ hasFilters
  /\ terms' = {} /\ quick' = EMPTY_QUICK /\ advanced' = Null /\ savedFilterId' = NoId
  /\ applied' = Null
  /\ UNCHANGED <<searchMode, searchFields, screen, stored>>

(* "Show in log" on the pages of a domain, and of a device or a person      *)
LeaveFor(searched, picked) ==
  /\ onSaved /\ dialog = Closed
  /\ terms' = searched /\ quick' = picked
  /\ advanced' = Null /\ savedFilterId' = NoId /\ applied' = Null
  /\ onSaved' = FALSE
  /\ UNCHANGED <<searchMode, dialog, stored>>

showDomainInLog ==
  /\ \E domain \in Values : LeaveFor({domain}, EMPTY_QUICK)
  /\ searchFields' = DEFAULT_SEARCH_FIELDS

showIdInLog ==
  /\ \E k \in IdKeys \cap QuickKeys, id \in Values : LeaveFor({}, [EMPTY_QUICK EXCEPT ![k] = {id}])
  /\ UNCHANGED searchFields

-----------------------------------------------------------------------------
(* The advanced builder                                                     *)

DraftOf(group) == IF group = Null THEN emptyGroup ELSE group

openBuilder ==
  /\ OnBar
  /\ dialog' = [kind |-> "builder", target |-> NoId, draft |-> DraftOf(advanced)]
  /\ UNCHANGED <<search, chosen, onSaved, stored, applied>>

EditDraft ==
  /\ dialog.kind \in {"builder", "edit"}
  /\ \E next \in GroupEdits(dialog.draft, 0) \cup {emptyGroup} :
       /\ Size(next) < Size(dialog.draft)
            \/ Weight - Size(dialog.draft) + Size(next) <= MaxWeight
       /\ dialog' = [dialog EXCEPT !.draft = next]
  /\ UNCHANGED <<search, chosen, onSaved, stored, applied>>

applyBuilder ==
  /\ dialog.kind = "builder"
  /\ advanced' = pruneGroup(dialog.draft) /\ applied' = Null
  /\ dialog' = Closed
  /\ UNCHANGED <<search, quick, savedFilterId, onSaved, stored>>

CloseDialog ==
  /\ dialog # Closed
  /\ dialog' = Closed
  /\ UNCHANGED <<search, chosen, onSaved, stored, applied>>

-----------------------------------------------------------------------------
(* Saved filters                                                            *)

(* The tree a saved filter leaves in the store: an unusable one leaves what *)
(* was there.                                                               *)
Applied(filter) == IF asGroup(filter) = Null THEN advanced ELSE asGroup(filter)

(* The menu of the bar: it keeps terms and picks beside the saved filter.   *)
applySavedFilter ==
  /\ OnBar
  /\ \/ /\ savedFilterId # NoId
        /\ savedFilterId' = NoId /\ advanced' = Null /\ applied' = Null
     \/ \E id \in SavedIds :
          /\ stored[id] # Gone
          /\ savedFilterId' = id /\ applied' = stored[id]
          /\ advanced' = Applied(stored[id])
  /\ UNCHANGED <<search, quick, screen, stored>>

(* The button of the page: it resets the filter, applies and navigates.     *)
apply ==
  /\ onSaved /\ dialog = Closed
  /\ \E id \in SavedIds :
       /\ stored[id] # Gone
       /\ savedFilterId' = id /\ applied' = stored[id]
       /\ advanced' = asGroup(stored[id])
  /\ terms' = {} /\ quick' = EMPTY_QUICK
  /\ onSaved' = FALSE
  /\ UNCHANGED <<searchMode, searchFields, dialog, stored>>

openSave ==
  /\ OnBar /\ hasFilters /\ saveableFilterNode # Null
  /\ dialog' = [Closed EXCEPT !.kind = "save"]
  /\ UNCHANGED <<search, chosen, onSaved, stored, applied>>

(* The server's side: a tree it cannot parse, and a new filter without      *)
(* conditions, are refused; an update without a tree leaves the stored one  *)
(* alone.  The request, its answer and the refresh of the lists that        *)
(* follows are one step here; Pages has what can come between them.         *)
Accepted(tree) == Accepts(tree) /\ parsed(tree) # Null
Create(tree) ==
  \E id \in SavedIds : /\ stored[id] = Gone /\ Accepted(tree)
                        /\ stored' = [stored EXCEPT ![id] = parsed(tree)]
Update(id, tree) ==
  \/ tree = Null /\ UNCHANGED stored
  \/ Accepted(tree) /\ stored' = [stored EXCEPT ![id] = parsed(tree)]

(* The filter bar saves what the user sees narrowing the list.              *)
saveCurrent ==
  /\ dialog.kind = "save"
  /\ Size(saveableFilterNode) <= MaxStored
  /\ Create(saveableFilterNode)
  /\ dialog' = Closed
  /\ UNCHANGED <<search, chosen, onSaved, applied>>

Navigate ==
  /\ dialog = Closed
  /\ onSaved' = ~onSaved
  /\ UNCHANGED <<search, chosen, dialog, stored, applied>>

(* The editor of the page takes a stored tree as it is, or wraps it.        *)
open ==
  /\ onSaved /\ dialog = Closed
  /\ \/ dialog' = [kind |-> "edit", target |-> NewFilter, draft |-> emptyGroup]
     \/ \E id \in SavedIds :
          /\ stored[id] # Gone
          /\ dialog' = [kind |-> "edit", target |-> id,
                        draft |-> IF stored[id] = Null THEN emptyGroup
                                  ELSE IF IsGroup(stored[id]) THEN stored[id]
                                  ELSE [op |-> "and", children |-> <<stored[id]>>]]
  /\ UNCHANGED <<search, chosen, onSaved, stored, applied>>

save ==
  /\ dialog.kind = "edit"
  /\ Size(dialog.draft) <= MaxStored
  /\ IF dialog.target = NewFilter THEN Create(pruneGroup(dialog.draft))
     ELSE Update(dialog.target, pruneGroup(dialog.draft))
  /\ dialog' = Closed
  /\ UNCHANGED <<search, chosen, onSaved, applied>>

remove ==
  /\ onSaved /\ dialog = Closed
  /\ \E id \in SavedIds : /\ stored[id] # Gone
                          /\ stored' = [stored EXCEPT ![id] = Gone]
  /\ UNCHANGED <<search, chosen, screen, applied>>

-----------------------------------------------------------------------------
Init ==
  /\ terms = {} /\ searchMode = "any" /\ searchFields = DEFAULT_SEARCH_FIELDS
  /\ quick = EMPTY_QUICK /\ advanced = Null /\ savedFilterId = NoId
  /\ onSaved = FALSE /\ dialog = Closed
  /\ stored \in [SavedIds -> {Gone, Null}]
  /\ applied = Null

Bar == addTerms \/ removeTerm \/ setSearchMode \/ setSearchFields
         \/ toggleQuick \/ setQuick \/ reset \/ showDomainInLog \/ showIdInLog
Builder == openBuilder \/ EditDraft \/ applyBuilder \/ CloseDialog
SavedFilters == applySavedFilter \/ apply \/ openSave \/ saveCurrent \/ Navigate \/ open
                  \/ save \/ remove
Next == Bar \/ Builder \/ SavedFilters
FilterSpec == Init /\ [][Next]_vars

-----------------------------------------------------------------------------
(* A saved filter stands on its own: the tree the bar would save finds the  *)
(* rows that are on screen, whatever mixture of terms, picks and conditions *)
(* narrows them (saveableFilterNode, and the backend's quick_search_filter).*)
SavedMeansShown ==
  OnBar /\ Accepts(buildRequest.filter) =>
    /\ Accepts(saveableFilterNode)
    /\ Matches(saveableFilterNode) = Answered

(* A saved filter that was applied and not edited since narrows the list:   *)
(* every row shown is one of its rows, whatever is picked beside it         *)
(* (applySavedFilter and asGroup, for trees of any shape the server has).   *)
AppliedFilterNarrows ==
  OnBar /\ applied # Null /\ Accepts(buildRequest.filter) => Answered \subseteq Matches(applied)

Drawn == pruneGroup(dialog.draft)
Keeps(id) ==
  /\ dialog.kind = "edit" /\ dialog' = Closed /\ save /\ Drawn # Null
  /\ \/ dialog.target = id
     \/ dialog.target = NewFilter /\ stored[id] # stored'[id]

(* What the server keeps finds what was drawn: the rows of the conditions    *)
(* that were finished in the builder, although the browser prunes the tree, *)
(* the backend flattens it, and the compiler merges alternatives that are   *)
(* found by one subquery.  Alternatives about tags it merges wrongly, and   *)
(* of those nothing is said.  (A draft without a finished condition is no   *)
(* tree to store: it leaves the stored one.)                                *)
StoredAsDrawn ==
  [][\A id \in SavedIds :
       Keeps(id) /\ ~LosesKind(stored'[id]) =>
         Matches(stored'[id]) = {row \in Rows : Holds(Drawn, row)}]_vars
=============================================================================
