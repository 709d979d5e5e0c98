----------------------------- MODULE RulesPage -----------------------------
(***************************************************************************)
(* The page of the rules (frontend/src/pages/RulesPage.tsx): what it       *)
(* lists, its dialog, and the requests it makes of a draft.                *)
(***************************************************************************)
EXTENDS Catalog

CONSTANT
  Shown,    \* OPERATORS: the operators the dialog offers, as it calls them
  MaxParts  \* bound on the conditions and on the tags of a draft

OPERATOR_VALUES(shown) == IF shown = "exactly" THEN "equals" ELSE shown

rows(c) == {[id |-> id, rule |-> c.rules[id]] : id \in Existing(c.rules)}

emptyTag == [name |-> Empty, kind |-> "tag"]
emptyCondition == [operator |-> "suffix", value |-> Empty]
emptyRule == [name |-> Empty, enabled |-> TRUE, priority |-> DefaultPriority,
              conditions |-> <<emptyCondition>>, tags |-> <<emptyTag>>]

openNew == [target |-> New, draft |-> emptyRule, touched |-> {}]
openEdit(row) == [target |-> row, draft |-> row.rule, touched |-> {}]

(* The box of the priority takes any number; emptied it means the default.  *)
fields(dialog) ==
  {[dialog EXCEPT !.draft.name = text] : text \in Typed}
    \cup {[dialog EXCEPT !.draft.enabled = ~@]}
    \cup {[dialog EXCEPT !.draft.priority = orDefault(number)] : number \in Priorities}

\* As if the operator went out under the name it has in the dialog.
patchConditionAsShown(dialog, i) ==
  {[dialog EXCEPT !.draft.conditions[i].operator = shown] : shown \in Shown}
    \cup {[dialog EXCEPT !.draft.conditions[i].value = text] : text \in Typed}

patchCondition(dialog, i) ==
  {[dialog EXCEPT !.draft.conditions[i].operator = OPERATOR_VALUES(shown)] : shown \in Shown}
    \cup {[dialog EXCEPT !.draft.conditions[i].value = text] : text \in Typed}

conditionRows(dialog) ==
  LET n == Len(dialog.draft.conditions) IN
  (UNION {patchCondition(dialog, i) : i \in 1 .. n})
    \cup {[dialog EXCEPT !.draft.conditions = RemoveAt(@, i)] : i \in 1 .. n}
    \cup (IF n >= MaxParts THEN {} ELSE
           {[dialog EXCEPT !.draft.conditions =
               Append(@, [operator |-> "contains", value |-> Empty])]})

tagRows(dialog) ==
  LET n == Len(dialog.draft.tags) IN
  (UNION {{[dialog EXCEPT !.draft.tags[i].name = text] : text \in Typed}
           \cup {[dialog EXCEPT !.draft.tags[i].kind = kind] : kind \in KINDS}
           \cup {[dialog EXCEPT !.draft.tags = RemoveAt(@, i)]} : i \in 1 .. n})
    \cup (IF n >= MaxParts THEN {} ELSE
           {[dialog EXCEPT !.draft.tags = Append(@, emptyTag)]})

(* What is sent: rows left blank are not.                                   *)
payload(draft) ==
  [draft EXCEPT !.conditions = Picked(@, {i \in DOMAIN @ : ~Blank(@[i].value)}),
                !.tags = Picked(@, {i \in DOMAIN @ : ~Blank(@[i].name)})]

(* needName, needCondition, needTag: what the page checks before it asks    *)
mayBeSaved(draft) ==
  /\ ~Blank(draft.name)
  /\ payload(draft).conditions # <<>>
  /\ payload(draft).tags # <<>>

RuleRequest(do, id, rule) ==
  [do |-> do, id |-> id, name |-> rule.name, enabled |-> rule.enabled,
   priority |-> rule.priority, conditions |-> rule.conditions, tags |-> rule.tags]

save(target, draft) ==
  <<RuleRequest(IF target = New THEN "createRule" ELSE "updateRule", target.id, payload(draft))>>

remove(row) == <<[do |-> "deleteRule", id |-> row.id]>>

(* The banner with its button is there while domains wait for the rules.    *)
reclassifyNow(c) == IF c.pending THEN <<[do |-> "reclassify"]>> ELSE <<>>
=============================================================================
