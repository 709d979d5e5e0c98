------------------------------- MODULE Pages -------------------------------
(***************************************************************************)
(* A page that lists what the server keeps and edits it in a dialog.  The  *)
(* pages of people, tags, rules, devices and of one domain work alike: the *)
(* list comes from the hook of UseAsync, the dialog starts from a row of   *)
(* it, a save is one request after another, and the last answer closes the *)
(* dialog and asks for the list again.  Nothing on the page waits for a    *)
(* save: it can be closed, edited or saved again meanwhile, by this page   *)
(* and by others.                                                          *)
(*                                                                         *)
(* PersonsPage, TagsPage, RulesPage, DevicesPage and DomainPage have what  *)
(* each page makes of its data; Catalog is the server.  Two more pages are *)
(* that of the log, of which LogColumns has the columns, and Settings.  A  *)
(* page is chosen in the beginning: one that is left shares no state with  *)
(* the next.                                                               *)
(***************************************************************************)
EXTENDS UseAsync, Catalog, LogColumns, Settings

CONSTANTS
  Screens,    \* the pages looked at
  DepsOf,     \* [Screens -> SUBSET Deps]
  Shown, MaxParts, Found,
  Elsewhere,  \* [Screens -> requests other tabs make]
  Catalog0,   \* [Screens -> what the server has in the beginning]
  MaxRevision,  \* [Screens -> bound on the changes of the catalog]
  MaxRuns,      \* bound on the calls of a mounted page where the user adds one
  MaxSaves,     \* [Screens -> bound on the saves and removals out at a time]
  MaxEdits      \* [Screens -> bound on the edits of a draft]

ASSUME PagesAssumption ==
  /\ \A s \in Screens : DepsOf[s] \subseteq Deps
  /\ Ids \subseteq Nat \ {0}
  /\ \A s \in Screens : IsCatalog(Catalog0[s])
  /\ \A s \in Screens : \A r \in Elsewhere[s] : r.do \in Operations

VARIABLES
  screen, catalog,
  dialog,   \* Closed, or [target: its row, draft, touched: the boxes toggled]
  edits,    \* how often the draft was edited
  saves,    \* saves and removals on their way
  mine      \* history: the revision of the last save the page took for done

Persons == INSTANCE PersonsPage
Tags == INSTANCE TagsPage
Rules == INSTANCE RulesPage
DevicesP == INSTANCE DevicesPage
Domain == INSTANCE DomainPage

(* A rule as the server keeps it, as the dialog edits it, and as it comes   *)
(* with a request, whose operators and priority the server looks at.        *)
Ranks == {orDefault(number) : number \in Priorities}
RulesWith(operators, priorities) ==
  [name : Typed, enabled : BOOLEAN, priority : priorities,
   conditions : Seq([operator : operators, value : Typed]),
   tags : Seq([name : Typed, kind : KINDS])]
KeptRules == RulesWith(RuleOperators, Ranks \cap Whole)
DrawnRules == RulesWith(RuleOperators, Ranks)
IsRuleRequest(r) ==
  r.do \in {"createRule", "updateRule"} =>
    [name |-> r.name, enabled |-> r.enabled, priority |-> r.priority,
     conditions |-> r.conditions, tags |-> r.tags] \in RulesWith(STRING, Priorities)

(* The dialog's operators are operators of the server; rules are rules.     *)
ASSUME RulesAssumption ==
  /\ RuleOperators \subseteq STRING
  /\ {Rules!OPERATOR_VALUES(shown) : shown \in Shown} \cup {"suffix", "contains"}
       \subseteq RuleOperators
  /\ DefaultPriority \in Whole /\ Whole \subseteq Priorities
  /\ \A s \in Screens : Catalog0[s].rules \in [Ids -> KeptRules \cup {None}]
  /\ \A s \in Screens : \A r \in Elsewhere[s] : IsRuleRequest(r)

user == <<dialog, edits>>
server == <<catalog, now>>
pageVars == <<screen, catalog, user, saves, mine>>
vars == <<hookVars, pageVars, columnVars, settingsVars>>

Closed == [target |-> [id |-> -2], draft |-> [name |-> Empty], touched |-> {}]

-----------------------------------------------------------------------------
(* What the pages make of their data                                        *)

Seen(a) == CHOOSE c \in a.body : TRUE

Rows(a) ==
  CASE screen = "persons" -> Persons!rows(Seen(a))
    [] screen = "tags" -> Tags!rows(Seen(a))
    [] screen = "rules" -> Rules!rows(Seen(a))
    [] screen = "devices" -> DevicesP!rows(Seen(a), a.deps)
    [] screen = "domain" -> {}

Opened(a) ==
  CASE screen = "persons" -> {Persons!openEdit(row) : row \in Rows(a)}
    [] screen = "tags" -> {Tags!open(row) : row \in Rows(a)}
    [] screen = "rules" -> {Rules!openEdit(row) : row \in Rows(a)}
    [] screen = "devices" -> {DevicesP!openEditor(row) : row \in Rows(a)}
    [] screen = "domain" -> {Domain!openTags(Seen(a), a.deps)}

OpenedNew ==
  CASE screen = "persons" -> {Persons!openNew}
    [] screen = "tags" -> {Tags!open(New)}
    [] screen = "rules" -> {Rules!openNew}
    [] OTHER -> {}

Edited ==
  CASE screen = "persons" -> Persons!fields(dialog) \cup Persons!deviceBoxes(dialog)
    [] screen = "tags" -> Tags!fields(dialog)
    [] screen = "rules" ->
         Rules!fields(dialog) \cup Rules!conditionRows(dialog) \cup Rules!tagRows(dialog)
    [] screen = "devices" -> DevicesP!fields(dialog)
    [] screen = "domain" -> Domain!tagBoxes(dialog)

MayBeSaved ==
  CASE screen = "persons" -> Persons!mayBeSaved(dialog.draft)
    [] screen = "tags" -> Tags!mayBeSaved(dialog.draft)
    [] screen = "rules" -> Rules!mayBeSaved(dialog.draft)
    [] OTHER -> TRUE

Requests ==
  CASE screen = "persons" -> Persons!save(dialog.target, dialog.draft)
    [] screen = "tags" -> Tags!save(dialog.target, dialog.draft)
    [] screen = "rules" -> Rules!save(dialog.target, dialog.draft)
    [] screen = "devices" -> DevicesP!save(dialog.target, dialog.draft)
    [] screen = "domain" -> Domain!saveTags(deps, dialog.draft)

(* The requests of the buttons of the rows, and of the banner of the rules  *)
Buttons(a) ==
  (CASE screen = "persons" -> {Persons!remove(row) : row \in Rows(a)}
     [] screen = "tags" -> {Tags!remove(row) : row \in Rows(a)}
     [] screen = "rules" -> {Rules!remove(row) : row \in Rows(a)}
                              \cup {Rules!reclassifyNow(Seen(a))}
     [] OTHER -> {}) \ {<<>>}

(* The page of a domain shows nothing but a failure, once it has one.       *)
Visible == data # {} /\ (screen = "domain" => ~error)

-----------------------------------------------------------------------------
(* The user                                                                 *)

(* A search, an order, a range; the back button changes a domain under the  *)
(* dialog.                                                                  *)
Turn ==
  /\ dialog = Closed \/ screen = "domain"
  /\ latest < MaxRuns /\ ran = Wanted
  /\ \E d \in DepsOf[screen] \ {deps} : SetDeps(d)
  /\ UNCHANGED <<now, pageVars, columnVars>>

Open ==
  /\ dialog = Closed
  /\ \/ dialog' \in OpenedNew
     \/ Visible /\ dialog' \in UNION {Opened(a) : a \in data}
  /\ edits' = 0
  /\ UNCHANGED <<hookVars, screen, catalog, saves, mine, columnVars>>

Edit ==
  /\ dialog # Closed /\ edits < MaxEdits[screen] /\ (screen = "domain" => Visible)
  /\ dialog' \in Edited \ {dialog} /\ edits' = edits + 1
  /\ UNCHANGED <<hookVars, screen, catalog, saves, mine, columnVars>>

Close ==
  /\ dialog # Closed
  /\ dialog' = Closed /\ edits' = 0
  /\ UNCHANGED <<hookVars, screen, catalog, saves, mine, columnVars>>

Start(todo, of) ==
  \E n \in 1 .. MaxSaves[screen] :
    /\ \A s \in saves : s.n # n
    /\ saves' = saves \cup {[n |-> n, todo |-> todo, stage |-> "asked", mounted |-> TRUE,
                             of |-> of, at |-> 0]}

(* The dialog stays open, and nothing keeps it from being saved again.      *)
Save ==
  /\ dialog # Closed /\ MayBeSaved /\ (screen = "domain" => Visible)
  /\ Start(Requests, dialog)
  /\ UNCHANGED <<hookVars, screen, catalog, user, mine, columnVars>>

Press ==
  /\ dialog = Closed /\ Visible
  /\ \E a \in data : \E todo \in Buttons(a) : Start(todo, Closed)
  /\ UNCHANGED <<hookVars, screen, catalog, user, mine, columnVars>>

(* The page is left and opened again: what was under way goes on without it.*)
(* (A page left at rest takes nothing along.)                               *)
Reopen ==
  /\ latest # 0 /\ (calls # {} \/ saves # {})
  /\ \E d \in DepsOf[screen] : Remount(d)
  /\ dialog' = Closed /\ edits' = 0 /\ mine' = 0
  /\ saves' = {[s EXCEPT !.mounted = FALSE] : s \in saves}
  /\ UNCHANGED <<screen, catalog, columnVars>>

-----------------------------------------------------------------------------
(* Saves                                                                    *)

With(request, id) == IF "id" \in DOMAIN request /\ request.id = Created
                     THEN [request EXCEPT !.id = id] ELSE request

Answered(s) == Outcome(catalog, Head(s.todo))

(* The server gets the request that is out.  A refusal ends the save: the   *)
(* rest is given up, what was done stays done, and the dialog stays open    *)
(* (with the reason, which is left out).                                    *)
Perform(s) ==
  /\ s.stage = "asked"
  /\ IF Answered(s).ok
     THEN /\ now < MaxRevision[screen] /\ now' = now + 1
          /\ catalog' = Answered(s).catalog
          /\ saves' = (saves \ {s}) \cup
               {[s EXCEPT !.stage = "done", !.at = now',
                          !.todo = [i \in DOMAIN @ |-> With(@[i], Answered(s).id)]]}
     ELSE saves' = saves \ {s} /\ UNCHANGED server
  /\ UNCHANGED <<hook, screen, user, mine, columnVars>>

(* Its answer arrives, and the next request goes out.                       *)
Continue(s) ==
  /\ s.stage = "done" /\ Len(s.todo) > 1
  /\ saves' = (saves \ {s}) \cup {[s EXCEPT !.todo = Tail(@), !.stage = "asked"]}
  /\ UNCHANGED <<hookVars, screen, catalog, user, mine, columnVars>>

\* As if the list were only asked for again by the user.
FinishQuietly(s) ==
  /\ s.stage = "done" /\ Len(s.todo) = 1
  /\ saves' = saves \ {s}
  /\ UNCHANGED hook
  /\ IF s.mounted THEN mine' = s.at ELSE UNCHANGED mine
  /\ IF s.mounted /\ s.of # Closed THEN dialog' = Closed /\ edits' = 0 ELSE UNCHANGED user
  /\ UNCHANGED <<now, screen, catalog, columnVars>>

(* The last answer arrives: whatever dialog is open now is closed, and the  *)
(* list is asked for again.                                                 *)
Finish(s) ==
  /\ s.stage = "done" /\ Len(s.todo) = 1
  /\ saves' = saves \ {s}
  /\ IF s.mounted THEN reload /\ mine' = s.at ELSE UNCHANGED <<hook, mine>>
  /\ IF s.mounted /\ s.of # Closed THEN dialog' = Closed /\ edits' = 0 ELSE UNCHANGED user
  /\ UNCHANGED <<now, screen, catalog, columnVars>>

(* A request or its answer is lost, which to the page is a refusal.         *)
Fail(s) ==
  /\ saves' = saves \ {s}
  /\ UNCHANGED <<hookVars, screen, catalog, user, mine, columnVars>>

(* Somebody else changes something.                                         *)
Other ==
  /\ now < MaxRevision[screen]
  /\ \E r \in Elsewhere[screen] :
       /\ Outcome(catalog, r).ok /\ Outcome(catalog, r).catalog # catalog
       /\ catalog' = Outcome(catalog, r).catalog
  /\ now' = now + 1
  /\ UNCHANGED <<hook, screen, user, saves, mine, columnVars>>

-----------------------------------------------------------------------------
Init ==
  /\ screen \in Screens
  /\ \E d \in DepsOf[screen] : Mounted(d)
  /\ now = 0 /\ posed = 0
  /\ catalog = Catalog0[screen]
  /\ dialog = Closed /\ edits = 0 /\ saves = {} /\ mine = 0
  /\ ColumnsInit /\ SettingsInit
  /\ screen # "settings" => stored = Defaults /\ bound = CHOOSE b \in Bounds : TRUE

User == Turn \/ Open \/ Edit \/ Close \/ Save \/ Press \/ Reopen
Way(s) == Perform(s) \/ Continue(s) \/ Finish(s) \/ Fail(s)
Hook ==
  \/ RunEffect
  \/ \E c \in calls : Serve(c, catalog) \/ \E ok \in BOOLEAN : Settle(c, ok)

OnList == screen \notin {"log", "settings"}
Next ==
  \/ OnList /\ (User \/ Other \/ \E s \in saves : Way(s)) /\ UNCHANGED settingsVars
  \/ OnList /\ Hook /\ UNCHANGED <<pageVars, columnVars, settingsVars>>
  \/ screen = "log" /\ ColumnsNext /\ UNCHANGED <<hookVars, pageVars, settingsVars>>
  \/ screen = "settings" /\ SettingsNext /\ UNCHANGED <<pageVars, columnVars>>

Spec == Init /\ [][Next]_vars

-----------------------------------------------------------------------------
(* Once the page is at rest it shows what was saved last: the list was read *)
(* after the save, whichever of several calls for it was answered first     *)
(* (the reload of every save, and the tokens of useAsync.ts).               *)
ShowsOwnChanges ==
  latest # 0 /\ ran = Wanted /\ ~loading /\ ~error => \A a \in data : a.at >= mine

Asked == {s \in saves : s.stage = "asked" /\ s.of # Closed}

(* Saving a person moves only the devices whose boxes were touched, although*)
(* the requests are made from a list that others may have made untrue by    *)
(* the time they reach the server (PersonsPage.tsx:61-65).                  *)
OnlyTouchedDevicesMove ==
  screen = "persons" =>
    \A s \in Asked, d \in Devices :
      Answered(s).catalog.owner[d] # catalog.owner[d] => d \in s.of.touched

(* A rule the dialog lets through is stored as it was drawn, the rows that  *)
(* were left blank aside: the server's checks find nothing the page's did   *)
(* not, other than a name that is taken, a rule that is gone, or a priority *)
(* that is no whole number, which the page's box takes and the request's    *)
(* schema does not (RulesPage.tsx:70-98 and 331-336, RuleWrite,             *)
(* CategoryRule.from_dict, _validated).                                     *)
StoredRule(rule, draft) ==
  LET conditions == draft.conditions
      tags == draft.tags
  IN /\ rule.name = trim(draft.name) /\ rule.enabled = draft.enabled
     /\ rule.priority = draft.priority
     /\ rule.conditions = Picked(conditions, {i \in DOMAIN conditions : ~Blank(conditions[i].value)})
     /\ rule.tags = Picked(tags, {i \in DOMAIN tags : ~Blank(tags[i].name)})

RulesReachTheServer ==
  screen = "rules" =>
    \A s \in Asked :
      LET others == Named(catalog.rules, trim(s.of.draft.name)) \ {s.of.target.id}
          gone == s.of.target # New /\ catalog.rules[s.of.target.id] = None
          full == s.of.target = New /\ NextId(catalog.rules) \notin Ids
      IN others = {} /\ ~gone /\ ~full /\ s.of.draft.priority \in Whole =>
           /\ Answered(s).ok
           /\ StoredRule(Answered(s).catalog.rules[Answered(s).id], s.of.draft)
=============================================================================
