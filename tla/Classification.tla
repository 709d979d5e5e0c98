--------------------------- MODULE Classification ---------------------------
(***************************************************************************)
(* The tags on domains: rules edited over HTTP (api/rules.py), an engine   *)
(* built from them and kept in memory (runtime.py), the ingest loop that   *)
(* classifies new and stale domains with it (services/classification.py),  *)
(* and tags the user manages by hand (services/tag_service.py).            *)
(*                                                                         *)
(* A rule change commits in a worker thread and the engine is rebuilt only *)
(* when the request handler runs again.  The ingest loop writes in another *)
(* thread: it reads the revision from the database and the engine from     *)
(* memory.                                                                 *)
(***************************************************************************)
EXTENDS Integers, FiniteSets

CONSTANTS
  Domain,
  Tag,         \* tag names (the kind of a tag is part of its name)
  Rule,        \* every rule that may be in force
  Builtin,     \* the rules shipped with the program, always in force
  Gives,       \* [Rule -> [Domain -> SUBSET Tag]]: what a rule gives a domain
  Catalogue,   \* the tags shipped with the program
  Batch,       \* RECLASSIFY_BATCH: stale domains one poll classifies again
  MaxRev,      \* bound on the revision, that is, on the rule changes
  MaxMarks     \* bound on the requests to classify everything again

UserRule == Rule \ Builtin

ASSUME ClassificationAssumption ==
  /\ Builtin \subseteq Rule
  /\ Gives \in [Rule -> [Domain -> SUBSET Tag]]
  /\ Catalogue \subseteq Tag
  /\ Batch \in Nat \ {0}
  /\ MaxRev \in Nat \ {0}
  /\ MaxMarks \in Nat

VARIABLES
  rules,      \* the user's enabled rules, as stored
  rev,        \* ruleset_rev, as stored
  engine,     \* the rules of the engine in memory
  reloads,    \* rule handlers between their commit and reload_engine
  marking,    \* a reclassify handler has reloaded and is about to mark
  marks,      \* how often everything was marked
  online,     \* polls get through: ingest is on and AdGuard answers
  tags,       \* rows of the tags table
  fixed,      \* ... those flagged built-in
  domains,    \* rows of the domains table
  stamp,      \* [Domain -> Int]: domains.ruleset_rev, -1 when never classified
  auto,       \* [Domain -> SUBSET Tag]: links an automatic pass made
  manual,     \* [Domain -> SUBSET Tag]: links the user made
  used,       \* history: the rules each domain was last classified with
  early       \* history: domains classified while a reload was still due

tables == <<tags, fixed, domains, stamp, auto, manual>>
vars == <<rules, rev, engine, reloads, marking, marks, online, tables, used,
          early>>

Stale == -1

\* Every tag some matching rule gives.
Classify(R, d) == UNION {Gives[r][d] : r \in R}

-----------------------------------------------------------------------------
(* Rule changes: create_rule, update_rule and delete_rule.                 *)

\* As if the engine was rebuilt before the change was written.
ChangeRulesAfterReload(new) ==
  /\ rev < MaxRev
  /\ rules' = new
  /\ rev' = rev + 1
  /\ engine' = Builtin \cup rules
  /\ UNCHANGED <<reloads, marking, marks, online, tables, used, early>>

\* As if a change of a rule that was there already kept the revision.
ChangeRulesWithoutBump(new) ==
  /\ rev < MaxRev
  /\ rules' = new
  /\ rev' = IF rules \subseteq new THEN rev + 1 ELSE rev
  /\ reloads' = IF reloads < MaxRev THEN reloads + 1 ELSE reloads
  /\ UNCHANGED <<engine, marking, marks, online, tables, used, early>>

\* The rule and the revision in one transaction; the reload is still to come.
ChangeRules(new) ==
  /\ rev < MaxRev
  /\ rules' = new
  /\ rev' = rev + 1
  /\ reloads' = reloads + 1
  /\ UNCHANGED <<engine, marking, marks, online, tables, used, early>>

ReloadEngine ==
  /\ reloads > 0
  /\ engine' = Builtin \cup rules
  /\ reloads' = reloads - 1
  /\ UNCHANGED <<rules, rev, marking, marks, online, tables, used, early>>

\* POST /maintenance/reclassify: reload, then mark every domain.
StartReclassify ==
  /\ ~ marking
  /\ marks < MaxMarks
  /\ marking' = TRUE
  /\ engine' = Builtin \cup rules
  /\ UNCHANGED <<rules, rev, reloads, marks, online, tables, used, early>>

MarkAll ==
  /\ marking
  /\ marking' = FALSE
  /\ marks' = marks + 1
  /\ stamp' = [d \in Domain |-> Stale]
  /\ UNCHANGED <<rules, rev, engine, reloads, online, tags, fixed, domains, auto, manual,
                 used, early>>

\* The process is restarted: open requests are gone, the engine is rebuilt and
\* the catalogue is seeded.
Restart ==
  /\ engine' = Builtin \cup rules
  /\ reloads' = 0
  /\ marking' = FALSE
  /\ tags' = tags \cup Catalogue
  /\ fixed' = fixed \cup (Catalogue \ tags)
  /\ UNCHANGED <<rules, rev, marks, online, domains, stamp, auto, manual, used, early>>

-----------------------------------------------------------------------------
(* The ingest loop's write transactions.                                   *)

\* As if an automatic pass replaced every link of a domain.
ClassifyDomainsAll(S) ==
  /\ auto' = [d \in Domain |-> IF d \in S THEN Classify(engine, d) ELSE auto[d]]
  /\ manual' = [d \in Domain |-> IF d \in S THEN {} ELSE manual[d]]
  /\ stamp' = [d \in Domain |-> IF d \in S THEN rev ELSE stamp[d]]
  /\ LET missing == (UNION {Classify(engine, d) : d \in S}) \ tags IN
     /\ tags' = tags \cup missing
     /\ fixed' = fixed \cup missing
  /\ used' = [d \in Domain |-> IF d \in S THEN engine ELSE used[d]]
  /\ early' = IF reloads > 0 THEN early \cup S ELSE early \ S
  /\ UNCHANGED <<rules, rev, engine, reloads, marking, marks, online>>

\* As if a domain that gets no tag was not stamped.
ClassifyDomainsTagged(S) ==
  /\ auto' = [d \in Domain |->
       IF d \in S THEN Classify(engine, d) \ manual[d] ELSE auto[d]]
  /\ stamp' = [d \in Domain |->
       IF d \in S /\ Classify(engine, d) # {} THEN rev ELSE stamp[d]]
  /\ LET missing == (UNION {Classify(engine, d) : d \in S}) \ tags IN
     /\ tags' = tags \cup missing
     /\ fixed' = fixed \cup missing
  /\ used' = [d \in Domain |-> IF d \in S THEN engine ELSE used[d]]
  /\ early' = IF reloads > 0 THEN early \cup S ELSE early \ S
  /\ UNCHANGED <<rules, rev, engine, reloads, marking, marks, online, manual>>

\* classify_domains: the automatic links of S are derived again, a link the
\* user made wins, missing tags are created, and S is stamped.
ClassifyDomains(S) ==
  /\ auto' = [d \in Domain |->
       IF d \in S THEN Classify(engine, d) \ manual[d] ELSE auto[d]]
  /\ stamp' = [d \in Domain |-> IF d \in S THEN rev ELSE stamp[d]]
  /\ LET missing == (UNION {Classify(engine, d) : d \in S}) \ tags IN
     /\ tags' = tags \cup missing
     /\ fixed' = fixed \cup missing
  /\ used' = [d \in Domain |-> IF d \in S THEN engine ELSE used[d]]
  /\ early' = IF reloads > 0 THEN early \cup S ELSE early \ S
  /\ UNCHANGED <<rules, rev, engine, reloads, marking, marks, online, manual>>

\* store_records classifies the domains a batch brings for the first time.
ImportDomains(S) ==
  /\ online
  /\ S # {}
  /\ S \cap domains = {}
  /\ domains' = domains \cup S
  /\ ClassifyDomains(S)

StaleDomains == {d \in domains : stamp[d] # rev}

\* Every poll that gets through ends with one batch of stale domains.
ReclassifyStale ==
  /\ online
  /\ \E S \in SUBSET StaleDomains :
       /\ S # {}
       /\ Cardinality(S) = Batch \/ (S = StaleDomains /\ Cardinality(S) < Batch)
       /\ ClassifyDomains(S)
  /\ UNCHANGED domains

\* Ingest is switched, or AdGuard goes and comes back: a poll that stops early
\* or fails classifies nothing.
SwitchOnline ==
  /\ online' = ~ online
  /\ UNCHANGED <<rules, rev, engine, reloads, marking, marks, tables, used, early>>

\* A cleanup prunes a domain; its links go with the row.
PruneDomain(d) ==
  /\ d \in domains
  /\ domains' = domains \ {d}
  /\ stamp' = [stamp EXCEPT ![d] = Stale]
  /\ auto' = [auto EXCEPT ![d] = {}]
  /\ manual' = [manual EXCEPT ![d] = {}]
  /\ used' = [used EXCEPT ![d] = {}]
  /\ early' = early \ {d}
  /\ UNCHANGED <<rules, rev, engine, reloads, marking, marks, online, tags, fixed>>

-----------------------------------------------------------------------------
(* Tags by hand.                                                           *)

\* As if a tag the rules had given was left linked twice.
SetDomainTagsTwice(d, T) ==
  /\ d \in domains
  /\ manual' = [manual EXCEPT ![d] = T]
  /\ UNCHANGED <<rules, rev, engine, reloads, marking, marks, online, tags, fixed,
                 domains, stamp, auto, used, early>>

\* The user's links are replaced; one the rules had given becomes the user's.
SetDomainTags(d, T) ==
  /\ d \in domains
  /\ manual' = [manual EXCEPT ![d] = T]
  /\ auto' = [auto EXCEPT ![d] = @ \ T]
  /\ UNCHANGED <<rules, rev, engine, reloads, marking, marks, online, tags, fixed,
                 domains, stamp, used, early>>

CreateTag(t) ==
  /\ t \notin tags
  /\ tags' = tags \cup {t}
  /\ UNCHANGED <<rules, rev, engine, reloads, marking, marks, online, fixed, domains,
                 stamp, auto, manual, used, early>>

\* The row keeps its links and its flag under the new name.
RenameTag(t, name) ==
  LET Renamed(S) == IF t \in S THEN (S \ {t}) \cup {name} ELSE S IN
  /\ t \in tags
  /\ name \notin tags
  /\ tags' = Renamed(tags)
  /\ fixed' = Renamed(fixed)
  /\ auto' = [d \in Domain |-> Renamed(auto[d])]
  /\ manual' = [d \in Domain |-> Renamed(manual[d])]
  /\ UNCHANGED <<rules, rev, engine, reloads, marking, marks, online, domains, stamp,
                 used, early>>

\* Built-in tags are refused; the links of the others go with them.
DeleteTag(t) ==
  /\ t \in tags \ fixed
  /\ tags' = tags \ {t}
  /\ auto' = [d \in Domain |-> auto[d] \ {t}]
  /\ manual' = [d \in Domain |-> manual[d] \ {t}]
  /\ UNCHANGED <<rules, rev, engine, reloads, marking, marks, online, fixed, domains,
                 stamp, used, early>>

-----------------------------------------------------------------------------
Init ==
  /\ rules = {} /\ rev = 1
  /\ engine = Builtin /\ reloads = 0
  /\ marking = FALSE /\ marks = 0
  /\ online = TRUE
  /\ tags = Catalogue /\ fixed = Catalogue
  /\ domains = {}
  /\ stamp = [d \in Domain |-> Stale]
  /\ auto = [d \in Domain |-> {}] /\ manual = [d \in Domain |-> {}]
  /\ used = [d \in Domain |-> {}] /\ early = {}

Next ==
  \/ \E new \in SUBSET UserRule : ChangeRules(new)
  \/ ReloadEngine \/ StartReclassify \/ MarkAll \/ Restart
  \/ \E S \in SUBSET Domain : ImportDomains(S)
  \/ ReclassifyStale \/ SwitchOnline
  \/ \E d \in Domain : PruneDomain(d)
  \/ \E d \in Domain, T \in SUBSET tags : SetDomainTags(d, T)
  \/ \E t \in Tag : CreateTag(t) \/ DeleteTag(t)
  \/ \E t, name \in Tag : RenameTag(t, name)

ClassificationSpec == Init /\ [][Next]_vars

\* The ingest loop sleeps with a timeout: it polls for ever.
FairClassificationSpec == ClassificationSpec /\ WF_vars(ReclassifyStale)

-----------------------------------------------------------------------------
(* Properties.                                                             *)

\* The rows are well formed: a domain and a tag are linked once, every link is
\* to a tag that exists, and a domain that is gone left nothing behind.
TypeOK ==
  /\ rules \subseteq UserRule /\ engine \subseteq Rule
  /\ rev \in 1..MaxRev /\ reloads \in 0..MaxRev
  /\ marking \in BOOLEAN /\ marks \in 0..MaxMarks /\ online \in BOOLEAN
  /\ tags \subseteq Tag /\ fixed \subseteq tags
  /\ domains \subseteq Domain
  /\ stamp \in [Domain -> Stale..MaxRev]
  /\ auto \in [Domain -> SUBSET tags] /\ manual \in [Domain -> SUBSET tags]
  /\ used \in [Domain -> SUBSET Rule] /\ early \subseteq domains
  /\ \A d \in Domain : auto[d] \cap manual[d] = {}
  /\ \A d \in Domain \ domains : auto[d] = {} /\ manual[d] = {}

\* Whatever order handlers commit and resume in, once the last one has reloaded
\* the engine is the one of the stored rules.
EngineFollowsRules == reloads = 0 => engine = Builtin \cup rules

\* A domain that carries the current revision was classified with the current
\* rules, unless the ingest loop classified it between the commit of a rule
\* change and its reload: that gap is the only way to a wrong stamp.
StampIsRightOutsideTheGap ==
  \A d \in domains \ early : stamp[d] = rev => used[d] = Builtin \cup rules

\* An automatic pass never touches what the user tagged by hand ("Tags a user
\* attached by hand are never touched by an automatic pass").
ManualTagsSurvive ==
  [][\A d \in domains \cap domains' :
       stamp'[d] # stamp[d] \/ used'[d] # used[d] => manual'[d] = manual[d]]_vars

\* Changes of the rules are caught up with once polls get through for good:
\* batch by batch every domain reaches the current revision, however the rest
\* come and go meanwhile.
StaleDomainsDrain ==
  <>[]online =>
    \A d \in Domain :
      d \in domains ~> (d \in domains => stamp[d] = rev)

\* A domain that carries the current revision was classified with the current
\* rules ("A domain records the rule set revision it was last classified
\* with").
StampIsTheRuleSet ==
  \A d \in domains : stamp[d] = rev => used[d] = Builtin \cup rules
=============================================================================
