----------------------- MODULE ClassificationProofs -----------------------
(***************************************************************************)
(* Proofs about Classification, for every set of domains, tags and rules,  *)
(* whatever the rules give, and every value of the bounds; and about the   *)
(* engine, which gives them (RuleEngine).                                  *)
(***************************************************************************)
EXTENDS Classification, RuleEngine, FiniteSetTheorems, TLAPS

\* No domain carries a revision that is still to come, and every handler that
\* is between its commit and its reload has raised the revision once; a
\* marking that was begun is within its bound.
RevisionsArePast ==
  /\ reloads < rev
  /\ marking => marks < MaxMarks
  /\ \A d \in Domain : stamp[d] <= rev

IInv ==
  /\ TypeOK
  /\ RevisionsArePast
  /\ EngineFollowsRules
  /\ StampIsRightOutsideTheGap

-----------------------------------------------------------------------------
\* What the rules give a domain are tags.
LEMMA ClassifyType ==
  ASSUME NEW R \in SUBSET Rule, NEW d \in Domain
  PROVE  Classify(R, d) \subseteq Tag
BY ClassificationAssumption DEF Classify

\* The tables are well formed and consistent when the program is started.
LEMMA InitIInv == Init => IInv
<1>. SUFFICES ASSUME Init PROVE IInv
  OBVIOUS
<1>. USE ClassificationAssumption DEF Init, ClassificationAssumption
<1>1. TypeOK
  <2>1. /\ rules \subseteq UserRule /\ engine \subseteq Rule
        /\ rev \in 1..MaxRev /\ reloads \in 0..MaxRev /\ marks \in 0..MaxMarks
    BY DEF UserRule
  <2>2. marking \in BOOLEAN /\ online \in BOOLEAN
    OBVIOUS
  <2>3. /\ tags \subseteq Tag /\ fixed \subseteq tags
        /\ domains \subseteq Domain /\ early \subseteq domains
    OBVIOUS
  <2>4. /\ stamp \in [Domain -> Stale..MaxRev]
        /\ auto \in [Domain -> SUBSET tags] /\ manual \in [Domain -> SUBSET tags]
        /\ used \in [Domain -> SUBSET Rule]
        /\ \A d \in Domain : auto[d] = {} /\ manual[d] = {}
    BY DEF Stale
  <2>. QED
    BY <2>1, <2>2, <2>3, <2>4 DEF TypeOK
<1>2. RevisionsArePast
  BY DEF RevisionsArePast, Stale
<1>3. EngineFollowsRules /\ StampIsRightOutsideTheGap
  BY DEF EngineFollowsRules, StampIsRightOutsideTheGap
<1>. QED
  BY <1>1, <1>2, <1>3 DEF IInv

-----------------------------------------------------------------------------
(* The type invariant, action by action.                                   *)

\* Rule changes, reloads, marking and restarts keep the tables well formed.
LEMMA RuleStepsKeepTypeOK ==
  ASSUME IInv,
         \/ \E new \in SUBSET UserRule : ChangeRules(new)
         \/ ReloadEngine \/ StartReclassify \/ MarkAll \/ Restart
         \/ SwitchOnline
  PROVE  TypeOK' /\ RevisionsArePast'
<1>. USE ClassificationAssumption
         DEF IInv, TypeOK, RevisionsArePast, tables, Stale, UserRule,
             ClassificationAssumption
<1>1. CASE \E new \in SUBSET UserRule : ChangeRules(new)
  BY <1>1 DEF ChangeRules
<1>2. CASE ReloadEngine
  BY <1>2 DEF ReloadEngine
<1>3. CASE StartReclassify
  BY <1>3 DEF StartReclassify
<1>4. CASE MarkAll
  <2>1. /\ stamp' \in [Domain -> Stale..MaxRev]
        /\ \A d \in Domain : stamp'[d] <= rev'
    BY <1>4 DEF MarkAll
  <2>2. marks' \in 0..MaxMarks
    BY <1>4 DEF MarkAll
  <2>. QED
    BY <1>4, <2>1, <2>2 DEF MarkAll
<1>5. CASE Restart
  <2>1. /\ tags \subseteq tags' /\ tags' \subseteq Tag /\ fixed' \subseteq tags'
    BY <1>5 DEF Restart
  <2>2. auto' \in [Domain -> SUBSET tags'] /\ manual' \in [Domain -> SUBSET tags']
    BY <1>5, <2>1 DEF Restart
  <2>3. /\ rules' \subseteq UserRule /\ engine' \subseteq Rule
        /\ rev' \in 1..MaxRev /\ reloads' \in 0..MaxRev
        /\ marks' \in 0..MaxMarks
    BY <1>5 DEF Restart
  <2>7. marking' \in BOOLEAN /\ online' \in BOOLEAN
    BY <1>5 DEF Restart
  <2>4. UNCHANGED <<domains, stamp, auto, manual, used, early>>
    BY <1>5 DEF Restart
  <2>5. TypeOK'
    BY <2>1, <2>2, <2>3, <2>4, <2>7
  <2>6. RevisionsArePast'
    BY <1>5 DEF Restart
  <2>. QED
    BY <2>5, <2>6
<1>6. CASE SwitchOnline
  BY <1>6 DEF SwitchOnline
<1>. QED
  BY <1>1, <1>2, <1>3, <1>4, <1>5, <1>6

\* So does classifying a set of domains that have a row afterwards.
LEMMA ClassifyDomainsKeepsTypeOK ==
  ASSUME IInv, NEW S \in SUBSET Domain, ClassifyDomains(S),
         domains' \in SUBSET Domain, domains \cup S \subseteq domains'
  PROVE  TypeOK' /\ RevisionsArePast'
<1>. USE DEF IInv, TypeOK, RevisionsArePast, ClassifyDomains
<1>1. \A d \in Domain : Classify(engine, d) \subseteq Tag
  BY ClassifyType
<1>2. /\ tags \subseteq tags' /\ tags' \subseteq Tag /\ fixed' \subseteq tags'
      /\ \A d \in S : Classify(engine, d) \subseteq tags'
  BY <1>1
<1>3. auto' \in [Domain -> SUBSET tags'] /\ manual' \in [Domain -> SUBSET tags']
  BY <1>2
<1>4. /\ stamp' \in [Domain -> Stale..MaxRev]
      /\ \A d \in Domain : stamp'[d] <= rev'
  BY ClassificationAssumption DEF Stale
<1>5. used' \in [Domain -> SUBSET Rule] /\ early' \subseteq domains'
  OBVIOUS
<1>6. \A d \in Domain : auto'[d] \cap manual'[d] = {}
  OBVIOUS
<1>7. \A d \in Domain \ domains' : auto'[d] = {} /\ manual'[d] = {}
  OBVIOUS
<1>. QED
  BY <1>2, <1>3, <1>4, <1>5, <1>6, <1>7

\* So do pruning a domain and the tags the user manages by hand.
LEMMA TagStepsKeepTypeOK ==
  ASSUME IInv,
         \/ \E d \in Domain : PruneDomain(d)
         \/ \E d \in Domain, T \in SUBSET tags : SetDomainTags(d, T)
         \/ \E t \in Tag : CreateTag(t) \/ DeleteTag(t)
         \/ \E t, name \in Tag : RenameTag(t, name)
  PROVE  TypeOK' /\ RevisionsArePast'
<1>. USE DEF IInv, TypeOK, RevisionsArePast
<1>1. CASE \E d \in Domain : PruneDomain(d)
  BY <1>1, ClassificationAssumption DEF PruneDomain, Stale
<1>2. CASE \E d \in Domain, T \in SUBSET tags : SetDomainTags(d, T)
  BY <1>2 DEF SetDomainTags
<1>3. CASE \E t \in Tag : CreateTag(t)
  BY <1>3 DEF CreateTag
<1>4. CASE \E t \in Tag : DeleteTag(t)
  BY <1>4 DEF DeleteTag
<1>5. CASE \E t, name \in Tag : RenameTag(t, name)
  BY <1>5 DEF RenameTag
<1>. QED
  BY <1>1, <1>2, <1>3, <1>4, <1>5

\* Every step keeps the tables well formed.
LEMMA StepsKeepTypeOK ==
  ASSUME IInv, [Next]_vars
  PROVE  TypeOK' /\ RevisionsArePast'
<1>1. ASSUME NEW S \in SUBSET Domain, ImportDomains(S)
      PROVE  TypeOK' /\ RevisionsArePast'
  BY <1>1, ClassifyDomainsKeepsTypeOK DEF ImportDomains, IInv, TypeOK
<1>2. CASE ReclassifyStale
  <2>1. PICK S \in SUBSET StaleDomains : ClassifyDomains(S)
    BY <1>2 DEF ReclassifyStale
  <2>2. S \in SUBSET Domain /\ S \subseteq domains
    BY DEF StaleDomains, IInv, TypeOK
  <2>3. domains' = domains
    BY <1>2 DEF ReclassifyStale
  <2>. QED
    BY <2>1, <2>2, <2>3, ClassifyDomainsKeepsTypeOK DEF IInv, TypeOK
<1>3. CASE UNCHANGED vars
  BY <1>3 DEF vars, tables, IInv, TypeOK, RevisionsArePast
<1>. QED
  BY <1>1, <1>2, <1>3, RuleStepsKeepTypeOK, TagStepsKeepTypeOK DEF Next

-----------------------------------------------------------------------------
(* The engine and the stamps.                                              *)

\* Only a rule change makes the engine differ from the stored rules, and it
\* leaves a reload to be done.
LEMMA StepsKeepEngine ==
  ASSUME IInv, [Next]_vars
  PROVE  EngineFollowsRules'
<1>. USE DEF IInv, TypeOK, EngineFollowsRules
<1>1. ASSUME NEW new \in SUBSET UserRule, ChangeRules(new)
      PROVE  EngineFollowsRules'
  BY <1>1 DEF ChangeRules
<1>2. CASE ReloadEngine \/ StartReclassify \/ Restart
  BY <1>2 DEF ReloadEngine, StartReclassify, Restart
<1>3. ASSUME UNCHANGED <<rules, engine, reloads>>
      PROVE  EngineFollowsRules'
  BY <1>3
<1>4. ASSUME NEW S, ClassifyDomains(S)
      PROVE  EngineFollowsRules'
  BY <1>4 DEF ClassifyDomains
<1>5. CASE MarkAll \/ SwitchOnline
  BY <1>3, <1>5 DEF MarkAll, SwitchOnline
<1>6. ASSUME NEW d \in Domain, PruneDomain(d)
      PROVE  EngineFollowsRules'
  BY <1>3, <1>6 DEF PruneDomain
<1>7. ASSUME NEW d \in Domain, NEW T \in SUBSET tags, SetDomainTags(d, T)
      PROVE  EngineFollowsRules'
  BY <1>3, <1>7 DEF SetDomainTags
<1>8. ASSUME NEW t \in Tag, NEW name \in Tag,
             CreateTag(t) \/ DeleteTag(t) \/ RenameTag(t, name)
      PROVE  EngineFollowsRules'
  BY <1>3, <1>8 DEF CreateTag, DeleteTag, RenameTag
<1>9. CASE UNCHANGED vars
  BY <1>3, <1>9 DEF vars
<1>. QED
  BY <1>1, <1>2, <1>4, <1>5, <1>6, <1>7, <1>8, <1>9
  DEF Next, ImportDomains, ReclassifyStale

\* The domains a pass classifies outside the gap are stamped rightly, those it
\* classifies in the gap are remembered, and the others are left as they were.
LEMMA ClassifyDomainsStampsRightly ==
  ASSUME IInv, NEW S \in SUBSET Domain, ClassifyDomains(S),
         domains' \subseteq domains \cup S
  PROVE  StampIsRightOutsideTheGap'
<1>. SUFFICES ASSUME NEW d \in domains' \ early', stamp'[d] = rev'
              PROVE  used'[d] = Builtin \cup rules'
  BY DEF StampIsRightOutsideTheGap
<1>. USE DEF IInv, TypeOK, ClassifyDomains
<1>1. d \in Domain /\ rev' = rev /\ rules' = rules
  OBVIOUS
<1>2. CASE d \in S
  <2>1. ~ (reloads > 0)
    BY <1>2
  <2>2. engine = Builtin \cup rules
    BY <2>1 DEF EngineFollowsRules
  <2>. QED
    BY <1>1, <1>2, <2>2
<1>3. CASE d \notin S
  <2>1. d \in domains \ early /\ stamp[d] = rev /\ used'[d] = used[d]
    BY <1>1, <1>3
  <2>. QED
    BY <1>1, <2>1 DEF StampIsRightOutsideTheGap
<1>. QED
  BY <1>2, <1>3

\* Every step keeps the stamps right outside the gap: a rule change makes a
\* revision no domain carries.
LEMMA StepsKeepStamps ==
  ASSUME IInv, [Next]_vars
  PROVE  StampIsRightOutsideTheGap'
<1>. USE DEF IInv, TypeOK
<1>1. ASSUME NEW new \in SUBSET UserRule, ChangeRules(new)
      PROVE  StampIsRightOutsideTheGap'
  <2>1. \A d \in Domain : stamp'[d] # rev'
    BY <1>1 DEF ChangeRules, tables, RevisionsArePast, Stale
  <2>. QED
    BY <1>1, <2>1 DEF StampIsRightOutsideTheGap, ChangeRules, tables
<1>2. CASE MarkAll
  <2>1. \A d \in Domain : stamp'[d] # rev'
    BY <1>2 DEF MarkAll, Stale
  <2>. QED
    BY <1>2, <2>1 DEF StampIsRightOutsideTheGap, MarkAll
<1>3. ASSUME UNCHANGED <<rules, rev, domains, stamp, used, early>>
      PROVE  StampIsRightOutsideTheGap'
  BY <1>3 DEF StampIsRightOutsideTheGap
<1>4. CASE ReloadEngine \/ StartReclassify \/ Restart \/ SwitchOnline
  BY <1>3, <1>4 DEF ReloadEngine, StartReclassify, Restart, SwitchOnline, tables
<1>5. ASSUME NEW S \in SUBSET Domain, ImportDomains(S)
      PROVE  StampIsRightOutsideTheGap'
  BY <1>5, ClassifyDomainsStampsRightly DEF ImportDomains
<1>6. CASE ReclassifyStale
  <2>1. PICK S \in SUBSET StaleDomains : ClassifyDomains(S)
    BY <1>6 DEF ReclassifyStale
  <2>. QED
    BY <1>6, <2>1, ClassifyDomainsStampsRightly DEF ReclassifyStale, StaleDomains
<1>7. ASSUME NEW e \in Domain, PruneDomain(e)
      PROVE  StampIsRightOutsideTheGap'
  <2>. SUFFICES ASSUME NEW d \in domains' \ early', stamp'[d] = rev'
                PROVE  used'[d] = Builtin \cup rules'
    BY DEF StampIsRightOutsideTheGap
  <2>1. d # e /\ d \in domains \ early
    BY <1>7 DEF PruneDomain
  <2>2. stamp[d] = rev /\ used'[d] = used[d] /\ rules' = rules
    BY <1>7, <2>1 DEF PruneDomain
  <2>. QED
    BY <2>1, <2>2 DEF StampIsRightOutsideTheGap
<1>8. ASSUME NEW d \in Domain, NEW T \in SUBSET tags, SetDomainTags(d, T)
      PROVE  StampIsRightOutsideTheGap'
  BY <1>3, <1>8 DEF SetDomainTags
<1>9. ASSUME NEW t \in Tag, NEW name \in Tag,
             CreateTag(t) \/ DeleteTag(t) \/ RenameTag(t, name)
      PROVE  StampIsRightOutsideTheGap'
  BY <1>3, <1>9 DEF CreateTag, DeleteTag, RenameTag
<1>10. CASE UNCHANGED vars
  BY <1>3, <1>10 DEF vars, tables
<1>. QED
  BY <1>1, <1>2, <1>4, <1>5, <1>6, <1>7, <1>8, <1>9, <1>10 DEF Next

\* The invariant is inductive.
LEMMA NextIInv == IInv /\ [Next]_vars => IInv'
BY StepsKeepTypeOK, StepsKeepEngine, StepsKeepStamps DEF IInv

\* The invariant holds throughout.
LEMMA AlwaysIInv == ClassificationSpec => []IInv
BY InitIInv, NextIInv, PTL DEF ClassificationSpec

-----------------------------------------------------------------------------
(* The theorems.                                                           *)

\* Every row is well formed, a domain and a tag are linked once, every link is
\* to a tag that exists, and a domain that is gone left nothing behind.
THEOREM TypeCorrect == ClassificationSpec => []TypeOK
<1>1. IInv => TypeOK
  BY DEF IInv
<1>. QED
  BY <1>1, AlwaysIInv, PTL

\* However many handlers commit rule changes and in whatever order they go on
\* to reload, after the last reload the engine is that of the stored rules.
THEOREM EngineStaysInStep == ClassificationSpec => []EngineFollowsRules
<1>1. IInv => EngineFollowsRules
  BY DEF IInv
<1>. QED
  BY <1>1, AlwaysIInv, PTL

\* A domain with the current revision was classified with the current rules
\* unless it was classified between a commit and its reload.
THEOREM StampsAreRightOutsideTheGap ==
  ClassificationSpec => []StampIsRightOutsideTheGap
<1>1. IInv => StampIsRightOutsideTheGap
  BY DEF IInv
<1>. QED
  BY <1>1, AlwaysIInv, PTL

\* A step that stamps or classifies a domain leaves the user's tags on it alone.
LEMMA StepsKeepManualTags ==
  ASSUME IInv, [Next]_vars
  PROVE  \A d \in domains \cap domains' :
           stamp'[d] # stamp[d] \/ used'[d] # used[d] => manual'[d] = manual[d]
<1>. USE DEF IInv, TypeOK
<1>. SUFFICES ASSUME NEW d \in domains \cap domains',
                     stamp'[d] # stamp[d] \/ used'[d] # used[d]
              PROVE  manual'[d] = manual[d]
  OBVIOUS
<1>1. ASSUME NEW new \in SUBSET UserRule, ChangeRules(new)
      PROVE  FALSE
  BY <1>1 DEF ChangeRules, tables
<1>2. CASE ReloadEngine \/ StartReclassify \/ Restart \/ SwitchOnline
  BY <1>2 DEF ReloadEngine, StartReclassify, Restart, SwitchOnline, tables
<1>3. CASE MarkAll
  BY <1>3 DEF MarkAll
<1>4. ASSUME NEW S, ClassifyDomains(S)
      PROVE  manual'[d] = manual[d]
  BY <1>4 DEF ClassifyDomains
<1>5. ASSUME NEW e \in Domain, PruneDomain(e)
      PROVE  manual'[d] = manual[d]
  BY <1>5 DEF PruneDomain
<1>6. ASSUME NEW e \in Domain, NEW T \in SUBSET tags, SetDomainTags(e, T)
      PROVE  FALSE
  BY <1>6 DEF SetDomainTags
<1>7. ASSUME NEW t \in Tag, NEW name \in Tag,
             CreateTag(t) \/ DeleteTag(t) \/ RenameTag(t, name)
      PROVE  FALSE
  BY <1>7 DEF CreateTag, DeleteTag, RenameTag
<1>8. CASE UNCHANGED vars
  BY <1>8 DEF vars, tables
<1>. QED
  BY <1>1, <1>2, <1>3, <1>4, <1>5, <1>6, <1>7, <1>8
  DEF Next, ImportDomains, ReclassifyStale

\* An automatic pass never touches what the user tagged by hand.
THEOREM ManualTagsAlwaysSurvive == ClassificationSpec => ManualTagsSurvive
<1>1. IInv /\ [Next]_vars =>
        [\A d \in domains \cap domains' :
           stamp'[d] # stamp[d] \/ used'[d] # used[d] =>
             manual'[d] = manual[d]]_vars
  BY StepsKeepManualTags
<1>. QED
  BY <1>1, AlwaysIInv, PTL DEF ClassificationSpec, ManualTagsSurvive

-----------------------------------------------------------------------------
(***************************************************************************)
(* The engine: for any labels, names, rules and text searches.             *)
(***************************************************************************)

\* What dots at its ends leave of a name is a name.
LEMMA NormalNames ==
  ASSUME NEW text \in Names
  PROVE  normalize_domain(text) \in Names
<1> DEFINE Leading == {i \in DOMAIN text : \A j \in 1 .. i : text[j] = ""}
           Trailing == {i \in DOMAIN text : \A j \in i .. Len(text) : text[j] = ""}
           m == Cardinality(Leading)
           n == Cardinality(Trailing)
<1>1. DOMAIN text = 1 .. Len(text) /\ Len(text) \in Nat
  BY DEF Names
<1>2. IsFiniteSet(1 .. Len(text))
  <2>1. 1 \in Int /\ Len(text) \in Int
    BY <1>1
  <2>. QED
    BY <2>1, FS_Interval
<1>3. m \in Nat /\ n \in Nat
  BY <1>1, <1>2, FS_Subset, FS_CardinalityType, Leading \subseteq 1 .. Len(text),
     Trailing \subseteq 1 .. Len(text)
<1>4. normalize_domain(text) = SubSeq(text, m + 1, Len(text) - n)
  BY DEF normalize_domain
<1>5. SubSeq(text, m + 1, Len(text) - n) \in Seq(Labels)
  <2> HIDE DEF m, n
  <2>1. QED
    BY <1>1, <1>3 DEF Names
<1>6. QED
  BY <1>4, <1>5 DEF Names

\* The parents of a name are the names it is a subdomain of.
LEMMA ParentsAreSuffixes ==
  ASSUME NEW domain \in Names, NEW value \in Names
  PROVE  is_subdomain_of(domain, value) <=>
           /\ normalize_domain(value) # <<>>
           /\ normalize_domain(value) \in parent_domains(domain)
<1> DEFINE parts == normalize_domain(domain)
           tail == normalize_domain(value)
           EndsInTail == /\ Len(tail) < Len(parts)
                         /\ SubSeq(parts, Len(parts) - Len(tail) + 1, Len(parts)) = tail
<1>1. parts \in Seq(Labels) /\ tail \in Seq(Labels)
  BY NormalNames DEF Names
<1>2. is_subdomain_of(domain, value) <=>
        /\ parts # <<>> /\ tail # <<>>
        /\ \/ parts = tail
           \/ EndsInTail
  BY DEF is_subdomain_of, LastLabels
<1>3. parent_domains(domain) = {SubSeq(parts, i, Len(parts)) : i \in 1 .. Len(parts)}
  BY DEF parent_domains
<1> HIDE DEF parts, tail
<1>4. SUFFICES ASSUME tail # <<>>
      PROVE  (parts = tail \/ EndsInTail)
             <=> \E i \in 1 .. Len(parts) : tail = SubSeq(parts, i, Len(parts))
  <2>1. parts = <<>> => Len(parts) = 0
    OBVIOUS
  <2>. QED
  BY <1>1, <1>2, <1>3, <1>4 DEF parts, tail
<1>5. Len(tail) \in Nat \ {0} /\ Len(parts) \in Nat
  BY <1>1, <1>4
<1>0. SubSeq(parts, 1, Len(parts)) = parts
  BY <1>1, <1>5
<1>6. ASSUME parts = tail PROVE tail = SubSeq(parts, 1, Len(parts)) /\ 1 \in 1 .. Len(parts)
  BY <1>0, <1>5, <1>6
<1>7. ASSUME NEW i \in 1 .. Len(parts), tail = SubSeq(parts, i, Len(parts))
      PROVE  parts = tail \/ EndsInTail
  <2>1. Len(SubSeq(parts, i, Len(parts))) = Len(parts) - i + 1
    BY <1>1
  <2>2. i = Len(parts) - Len(tail) + 1
    BY <1>5, <1>7, <2>1
  <2>3. CASE i = 1
    BY <1>0, <1>7, <2>3
  <2>4. CASE i # 1
    <3>1. Len(tail) < Len(parts)
      BY <1>5, <2>2, <2>4
    <3>. QED
      BY <1>7, <2>2, <3>1
  <2>. QED
    BY <2>3, <2>4
<1>8. ASSUME Len(tail) < Len(parts)
      PROVE  Len(parts) - Len(tail) + 1 \in 1 .. Len(parts)
  BY <1>5, <1>8
<1>. QED
  BY <1>6, <1>7, <1>8

\* What the indexes and the scan find are the rules that match, so that a domain
\* has the tags of the rules that the tester of the UI shows: for any rules, modes,
\* fields and searches, and names and values with dots anywhere.
THEOREM LookupsAreSound ==
  ASSUME NEW R, \A r \in R : IsRule(r), NEW name \in Names
  PROVE  _classify_uncached(CategorizationEngine(R), name) =
           TagsOf(explain(CategorizationEngine(R), name))
<1> DEFINE e == CategorizationEngine(R)
           domain == normalize_domain(name)
           hits == {r \in e.rules :
                      \/ \E candidate \in parent_domains(domain) :
                           <<candidate, r>> \in e.suffix_index
                      \/ <<domain, r>> \in e.equals_index
                      \/ r \in e.scan /\ matches(r, domain)}
<1>1. domain \in Names
  BY NormalNames
<1>2. /\ e.rules = R
      /\ e.scan = {r \in R : ~fully_indexable(r)}
      /\ \A key, r : <<key, r>> \in e.suffix_index <=>
           r \in R /\ fully_indexable(r) /\ key \in Keys(r, {"suffix"})
      /\ \A key, r : <<key, r>> \in e.equals_index <=>
           r \in R /\ fully_indexable(r) /\ key \in Keys(r, OPERATORS \ {"suffix"})
  BY DEF CategorizationEngine
<1> HIDE DEF e
<1>3. CASE domain = <<>>
  <2>1. explain(e, name) = {}
    BY <1>3 DEF explain
  <2>2. TagsOf({}) = {}
    BY DEF TagsOf
  <2>. QED
    BY <1>3, <2>1, <2>2 DEF _classify_uncached, e
<1>4. ASSUME domain # <<>>, NEW rule \in R
      PROVE  rule \in hits <=> matches(rule, domain)
  <2>2. CASE ~fully_indexable(rule)
    <3>1. rule \in e.scan
      BY <1>2, <2>2
    <3>2. \A key : <<key, rule>> \notin e.suffix_index /\ <<key, rule>> \notin e.equals_index
      BY <1>2, <2>2
    <3>. QED
      BY <1>2, <3>1, <3>2
  <2>3. CASE fully_indexable(rule)
    <3>1. rule \notin e.scan
      BY <1>2, <2>3
    <3>2. \A key : <<key, rule>> \in e.suffix_index <=> key \in Keys(rule, {"suffix"})
      BY <1>2, <2>3
    <3>3. \A key : <<key, rule>> \in e.equals_index <=> key \in Keys(rule, OPERATORS \ {"suffix"})
      BY <1>2, <2>3
    <3>4. matches(rule, domain) <=> \E c \in rule.conditions : match(c.operator, domain, c.value)
      BY <2>3 DEF fully_indexable, indexable, matches, evaluate
    <3>5. ASSUME NEW c \in rule.conditions
          PROVE  /\ c.value \in Names /\ c.operator \in {"suffix", "equals"}
                 /\ c.value = <<>> => normalize_domain(c.value) = <<>>
      <4>1. c \in Condition
        BY DEF IsRule
      <4>2. c.value = <<>> => normalize_domain(c.value) = <<>>
        <5>. SUFFICES normalize_domain(<<>>) = <<>>
          OBVIOUS
        <5>1. {i \in DOMAIN <<>> : \A j \in 1 .. i : <<>>[j] = ""} = {}
          OBVIOUS
        <5>2. {i \in DOMAIN <<>> : \A j \in i .. Len(<<>>) : <<>>[j] = ""} = {}
          OBVIOUS
        <5>3. Cardinality({}) = 0
          BY FS_EmptySet
        <5>. QED
          BY <5>1, <5>2, <5>3 DEF normalize_domain
      <4>. QED
        BY <2>3, <4>1, <4>2 DEF Condition, fully_indexable, indexable, INDEXED_OPERATORS
    <3>6. ASSUME NEW c \in rule.conditions, c.operator = "suffix"
          PROVE  match("suffix", domain, c.value) <=>
                   normalize_domain(c.value) \in parent_domains(domain) \ {<<>>}
      BY <1>1, <1>4, <3>5, <3>6, ParentsAreSuffixes DEF match, INDEXED_OPERATORS
    <3>7. ASSUME NEW c \in rule.conditions, c.operator # "suffix"
          PROVE  match(c.operator, domain, c.value) <=> normalize_domain(c.value) = domain
      BY <1>4, <3>5, <3>7 DEF match, INDEXED_OPERATORS
    <3>8. (\E key \in parent_domains(domain) : <<key, rule>> \in e.suffix_index) <=>
            \E c \in rule.conditions : c.operator = "suffix" /\ match("suffix", domain, c.value)
      <4>1. \A key : key \in Keys(rule, {"suffix"}) <=>
              /\ key # <<>>
              /\ \E c \in rule.conditions : c.operator = "suffix" /\ normalize_domain(c.value) = key
        BY DEF Keys
      <4>. QED
        BY <3>2, <3>6, <4>1
    <3>9. <<domain, rule>> \in e.equals_index <=>
            \E c \in rule.conditions : c.operator # "suffix" /\ match(c.operator, domain, c.value)
      BY <1>4, <3>3, <3>5, <3>7 DEF Keys, OPERATORS, INDEXED_OPERATORS
    <3>. QED
      BY <1>2, <3>1, <3>4, <3>8, <3>9
  <2>. QED
    BY <2>2, <2>3
<1>5. CASE domain # <<>>
  <2>1. hits = explain(e, name)
    BY <1>2, <1>4, <1>5 DEF explain
  <2>2. _classify_uncached(e, name) = TagsOf(hits)
    BY <1>5 DEF _classify_uncached
  <2>. QED
    BY <2>1, <2>2 DEF e
<1>. QED
  BY <1>3, <1>5

\* The tags Classification derives from the rules in force are those the engine
\* built from them gives, if a rule gives what it gives where it matches: for any
\* names of the domains and conditions of the rules.
THEOREM EngineGivesTheTags ==
  ASSUME NEW NameOf \in [Domain -> Names], NEW Says,
         \A r \in Rule : IsRule(Says[r]),
         \A r \in Rule, d \in Domain :
           LET domain == normalize_domain(NameOf[d])
           IN  Gives[r][d] = IF domain # <<>> /\ matches(Says[r], domain)
                               THEN Says[r].tags ELSE {},
         NEW R \in SUBSET Rule, NEW d \in Domain
  PROVE  Classify(R, d) =
           _classify_uncached(CategorizationEngine({Says[r] : r \in R}), NameOf[d])
<1> DEFINE S == {Says[r] : r \in R}
           domain == normalize_domain(NameOf[d])
           Told == explain(CategorizationEngine(S), NameOf[d])
<1>1. _classify_uncached(CategorizationEngine(S), NameOf[d]) = TagsOf(Told)
  BY LookupsAreSound
<1>2. \A r \in R : Gives[r][d] = IF Says[r] \in Told THEN Says[r].tags ELSE {}
  BY DEF explain, CategorizationEngine
<1>3. Told \subseteq S
  BY DEF explain, CategorizationEngine
<1>. HIDE DEF Told, domain
<1>4. UNION {Gives[r][d] : r \in R} = UNION {s.tags : s \in Told}
  BY <1>2, <1>3
<1>. QED
  BY <1>1, <1>4 DEF Classify, TagsOf
=============================================================================
