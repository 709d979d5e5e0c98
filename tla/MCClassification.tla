-------------------------- MODULE MCClassification --------------------------
(***************************************************************************)
(* Two domains, a shipped rule that tags one of them, and a user's rule    *)
(* that gives both a tag the catalogue does not have.                      *)
(***************************************************************************)
EXTENDS Classification, Sequences

MCGives ==
  [r \in Rule |-> [d \in Domain |->
     IF r = "ads" THEN (IF d = "shop" THEN {"ad"} ELSE {})
     ELSE {"work"}]]

-----------------------------------------------------------------------------
(* The engine, on the two rules and others: rules that can be looked up    *)
(* and that only seem to be, in both modes, on both fields, and values and *)
(* names with dots beside them, under a suffix of two labels.              *)

shop == <<"shop", "co", "uk">>
news == <<"news", "co", "uk">>
Asked ==
  {<<"">>, <<"", "">>, <<"uk">>, <<"", "co", "uk">>, shop, news, <<"www", "shop", "co", "uk">>,
   <<"shop", "co", "uk", "">>}

\* A search of text, label by label: it finds what is somewhere in a name.
Finds(text, value) == \E i, j \in DOMAIN text : SubSeq(text, i, j) = value

INSTANCE RuleEngine WITH
  Labels <- {"", "shop", "news", "www", "co", "uk"},
  MULTI_LABEL_SUFFIXES <- {<<"co", "uk">>},
  Found <- {s \in {"contains"} \X Asked \X {<<"news">>, <<"shop">>} : Finds(s[2], s[3])}

On(field, operator, value) == [field |-> field, operator |-> operator, value |-> value]
RuleOf(tag, mode, conditions) ==
  [conditions |-> conditions, match_mode |-> mode, tags |-> {tag}]

ads == RuleOf("ad", "all", {On("domain", "suffix", <<"", "co", "uk">>),
                            On("domain", "equals", <<"shop", "co", "uk", "">>)})
office == RuleOf("work", "any", {On("registrable", "contains", <<"news">>),
                                 On("domain", "suffix", <<"shop", "co", "uk">>)})
OtherRules ==
  {RuleOf("any", "any", {On("domain", "suffix", <<"", "co", "uk">>),
                         On("domain", "equals", <<"uk">>)}),
   RuleOf("site", "any", {On("registrable", "equals", <<"shop", "co", "uk">>)}),
   RuleOf("dots", "any", {On("domain", "equals", <<"", "">>), On("domain", "suffix", <<"", "">>)}),
   RuleOf("text", "any", {On("domain", "contains", <<"shop">>), On("domain", "suffix", <<"uk">>)}),
   RuleOf("none", "all", {})}

\* Looking up and trying one by one agree on all of them.
ASSUME LookupsFindWhatMatches ==
  \A R \in SUBSET ({ads, office} \cup OtherRules), name \in Asked :
    _classify_uncached(CategorizationEngine(R), name) =
      TagsOf(explain(CategorizationEngine(R), name))

\* What the two rules give in the state space is what the engine gives.
ASSUME GivesIsOfTheEngine ==
  \A R \in SUBSET Rule, d \in Domain :
    Classify(R, d) =
      _classify_uncached(
        CategorizationEngine({IF r = "ads" THEN ads ELSE office : r \in R}),
        IF d = "shop" THEN shop ELSE news)
=============================================================================
