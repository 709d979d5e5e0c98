------------------------------ MODULE RuleEngine ------------------------------
(***************************************************************************)
(* The engine that says which tags a name gets (categorization/engine.py). *)
(* Rules whose conditions are all names are looked up in two indexes, the  *)
(* others are tried one by one.                                            *)
(*                                                                         *)
(* A name is the sequence of its labels, "" being what is between two dots *)
(* or beside one at an end.  Case and blanks are left out, and so are the  *)
(* characters of a label: what a search of text finds is a constant.  The  *)
(* priority of the rules orders the tags only, which nothing depends on:   *)
(* rules and tags are sets, and an index leads to the rule itself.         *)
(***************************************************************************)
EXTENDS Integers, Sequences, FiniteSets

CONSTANTS
  Labels,                 \* labels of names
  MULTI_LABEL_SUFFIXES,
  Found                   \* <<operator, name, value>>: the searches that find

INDEXED_OPERATORS == {"suffix", "equals"}
OPERATORS == INDEXED_OPERATORS \cup {"contains", "startswith", "endswith", "wildcard", "regex"}
FIELDS == {"domain", "registrable"}

Names == Seq(Labels)
Condition == [field : FIELDS, operator : OPERATORS, value : Names]
IsRule(r) == r.conditions \subseteq Condition /\ r.match_mode \in {"any", "all"}

-----------------------------------------------------------------------------
(* Names: common/domains.py                                                *)

\* The dots at both ends are stripped.
normalize_domain(text) ==
  LET Leading == {i \in DOMAIN text : \A j \in 1 .. i : text[j] = ""}
      Trailing == {i \in DOMAIN text : \A j \in i .. Len(text) : text[j] = ""}
  IN  SubSeq(text, Cardinality(Leading) + 1, Len(text) - Cardinality(Trailing))

LastLabels(parts, n) == SubSeq(parts, Len(parts) - n + 1, Len(parts))

registrable_domain(name) ==
  LET parts == normalize_domain(name)
      IsMulti(n) == Len(parts) > n /\ LastLabels(parts, n) \in MULTI_LABEL_SUFFIXES
  IN  LastLabels(parts, CASE Len(parts) < 2 -> Len(parts)
                          [] IsMulti(3) -> 4
                          [] IsMulti(2) /\ ~IsMulti(3) -> 3
                          [] OTHER -> 2)

parent_domains(name) ==
  LET parts == normalize_domain(name)
  IN  {SubSeq(parts, i, Len(parts)) : i \in 1 .. Len(parts)}

is_subdomain_of(name, suffix) ==
  LET domain == normalize_domain(name)
      tail == normalize_domain(suffix)
  IN  /\ domain # <<>> /\ tail # <<>>
      /\ \/ domain = tail
         \/ Len(tail) < Len(domain) /\ LastLabels(domain, Len(tail)) = tail

-----------------------------------------------------------------------------
(* Conditions and rules: matchers.py, Condition, CategoryRule              *)

match(operator, subject, value) ==
  /\ subject # <<>> /\ value # <<>>
  /\ \/ operator = "suffix" /\ is_subdomain_of(subject, value)
     \/ operator = "equals" /\ subject = normalize_domain(value)
     \/ operator \notin INDEXED_OPERATORS /\ <<operator, subject, value>> \in Found

evaluate(condition, domain) ==
  match(condition.operator,
        IF condition.field = "registrable" THEN registrable_domain(domain) ELSE domain,
        condition.value)

indexable(condition) ==
  condition.field = "domain" /\ condition.operator \in INDEXED_OPERATORS

matches(rule, domain) ==
  IF rule.match_mode = "all" THEN \A c \in rule.conditions : evaluate(c, domain)
                             ELSE \E c \in rule.conditions : evaluate(c, domain)

fully_indexable(rule) ==
  rule.match_mode = "any" /\ \A c \in rule.conditions : indexable(c)

-----------------------------------------------------------------------------
(* The engine: CategorizationEngine                                        *)

TagsOf(R) == UNION {r.tags : r \in R}

\* The keys of a rule's conditions with some operators.
Keys(rule, operators) ==
  {normalize_domain(c.value) : c \in {x \in rule.conditions : x.operator \in operators}} \ {<<>>}

\* _build_indexes, over the rules that are enabled.
CategorizationEngine(R) ==
  LET indexed == {r \in R : fully_indexable(r)}
  IN  [rules |-> R, scan |-> R \ indexed,
       suffix_index |-> UNION {Keys(r, {"suffix"}) \X {r} : r \in indexed},
       equals_index |-> UNION {Keys(r, OPERATORS \ {"suffix"}) \X {r} : r \in indexed}]

_classify_uncached(engine, name) ==
  LET domain == normalize_domain(name)
      hits == {r \in engine.rules :
                 \/ \E candidate \in parent_domains(domain) :
                      <<candidate, r>> \in engine.suffix_index
                 \/ <<domain, r>> \in engine.equals_index
                 \/ r \in engine.scan /\ matches(r, domain)}
  IN  IF domain = <<>> THEN {} ELSE TagsOf(hits)

\* The rules that match, one by one: what the tester of the UI shows.
explain(engine, name) ==
  LET domain == normalize_domain(name)
  IN  {r \in engine.rules : domain # <<>> /\ matches(r, domain)}
=============================================================================
