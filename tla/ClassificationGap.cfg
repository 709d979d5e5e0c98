SPECIFICATION ClassificationSpec
CONSTANTS
  Domain = {"shop", "news"}
  Tag = {"ad", "work"}
  Rule = {"ads", "office"}
  Builtin = {"ads"}
  Gives <- MCGives
  Catalogue = {"ad"}
  Batch = 1
  MaxRev = 2
  MaxMarks = 1
INVARIANTS
  StampIsTheRuleSet
