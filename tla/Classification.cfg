SPECIFICATION FairClassificationSpec
CONSTANTS
  Domain = {"shop", "news"}
  Tag = {"ad", "work"}
  Rule = {"ads", "office"}
  Builtin = {"ads"}
  Gives <- MCGives
  Catalogue = {"ad"}
  Batch = 1
  MaxRev = 3
  MaxMarks = 1
INVARIANTS
  TypeOK
  EngineFollowsRules
  StampIsRightOutsideTheGap
PROPERTIES
  ManualTagsSurvive
  StaleDomainsDrain
