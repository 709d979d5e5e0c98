SPECIFICATION FilterSpec
CONSTANTS
  Values = {"x", "y"}
  OperatorsOf <- MCOperatorsOf
  KindOf <- MCKindOf
  LookupOf <- MCLookupOf
  QuickKeys = {"personIds"}
  Searchable = {"domain", "answer"}
  BuilderFields = {"domain", "tag"}
  BlankText = {}
  MaxDepth = 10
  MaxNesting = 4
  SavedIds = {1}
  MaxWeight = 3
  MaxStored = 3
INVARIANTS
  SavedMeansShown
  AppliedFilterNarrows
PROPERTIES
  StoredAsDrawn
CHECK_DEADLOCK FALSE
