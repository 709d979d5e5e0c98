CONSTANTS
  Texts = {"a"}
  Ids = {1, 2}
  Devices = {"d1", "d2"}
  Domains = {"x", "y"}
  RuleOperators = {"suffix", "equals", "contains"}
  Priorities = {"0", "100", "1.5"}
  Whole = {"0", "100"}
  Shown = {"suffix", "exactly"}
  MaxParts = 2
  Screens = {"persons", "tags", "rules", "devices", "domain", "log", "settings"}
  Deps <- MCDeps
  Bodies = {}
  DepsOf <- MCDepsOf
  Found <- MCFound
  Catalog0 <- MCCatalog0
  Elsewhere <- MCElsewhere
  MaxRevision <- MCMaxRevision
  MaxRuns = 2
  MaxSaves <- MCMaxSaves
  MaxEdits <- MCMaxEdits
  ALL_COLUMNS = {"time", "domain"}
  DEFAULT_COLUMNS = {"time"}
  MinWidth = 2
  LayoutWidth = 3
  MaxWidth = 5
  StorageWorks = TRUE
  PROVIDER_STATUS_TTL = 2
  Bounds <- MCBounds
  Offered <- MCOffered
  AtOnce = {"language"}
  Defaults <- MCDefaults
  Validated <- MCValidated
  HostLanguage = "en"
SPECIFICATION Spec
INVARIANTS
  ShowsOwnChanges
  OnlyTouchedDevicesMove
  RulesReachTheServer
  ArrangementSurvives
  BackendSpeaksTheLanguage
  PreferencesSettle
  StaleStatusIsShortLived
PROPERTIES
  ImplementsLatestAnswer
  HeldKeyMovesOn
CHECK_DEADLOCK FALSE
