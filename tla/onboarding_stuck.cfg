SPECIFICATION FairOnboarding
CONSTANTS
  Tabs = {"a"} Profiles = {"d1"} Surveys = {"x"}
  MaxRequests = 2 MaxRevision = 2 MaxPolicy = 2 MaxLate = 1
PROPERTIES
  WaitsOnlyForDocuments
CHECK_DEADLOCK FALSE
