\* Every kind of state; a panic and a crash among three requests.
SPECIFICATION FairSpec
CONSTANTS
  Kinds = {"memory", "hooks", "file"}
  None = None
  Torn = Torn
  MaxRequests = 3
  MaxPanics = 1
  MaxCrashes = 1
INVARIANTS TypeOK ParkedIsDurable AnsweredIsDurable AnswersInOrder
PROPERTIES RequestsAreTaken AnswersAreHeard CloseEndsWaits
