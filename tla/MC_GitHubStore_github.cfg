CONSTANTS
  None = None
  Clear = Clear
  Clients = {c1, c2}
  Issues <- MCIssues
  Start <- MCStart
  Repo <- MCRepo
  Loose <- MCLoose
  Requests <- AllRequests
  MaxRetries = 1
  MaxSubIssues = 1
  MaxDepth = 2
  MaxVisits = 1
  MaxEdits = 1
SPECIFICATION FairSpec
INVARIANTS
  ReadyIsClaimable
PROPERTIES
  
  
  LoneLinkWithinLimits
  RequestsReturn
CHECK_DEADLOCK FALSE
