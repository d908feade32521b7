CONSTANTS
  None = None
  Accounts <- MCAccounts
  Configured = TRUE
  Interval = 2
  MonitorInterval = 2
  Window = 1
  Lifetime = 2
  MaxTokens = 3
  MaxRestarts = 1
SPECIFICATION FairSpec
INVARIANTS
  GrantKept

  
