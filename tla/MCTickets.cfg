CONSTANTS
  IssueCount = 4
  PageSize = 2
  Limit = 2
  Window = 3
  Attempts = 2
  Base = 1
  MaxDelay = 2
  MaxEdits = 2
SPECIFICATION FairSpec
INVARIANTS
  TypeOK
  WithinQuota
  RetryAfterAdmits
  ScanConverges
PROPERTY
  PassEnds
