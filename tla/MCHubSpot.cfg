CONSTANTS
  Contacts = 1
  Deals = 2
  Associated <- MCAssociated
  PageSize = 1
  Attempts = 2
  MaxEdits = 3
  MaxEmpty = 2
SPECIFICATION FairSpec
INVARIANTS
  TypeOK
  WatermarkCoversUnlessCut
  ResetLandsDeals
PROPERTY
  PassEnds
