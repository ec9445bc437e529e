CONSTANTS
  None = None
  Kind = {"calendar", "email", "crm_import", "tickets"}
  Id = {1, 2}
  Feed <- MCFeed
  MaxEdits = 3
  LastStamp = 2
SPECIFICATION Spec
INVARIANTS
  TypeOK
  NothingVanishes
  LandedKeepsEverything
  BlankOnlyIfSentBlank
  OneIdentity
  RereadRecovers
PROPERTY
  RenameRewritesNothing
