CONSTANTS
  None = None
  Kind = {"tickets"}
  Id = {1, 2}
  Feed <- MCFeed
  MaxEdits = 3
  LastStamp = 2
SPECIFICATION Spec
INVARIANT ReprocessLandsRenamed
