CONSTANTS
  tickets = tickets
  email = email
  a = a
  noKey = noKey
  renamed = renamed
  ann = ann
  acme = acme
  NoRaw = NoRaw
  Source = {tickets, email}
  Key = {a}
  Digest = {noKey}
  Note = {renamed}
  Party = {ann, acme}
  SourceOf <- MCSourceOf
  Raw <- RawQueue
  MaxYield = 2
  Attempts = 2
  Projected = {tickets}
  DrainProjects = TRUE
  Rebuildable = {tickets, email}
SPECIFICATION Spec
INVARIANTS
  TypeOK
  AccountedUnlessReplaced
  CursorEarned
PROPERTIES
  ImplementsRegister
  KeylessWaitsForHuman
  CursorNeverFalls
