CONSTANTS
  tickets = tickets
  email = email
  a = a
  noKey = noKey
  NoRaw = NoRaw
  Source = {tickets, email}
  Key = {a}
  Digest = {noKey}
  Note = {}
  Party = {}
  SourceOf <- MCSourceOf
  Raw <- MCRaw
  MaxYield = 2
  Attempts = 2
  Projected = {tickets}
  DrainProjects = TRUE
  Rebuildable = {tickets, email}
  MaxCommits = 3
SPECIFICATION OpsSpec
INVARIANTS
  FunnelAddsUp
  TornByCommits
  CreatedAreRecords
