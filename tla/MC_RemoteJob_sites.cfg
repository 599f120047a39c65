SPECIFICATION JobSpec
CONSTANTS
  old = old
  new = new
  m1 = m1
  m2 = m2
  Nothing = Nothing
  Changed = Changed
  Places <- TwoHosts
  SiteOf <- OneSite
  MachinesAt <- Nodes
  Commands <- RunAndCheck
  MaxAttempts = 2
  MaxEdits = 1
  MaxHidden = 1
INVARIANTS EntriesTellWhatRan EvidenceIsKept RanWhereBuilt

PROPERTY AttemptEnds
CHECK_DEADLOCK FALSE
