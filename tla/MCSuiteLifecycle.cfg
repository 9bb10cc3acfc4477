CONSTANTS
  p1 = p1
  p2 = p2
  cf1 = cf1
  cf2 = cf2
  nocf = nocf
  nil = nil
  Procs <- const_Procs
  Primary = p1
  Specs <- const_Specs
  NoCfSetup <- const_NoCfSetup
  QuotaSpec = cf2
  NZips = 2
  MaxRuns = 3
  None = nil
SPECIFICATION FairSpec
INVARIANTS
  TypeOK
  WholeArchives
  OwnTeardown
  OrgsAccountedFor
  ArchivesAccountedFor
  OnlyADeathSpoilsQuotas
PROPERTIES
  EveryRunEnds
CHECK_DEADLOCK FALSE
