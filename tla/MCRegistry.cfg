SPECIFICATION FairSpec
CONSTANTS
  c1 = c1
  c2 = c2
  u1 = u1
  u2 = u2
  a = a
  b = b
  junk = junk
  Clients = {c1, c2}
  Uris = {u1, u2}
  Contents = {a, b, junk}
  Unparsable = {junk}
  Length <- MCLength
  AnnotatedAs <- MCAnnotatedAs
  Empty = Empty
  Missing = Missing
  ChunkSize = 2
  Jobs <- MCJobs
  MaxFaults = 1
INVARIANTS HandlesAreJustified EntriesAreJustified DuplicatesNeedOverlap CommandsCover DownloadsAreWhole
PROPERTY CommandsEnd
CHECK_DEADLOCK FALSE
