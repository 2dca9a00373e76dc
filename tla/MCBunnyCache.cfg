\* One renderer that opens two files, one after the other; a connection fails.
\* bunny_dspcache_retain is 0, or 2, which for the short file is the same as 1.
SPECIFICATION FairSpec
CONSTANTS
  song = song
  flac = flac
  Files = {song, flac}
  NoFile = NoFile
  Handles = {h1}
  Size <- MCSize
  Prefetch <- MCPrefetch
  CacheSize <- MCCacheSize
  FetchLen = 3
  BufLen = 3
  IntMax = 3
  Trunc = 1
  Retains = {0, 2}
  Tolerated = 0
  MaxOpens = 2
  MaxFailures = 1
  SemMax = 2
INVARIANTS
  ServesTheFile
  NothingIsNotData
PROPERTIES
  EveryReadReturns
\* The renderer may stop after its last file.
CHECK_DEADLOCK FALSE
