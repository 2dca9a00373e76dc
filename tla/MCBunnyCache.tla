---------------------------- MODULE MCBunnyCache ----------------------------
\* A song of six units and a flac file of one that is prefetched whole; buffers and
\* packets hold three units, so that a cache file may end inside a buffer.
EXTENDS BunnyCache

CONSTANTS song, flac

MCSize == [f \in Files |-> IF f = song THEN 6 ELSE 1]
MCPrefetch == [f \in Files |-> IF f = song THEN 0 ELSE 1]
MCCacheSize == [f \in Files |-> 3]
=============================================================================
