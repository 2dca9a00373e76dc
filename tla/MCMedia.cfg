\* Two renderers, a directory within a directory; a tree of five keys. The
\* bounds stop the environment.
CONSTANTS
    Renderers = {"r1", "r2"}
    Directories = {"music", "jazz"}
    Files = {"song", "tune", "film"}
    Strays = {"cover"}
    Invalid = {"film"}
    Shared <- MCShared
    UserList <- MCUserList
    Listing <- MCListing
    Requests <- MCRequests
    FirstId = 2
    MaxUrls = 3
    MaxRequests = 2
    MaxFailures = 1
    MaxRaces = 1
    Keys = {1, 2, 3, 4, 5}
    Addresses = {1, 2, 3, 4, 5}
    Names = {0, 1, 2, 3}
    Hidden = {0}
    Trees <- MCTrees
    PageSizes = {2, 4, 9}
    ChunkSize = 2
    IntMax = 3
    Asked <- MCAsked
    Lens = {0, 1, 3}
    MaxStarts = 3
    MaxChanges = 2
    MaxAsks = 5
SPECIFICATION Spec
INVARIANTS
    WellLinked
    OwnList
    PagesAndSearch
    SearchTree
    ListedInPlace
    SkippedOnlyIfSent
    FileReadBack
PROPERTIES
    EveryRequestAnswered
CHECK_DEADLOCK FALSE
