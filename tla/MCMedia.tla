------------------------------ MODULE MCMedia ------------------------------
\* What the two file workers share: uShare's library and, beside it, the tree
\* that the library finds its entries by; the share worker's listing, and its
\* answers to getfile. None acts on the variables of another, but for the
\* directory that the last two look at, so they are explored one at a time:
\* which one, is chosen at the start.
EXTENDS MediaLibrary, RedBlack, ShareListing, TLC

VARIABLE part

mediaVars == <<libraryVars, treeVars, shareVars, part>>

MCListing == [d \in Directories |->
                IF d = "music" THEN <<"song", "cover", "jazz">> ELSE <<"tune">>]
MCUserList == <<"music", "film">>
MCShared == <<"home">>

Ask(op, id, index, count, criteria) ==
    [op |-> op, id |-> id, index |-> index, count |-> count,
     criteria |-> criteria, given |-> TRUE]
MCRequests ==
    {Ask("children", 3, 0, 0, <<>>), Ask("children", 6, 0, 2, <<>>),
     Ask("metadata", 1, 0, 0, <<>>), Ask("search", 0, 0, 2, <<{}>>),
     Ask("search", 0, 0, 1, <<{"song", "tune"}, {}>>),
     Ask("open", 3, 0, 0, <<>>)}

\* Directories in directories, with names that occur again; a hidden file, an
\* empty one and one that cannot be opened. Then with a file longer than an int
\* holds and another gone, with a file renamed, and with a directory gone.
Dir == [dir |-> TRUE, data |-> <<>>, readable |-> TRUE]
Holding(data) == [dir |-> FALSE, data |-> data, readable |-> TRUE]
Locked == [Holding(<<1>>) EXCEPT !.readable = FALSE]
Without(t, S) == [p \in DOMAIN t \ S |-> t[p]]
Tree1 == (<<1>> :> Dir) @@ (<<2>> :> Dir) @@ (<<3>> :> Locked)
    @@ (<<1, 0>> :> Holding(<<9>>)) @@ (<<1, 1>> :> Dir)
    @@ (<<1, 1, 2>> :> Holding(<<1, 2, 3>>)) @@ (<<1, 3>> :> Holding(<<1>>))
    @@ (<<2, 1>> :> Dir) @@ (<<2, 1, 1>> :> Holding(<<>>))
    @@ (<<2, 1, 2>> :> Holding(<<>>)) @@ (<<2, 2>> :> Holding(<<2>>))
Tree2 == Without([Tree1 EXCEPT ![<<1, 1, 2>>] = Holding(<<4, 5, 6, 7>>)],
                 {<<2, 1, 2>>})
Tree3 == Without(Tree1, {<<2, 2>>}) @@ (<<2, 3>> :> Holding(<<2>>))
Tree4 == Without(Tree1, {p \in DOMAIN Tree1 : p[1] = 1})
MCTrees == {Tree1, Tree2, Tree3, Tree4}
MCAsked == {<<1, 1, 2>>, <<2, 2>>, <<3>>}

Init ==
    /\ LibraryInit /\ TreeInit /\ ShareInit
    /\ part \in {"library", "tree", "listing", "getfile"}
    /\ part \in {"library", "tree"} => sharedir = Tree1
    /\ part # "listing" => pageSize = 4

Next ==
    \/ part = "library" /\ LibraryNext /\ UNCHANGED <<treeVars, shareVars, part>>
    \/ part = "tree" /\ TreeNext /\ UNCHANGED <<libraryVars, shareVars, part>>
    \/ /\ part = "listing" /\ (MainThread \/ Restart \/ Change)
       /\ UNCHANGED <<libraryVars, treeVars, part>>
    \/ /\ part = "getfile" /\ (ControlThread \/ Change)
       /\ UNCHANGED <<libraryVars, treeVars, part>>

Spec == Init /\ [][Next]_mediaVars /\ LibraryFairness
=============================================================================
