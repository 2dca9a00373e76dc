------------------------------ MODULE RedBlack ------------------------------
(***************************************************************************)
(* The balanced tree of redblack.cc, by which uShare finds an entry of its *)
(* library: rbsearch (find or insert), rbdelete, rbfind, rblookup, rbwalk  *)
(* and the list of rbopenlist and rbreadlist.  A node is an address; the   *)
(* sentinel RBNULL is one node, black, whose up pointer rb_delete writes.  *)
(* Each iteration of the two loops that restore the colours is a step.     *)
(***************************************************************************)
EXTENDS Integers, FiniteSets, Sequences, SequencesExt, FiniteSetsExt

CONSTANTS Keys,      \* ids of entries
          Addresses  \* bound: nodes that malloc can return

RBNULL == 0

ASSUME RedBlackAssumption ==
    /\ IsFiniteSet(Keys) /\ Keys \subseteq Nat
    /\ Addresses \subseteq Nat \ {RBNULL}

VARIABLES tree,   \* root, and the node at each address
          fix,    \* the loop that runs: pc "idle", "insert" or "delete", and x
          content \* the keys the operations so far have put in the tree

treeVars == <<tree, fix, content>>

Node(key, up, colour) ==
    [key |-> key, left |-> RBNULL, right |-> RBNULL, up |-> up,
     colour |-> colour]
NoKey == -1

TreeInit ==
    /\ tree = [root |-> RBNULL,
               at |-> (RBNULL :> Node(NoKey, RBNULL, "BLACK"))]
    /\ fix = [pc |-> "idle", x |-> RBNULL]
    /\ content = {}

Other(side) == IF side = "left" THEN "right" ELSE "left"
\* Which child of its parent x is.
SideOf(t, x) == IF x = t.at[t.at[x].up].left THEN "left" ELSE "right"
\* Where a key lies from node x.
Side(t, x, key) == IF key < t.at[x].key THEN "left" ELSE "right"
IsRed(t, x) == t.at[x].colour = "RED"
Coloured(t, x, colour) == [t EXCEPT !.at[x].colour = colour]

\* The node that takes the place of x below x's parent, or as the root.
Replaced(t, x, y) ==
    IF t.at[x].up = RBNULL THEN [t EXCEPT !.root = y]
    ELSE [t EXCEPT !.at[t.at[x].up][SideOf(t, x)] = y]

\* rb_left_rotate and rb_right_rotate: x goes down on the given side, and its
\* child on the other side comes up.
Rotated(t, x, side) ==
    LET y == t.at[x][Other(side)]
        b == t.at[y][side]
        moved == [t EXCEPT !.at[x][Other(side)] = b,
                           !.at[b].up = IF b = RBNULL THEN @ ELSE x,
                           !.at[y].up = t.at[x].up]
    IN  [Replaced(moved, x, y) EXCEPT !.at[y][side] = x, !.at[x].up = y]

-----------------------------------------------------------------------------
\* Search.  Down(t, key, x): the node with the key at or below x, or RBNULL;
\* Leaf: the last node on the way.
Down(t, key) ==
    LET f[x \in DOMAIN t.at] ==
            IF x = RBNULL \/ t.at[x].key = key THEN x
            ELSE f[t.at[x][Side(t, x, key)]]
    IN  f[t.root]
Leaf(t, key) ==
    LET f[x \in DOMAIN t.at] ==
            LET below == t.at[x][Side(t, x, key)]
            IN  IF t.at[x].key = key \/ below = RBNULL THEN x ELSE f[below]
    IN  IF t.root = RBNULL THEN RBNULL ELSE f[t.root]
\* The outermost node below x on one side.
Outermost(t, x, side) ==
    LET f[y \in DOMAIN t.at] ==
            IF t.at[y][side] = RBNULL THEN y ELSE f[t.at[y][side]]
    IN  f[x]
\* Mutant: no way up.
NeighbourBelow(t, x, side) ==
    IF t.at[x][side] # RBNULL THEN Outermost(t, t.at[x][side], Other(side))
    ELSE RBNULL

\* rb_successor (side "right") and rb_predecessor ("left").
Neighbour(t, x, side) ==
    LET climb[y \in DOMAIN t.at] ==
            LET p == t.at[y].up IN
            IF p # RBNULL /\ y = t.at[p][side] THEN climb[p] ELSE p
    IN  IF t.at[x][side] # RBNULL
        THEN Outermost(t, t.at[x][side], Other(side))
        ELSE climb[x]

\* rbfind.
RbFind(t, key) == t.at[Down(t, key)].key

\* rblookup.
LookupModes == {"EQUAL", "GTEQ", "LTEQ", "LESS", "GREAT", "NEXT", "PREV",
                "FIRST", "LAST"}
LookupNode(t, mode, key) ==
    LET x == Down(t, key)
        found == x # RBNULL
        y == Leaf(t, key)
        above == y # RBNULL /\ key > t.at[y].key
        below == y # RBNULL /\ key < t.at[y].key
    IN  CASE mode \in {"FIRST", "LAST"} ->
               IF t.root = RBNULL THEN RBNULL
               ELSE Outermost(t, t.root,
                              IF mode = "FIRST" THEN "left" ELSE "right")
          [] found /\ mode \in {"EQUAL", "GTEQ", "LTEQ"} -> x
          [] ~ found /\ mode \in {"EQUAL", "NEXT", "PREV"} -> RBNULL
          [] ~ found /\ mode \in {"GTEQ", "GREAT"} ->
               IF above THEN Neighbour(t, y, "right") ELSE y
          [] ~ found /\ mode \in {"LTEQ", "LESS"} ->
               IF below THEN Neighbour(t, y, "left") ELSE y
          [] found /\ mode \in {"NEXT", "GREAT"} -> Neighbour(t, x, "right")
          [] found /\ mode \in {"PREV", "LESS"} -> Neighbour(t, x, "left")
Lookup(t, mode, key) == t.at[LookupNode(t, mode, key)].key

\* rbopenlist, and rbreadlist until it returns NULL.
ReadList(t) ==
    LET from[x \in DOMAIN t.at] ==
            IF x = RBNULL THEN <<>>
            ELSE <<t.at[x].key>> \o from[Neighbour(t, x, "right")]
    IN  IF t.root = RBNULL THEN <<>> ELSE from[Outermost(t, t.root, "left")]

\* The keys rbwalk reports in order: a leaf once, another node between its
\* subtrees (VISIT postorder).
Walk(t) ==
    LET visit[x \in DOMAIN t.at] ==
            IF x = RBNULL THEN <<>>
            ELSE visit[t.at[x].left] \o <<t.at[x].key>>
                 \o visit[t.at[x].right]
    IN  visit[t.root]

-----------------------------------------------------------------------------
\* Insertion

Free == Addresses \ DOMAIN tree.at
\* Which address malloc returns is no matter to the tree: a fixed choice.
Malloc(key) == IF key \in Free THEN key ELSE Min(Free)

\* A new red node below y.
Linked(t, z, y, key) ==
    LET new == [t EXCEPT !.at = (z :> Node(key, y, "RED")) @@ @]
    IN  IF y = RBNULL THEN [new EXCEPT !.root = z]
        ELSE [new EXCEPT !.at[y][Side(t, y, key)] = z]

\* rbsearch with a key that is not there yet; with one that is, or without
\* memory, nothing changes.
RbSearch(key) ==
    /\ fix.pc = "idle" /\ Down(tree, key) = RBNULL /\ Free # {}
    /\ LET z == Malloc(key) IN
       /\ tree' = Linked(tree, z, Leaf(tree, key), key)
       /\ fix' = [pc |-> "insert", x |-> z]
    /\ content' = content \cup {key}

Uncle(t, x) ==
    LET p == t.at[x].up IN t.at[t.at[p].up][Other(SideOf(t, p))]

\* The uncle is red: the colours move up.
RecolourUp(t, x) ==
    LET p == t.at[x].up
        g == t.at[p].up
    IN  [tree |-> Coloured(Coloured(Coloured(t, p, "BLACK"), Uncle(t, x),
                                    "BLACK"), g, "RED"),
         x |-> g]

\* Mutant: one rotation for an inner child too.
RotateUpOnce(t, x) ==
    LET p == t.at[x].up
        g == t.at[p].up
        t2 == Coloured(Coloured(t, p, "BLACK"), g, "RED")
    IN  [tree |-> Rotated(t2, g, Other(SideOf(t, p))), x |-> p]

\* The uncle is black: x comes up in one rotation or two.
RotateUp(t, x) ==
    LET p == t.at[x].up
        g == t.at[p].up
        s == SideOf(t, p)
        inner == x = t.at[p][Other(s)]
        x1 == IF inner THEN p ELSE x
        t1 == IF inner THEN Rotated(t, p, s) ELSE t
        t2 == Coloured(Coloured(t1, t1.at[x1].up, "BLACK"), g, "RED")
    IN  [tree |-> Rotated(t2, g, Other(s)), x |-> x1]

\* One iteration, or the end, where the root becomes black.
InsertFix ==
    /\ fix.pc = "insert"
    /\ IF fix.x # tree.root /\ IsRed(tree, tree.at[fix.x].up)
       THEN LET next == IF IsRed(tree, Uncle(tree, fix.x))
                        THEN RecolourUp(tree, fix.x) ELSE RotateUp(tree, fix.x)
            IN  tree' = next.tree /\ fix' = [fix EXCEPT !.x = next.x]
       ELSE /\ tree' = Coloured(tree, tree.root, "BLACK")
            /\ fix' = [pc |-> "idle", x |-> RBNULL]
    /\ UNCHANGED content

-----------------------------------------------------------------------------
\* Deletion

\* The node that leaves the tree: z, or the successor whose key z takes.
Victim(t, z) ==
    IF t.at[z].left = RBNULL \/ t.at[z].right = RBNULL THEN z
    ELSE Neighbour(t, z, "right")

Freed(t, y) == [t EXCEPT !.at = Restrict(@, DOMAIN @ \ {y})]

\* rbdelete of a key that is there.
RbDelete(key) ==
    LET z == Down(tree, key)
        y == Victim(tree, z)
        x == IF tree.at[y].left # RBNULL THEN tree.at[y].left
                                         ELSE tree.at[y].right
        spliced == Replaced([tree EXCEPT !.at[x].up = tree.at[y].up], y, x)
        keyed == [spliced EXCEPT !.at[z].key = tree.at[y].key]
    IN  /\ fix.pc = "idle" /\ z # RBNULL
        /\ tree' = Freed(keyed, y)
        /\ fix' = IF IsRed(tree, y) THEN fix ELSE [pc |-> "delete", x |-> x]
        /\ content' = content \ {key}

\* One iteration for x on the given side of its parent, w its sibling.
DeleteStep(t, x) ==
    LET p == t.at[x].up
        s == SideOf(t, x)
        o == Other(s)
        t1 == IF IsRed(t, t.at[p][o])
              THEN Rotated(Coloured(Coloured(t, t.at[p][o], "BLACK"), p, "RED"),
                           p, s)
              ELSE t
        w == t1.at[p][o]
        t2 == IF IsRed(t1, t1.at[w][o]) THEN t1
              ELSE Rotated(Coloured(Coloured(t1, t1.at[w][s], "BLACK"), w,
                                    "RED"), w, o)
        w2 == t2.at[p][o]
        t3 == Coloured(Coloured(Coloured(t2, w2, t2.at[p].colour), p, "BLACK"),
                       t2.at[w2][o], "BLACK")
    IN  IF ~ IsRed(t1, t1.at[w].left) /\ ~ IsRed(t1, t1.at[w].right)
        THEN [tree |-> Coloured(t1, w, "RED"), x |-> p]
        ELSE LET t4 == Rotated(t3, p, s) IN [tree |-> t4, x |-> t4.root]

DeleteFix ==
    /\ fix.pc = "delete"
    /\ IF fix.x # tree.root /\ ~ IsRed(tree, fix.x)
       THEN LET next == DeleteStep(tree, fix.x)
            IN  tree' = next.tree /\ fix' = [fix EXCEPT !.x = next.x]
       ELSE /\ tree' = Coloured(tree, fix.x, "BLACK")
            /\ fix' = [pc |-> "idle", x |-> RBNULL]
    /\ UNCHANGED content

TreeFix == InsertFix \/ DeleteFix
TreeNext == TreeFix \/ \E key \in Keys : RbSearch(key) \/ RbDelete(key)

-----------------------------------------------------------------------------
TreeTypeOK ==
    /\ RBNULL \in DOMAIN tree.at
    /\ DOMAIN tree.at \subseteq Addresses \cup {RBNULL}
    /\ tree.root \in DOMAIN tree.at
    /\ \A a \in DOMAIN tree.at :
          tree.at[a] \in [key : Keys \cup {NoKey}, left : DOMAIN tree.at,
                          right : DOMAIN tree.at, up : Nat,
                          colour : {"RED", "BLACK"}]
    /\ fix \in [pc : {"idle", "insert", "delete"}, x : DOMAIN tree.at]
    /\ content \subseteq Keys

InTree == DOMAIN tree.at \ {RBNULL}

\* Black nodes on the ways down from x, by the way that goes left.
BlackHeight(x, side) ==
    LET h[y \in DOMAIN tree.at] ==
            IF y = RBNULL THEN 0
            ELSE h[tree.at[y][side]] + (IF IsRed(tree, y) THEN 0 ELSE 1)
    IN  h[x]

\* Between operations the properties of redblack.cc 108-119 hold, which keep
\* the longest way at most twice as long as the shortest, whatever was
\* inserted and deleted in whatever order; the pointers are those of a tree
\* and the sentinel, which all trees share and rb_delete writes, is black.
RedBlackTree ==
    fix.pc = "idle" =>
        /\ ~ IsRed(tree, RBNULL) /\ ~ IsRed(tree, tree.root)
        /\ tree.root # RBNULL => tree.at[tree.root].up = RBNULL
        /\ \A x \in InTree, side \in {"left", "right"} :
              LET child == tree.at[x][side] IN
              /\ child # RBNULL => tree.at[child].up = x
              /\ IsRed(tree, x) => ~ IsRed(tree, child)
        /\ \A x \in InTree :
              BlackHeight(tree.at[x].left, "left")
                  = BlackHeight(tree.at[x].right, "left")

\* The list of a set in order.
ListsInOrder(list, S) ==
    /\ ToSet(list) = S
    /\ \A i, j \in DOMAIN list : i < j => list[i] < list[j]
NoneOr(S, Choice(_)) == IF S = {} THEN NoKey ELSE Choice(S)

\* Between operations the tree is the set of its keys: a key is found exactly
\* when it was inserted and not deleted since, the list and the walk give
\* every key once and in order, and a lookup of any mode gives the key that
\* the comment at redblack.h 53-62 promises, also in an empty tree and at its
\* ends.
IsTheSet ==
    fix.pc = "idle" =>
        /\ ListsInOrder(ReadList(tree), content)
        /\ ListsInOrder(Walk(tree), content)
        /\ \A key \in Keys :
              LET above == {k \in content : k > key}
                  below == {k \in content : k < key}
                  equal == content \cap {key}
              IN  /\ RbFind(tree, key) = NoneOr(equal, Min)
                  /\ \A mode \in LookupModes : Lookup(tree, mode, key) =
                       CASE mode = "EQUAL" -> NoneOr(equal, Min)
                         [] mode = "GTEQ" -> NoneOr(equal \cup above, Min)
                         [] mode = "LTEQ" -> NoneOr(equal \cup below, Max)
                         [] mode = "LESS" -> NoneOr(below, Max)
                         [] mode = "GREAT" -> NoneOr(above, Min)
                         [] mode = "NEXT" ->
                              NoneOr(IF equal = {} THEN {} ELSE above, Min)
                         [] mode = "PREV" ->
                              NoneOr(IF equal = {} THEN {} ELSE below, Max)
                         [] mode = "FIRST" -> NoneOr(content, Min)
                         [] mode = "LAST" -> NoneOr(content, Max)

\* Between operations: a balanced search tree that is the set of its keys.
SearchTree == RedBlackTree /\ IsTheSet
=============================================================================
