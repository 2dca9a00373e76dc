---------------------------- MODULE ShareListing ----------------------------
(* The share worker (Dsp_share). Its main thread writes the paths below the
   shared directory to a file, compares it with the file of the run before,
   which the link "current" names, and hands the listing to add_client_data
   page by page. Its control thread answers the host's getfile. Meanwhile what
   the directory holds changes, and the process is started again.

   A path is a sequence of names, a page a sequence of the tags it is made of:
   a directory opened, a file, a directory closed. The heading and the end of a
   page, which open and close the shared directory itself, are left out. *)
EXTENDS Integers, Sequences, SequencesExt, FiniteSets, FiniteSetsExt

CONSTANTS
    Names, Hidden,  \* numbers, in the order of alphasort; those with a dot
    Trees,          \* what the directory can hold: a node for each path
    PageSizes,      \* what SIZELIMIT1 may be in tags, whose lengths vary
    ChunkSize,      \* SIZELIMIT1 in characters of a file
    IntMax,         \* the largest int, 2^31 - 1
    Asked, Lens,    \* what the host asks for: files, and len; 0 is none
    MaxStarts, MaxChanges, MaxAsks      \* bounds

ASSUME ShareAssumption ==
    /\ Names \subseteq Nat /\ Hidden \subseteq Names
    /\ PageSizes \subseteq Nat \ {0} /\ IntMax \in Nat
    /\ ChunkSize \in 1 .. IntMax /\ Lens \subseteq 0 .. IntMax
    /\ \A t \in Trees : IsFiniteSet(DOMAIN t) /\ \A p \in DOMAIN t :
          /\ p \in Seq(Names) /\ p # <<>> /\ (Len(p) > 1 => t[Front(p)].dir)
          /\ t[p] \in [dir : BOOLEAN, data : Seq(Nat), readable : BOOLEAN]

VARIABLES
    pageSize,
    sharedir,   \* what the directory holds
    current,    \* the file that "current" links to; survives a crash
    lines,      \* the file of this run
    thread,     \* the main thread's place in share_main
    start,      \* start_index
    pages,      \* the pages handed over, each with what it was made of
    handed,     \* history: the files whose pages a run handed over
    cutOff,     \* history: those for which it ended between link and last page
    ask,        \* the host's reading of a file, with getFile's local state
    starts, changes, asks

shareVars == <<pageSize, sharedir, current, lines, thread, start, pages,
               handed, cutOff, ask, starts, changes, asks>>
mainVars == <<pageSize, current, lines, thread, start, pages, handed, cutOff>>
askVars == <<ask, asks>>

-----------------------------------------------------------------------------
(* The directory *)

NoFile == << <<>> >>    \* the directory itself is on no list
IsDir(t, p) == p = <<>> \/ (p \in DOMAIN t /\ t[p].dir)
IsFile(t, p) == p \in DOMAIN t /\ ~t[p].dir

\* The numbers in S one after the other.
Ascending(S) == CHOOSE s \in [1 .. Cardinality(S) -> S] :
                   \A i, j \in DOMAIN s : i < j => s[i] < s[j]

\* scandir, without what begins with a dot.
Scandir(t, d) == Ascending({n \in Names \ Hidden : Append(d, n) \in DOMAIN t})

\* A directory's own lines are written after those of the directories in it.
DirentsFile(t) ==
    LET Dirents[d \in {<<>>} \cup DOMAIN t] ==
            LET names == Scandir(t, d)
                own == [i \in DOMAIN names |-> Append(d, names[i])]
                below == [i \in DOMAIN own |-> IF IsDir(t, own[i])
                                               THEN Dirents[own[i]] ELSE <<>>]
            IN  FlattenSeq(below) \o own
    IN  Dirents[<<>>]

-----------------------------------------------------------------------------
(* get_dirents *)

Open(n) == <<"open", n>>
File(n) == <<"file", n>>
Close == <<"close">>

\* The levels at which a is and b is not the same directory (mapdirs).
Differ(a, b) == {x \in DOMAIN a : x \notin DOMAIN b \/ a[x] # b[x]}

\* A mutant of Closing: only what is deeper than the new directory is closed.
ClosingDeeper(prevdir, currdir) ==
    [x \in 1 .. Cardinality(DOMAIN prevdir \ DOMAIN currdir) |-> Close]

\* What goes between lines of two directories. Nothing is opened when the
\* directory has gone.
Closing(prevdir, currdir) ==
    [x \in 1 .. Cardinality(Differ(prevdir, currdir)) |-> Close]
Opening(t, prevdir, currdir) ==
    IF ~IsDir(t, currdir) THEN <<>>
    ELSE LET levels == Ascending(Differ(currdir, prevdir))
         IN  [i \in DOMAIN levels |-> Open(currdir[levels[i]])]

\* One line. A line is counted, and its file printed, if there is room for it
\* after its directories.
PrintLine(t, r, line) ==
    IF Len(r.out) >= pageSize THEN r
    ELSE LET currdir == Front(line)
             out == r.out \o Closing(r.prevdir, currdir)
                          \o Opening(t, r.prevdir, currdir)
             room == Len(out) < pageSize
         IN  [prevdir |-> currdir,
              index |-> IF room THEN r.index + 1 ELSE r.index,
              out |-> IF room /\ IsFile(t, line)
                      THEN Append(out, File(Last(line))) ELSE out]

\* Lines passed over and lines counted: the loop reads one line before it
\* counts, so that it passes over one more than start_index.
Skipped == IF start = 0 THEN 0 ELSE Min({start + 1, Len(lines)})

GetDirents(t) ==
    LET Printed[n \in 0 .. Len(lines) - Skipped] ==
            IF n = 0 THEN [out |-> <<>>, prevdir |-> <<>>, index |-> Skipped]
            ELSE PrintLine(t, Printed[n - 1], lines[Skipped + n])
        r == Printed[Len(lines) - Skipped]
    IN  [tags |-> r.out \o [x \in DOMAIN r.prevdir |-> Close],
         index |-> r.index, moreData |-> Len(r.out) >= pageSize]

-----------------------------------------------------------------------------
(* share_main *)

NotAsking == [at |-> "idle", path |-> <<>>, got |-> <<>>, len |-> 0, size |-> 0,
              steady |-> FALSE]

ShareInit ==
    /\ pageSize \in PageSizes
    /\ sharedir \in Trees
    /\ current = NoFile /\ lines = NoFile
    /\ thread = "scan" /\ start = 0
    /\ pages = <<>> /\ handed = {} /\ cutOff = {}
    /\ ask = NotAsking
    /\ starts = 1 /\ changes = 0 /\ asks = 0

CreateDirentsFile ==
    /\ thread = "scan"
    /\ lines' = DirentsFile(sharedir)
    /\ thread' = "compare"
    /\ UNCHANGED <<pageSize, sharedir, current, start, pages, handed, cutOff,
                   askVars, starts, changes>>

\* A mutant of Compare: a file of the same size is the same.
CompareSizes ==
    /\ thread = "compare"
    /\ thread' = IF current # NoFile /\ Len(lines) = Len(current)
                 THEN "linksame" ELSE "link"
    /\ current' = NoFile
    /\ UNCHANGED <<pageSize, sharedir, lines, start, pages, handed, cutOff,
                   askVars, starts, changes>>

\* By size first, then by content; "current" is removed in any case.
Compare ==
    /\ thread = "compare"
    /\ thread' = IF current # NoFile /\ lines = current THEN "linksame"
                 ELSE "link"
    /\ current' = NoFile
    /\ UNCHANGED <<pageSize, sharedir, lines, start, pages, handed, cutOff,
                   askVars, starts, changes>>

Symlink ==
    /\ thread \in {"link", "linksame"}
    /\ current' = lines
    /\ thread' = IF thread = "link" THEN "pages" ELSE "same"
    /\ UNCHANGED <<pageSize, sharedir, lines, start, pages, handed, cutOff,
                   askVars, starts, changes>>

GetDirectory ==
    /\ thread = "pages"
    /\ LET page == GetDirents(sharedir)
       IN  /\ pages' = Append(pages, [tags |-> page.tags, of |-> sharedir])
           /\ IF page.moreData
              THEN start' = page.index + 1 /\ UNCHANGED <<thread, handed>>
              ELSE /\ thread' = "sleep"
                   /\ handed' = handed \cup {lines}
                   /\ UNCHANGED start
    /\ UNCHANGED <<pageSize, sharedir, current, lines, cutOff, askVars, starts,
                   changes>>

\* The process ends, wherever it is, and is started again.
Restart ==
    /\ starts < MaxStarts
    /\ starts' = starts + 1
    /\ lines' = NoFile /\ thread' = "scan" /\ start' = 0 /\ pages' = <<>>
    /\ ask' = NotAsking
    /\ cutOff' = cutOff \cup {l \in {lines} : thread = "pages"}
    /\ UNCHANGED <<pageSize, sharedir, current, handed, changes, asks>>

Change ==
    /\ changes < MaxChanges
    /\ changes' = changes + 1
    /\ sharedir' \in Trees \ {sharedir}
    /\ ask' = [ask EXCEPT !.steady = FALSE]
    /\ UNCHANGED <<mainVars, starts, asks>>

-----------------------------------------------------------------------------
(* The control thread: the host reads a file chunk by chunk, from where the
   last chunk ended, until one is empty. *)

HostAsks(path, len) ==
    /\ asks < MaxAsks
    /\ ask.at = "idle" \/ (ask.at = "more" /\ path = ask.path)
    /\ IsFile(sharedir, path) \/ ask.at = "more"
    /\ asks' = asks + 1
    /\ ask' = [ask EXCEPT !.at = "stat", !.path = path, !.len = len,
                          !.steady = IF ask.at = "idle" THEN TRUE ELSE @]
    /\ UNCHANGED <<sharedir, mainVars, starts, changes>>

\* getFile, up to its stat. What is no longer there is an error.
Stat ==
    /\ ask.at = "stat"
    /\ ask' = IF ask.path \notin DOMAIN sharedir
              THEN [ask EXCEPT !.at = "failed"]
              ELSE [ask EXCEPT !.at = "read",
                               !.size = Len(sharedir[ask.path].data)]
    /\ UNCHANGED <<sharedir, mainVars, asks, starts, changes>>

\* What an int makes of n; n < 0 stands for the unsigned long it wraps to.
AsInt(n) == ((n + IntMax + 1) % (2 * IntMax + 2)) - (IntMax + 1)

Offset == AsInt(Len(ask.got))

\* The size of the buffer.
MaxResp == IF ask.len > 0 THEN Min({ask.len, ChunkSize}) ELSE ChunkSize

\* A mutant of ChunkLen: the offset is not taken off the size.
ChunkLenOfAll == IF AsInt(ask.size) > MaxResp THEN MaxResp ELSE ask.size

\* How much is to be read. The limit is compared with the int of what is left:
\* more than an int holds may pass it.
ChunkLen == LET s == ask.size - Offset
            IN  IF AsInt(s) > MaxResp THEN MaxResp ELSE s

\* The file is opened, sought and read. One that cannot be opened gives the
\* result of the stat, success, and no characters; one that gives less than is
\* wanted is an error, and so is a place or a length below 0. What follows when
\* the file gives more than the buffer holds is undefined.
ReadChunk ==
    /\ ask.at = "read"
    /\ LET data == IF ask.path \in DOMAIN sharedir THEN sharedir[ask.path].data
                   ELSE <<>>
           opened == ask.path \in DOMAIN sharedir /\ sharedir[ask.path].readable
           chunk == SubSeq(data, Offset + 1, Min({Offset + ChunkLen, Len(data)}))
           rc2 == IF Offset < 0 \/ ChunkLen < 0 THEN -1 ELSE Len(chunk)
       IN  ask' = CASE ~opened -> [ask EXCEPT !.at = "end"]
                    [] opened /\ rc2 > MaxResp -> [ask EXCEPT !.at = "overrun"]
                    [] opened /\ rc2 \in 0 .. MaxResp /\ rc2 = AsInt(ChunkLen) ->
                         [ask EXCEPT !.at = IF chunk = <<>> THEN "end"
                                            ELSE "more",
                                     !.got = @ \o chunk]
                    [] OTHER -> [ask EXCEPT !.at = "failed"]
    /\ UNCHANGED <<sharedir, mainVars, asks, starts, changes>>

MainThread == CreateDirentsFile \/ Compare \/ Symlink \/ GetDirectory
ControlThread ==
    \/ \E path \in Asked, len \in Lens : HostAsks(path, len)
    \/ Stat \/ ReadChunk

ShareNext == MainThread \/ ControlThread \/ Restart \/ Change

ShareSpec == ShareInit /\ [][ShareNext]_shareVars

-----------------------------------------------------------------------------
(* Properties *)

\* What the host makes of a page: where each file is, and whether each tag
\* that closes has one that opens.
Take(h, tag) ==
    CASE tag[1] = "open" -> [h EXCEPT !.in = Append(@, tag[2])]
      [] tag[1] = "file" -> [h EXCEPT !.files = Append(@, Append(h.in, tag[2]))]
      [] tag[1] = "close" -> IF h.in = <<>> THEN [h EXCEPT !.sound = FALSE]
                             ELSE [h EXCEPT !.in = Front(@)]
Taken(page) ==
    LET After[n \in 0 .. Len(page.tags)] ==
            IF n = 0 THEN [in |-> <<>>, files |-> <<>>, sound |-> TRUE]
            ELSE Take(After[n - 1], page.tags[n])
    IN  After[Len(page.tags)]
Listed == FlattenSeq([k \in DOMAIN pages |-> Taken(pages[k]).files])

\* The directories of all lines were there whenever a page was made.
Whole == \A k \in DOMAIN pages, i \in DOMAIN lines :
            IsDir(pages[k].of, Front(lines[i]))

PlaceOf(path) == CHOOSE i \in DOMAIN lines : lines[i] = path

\* While no directory goes away, the host can read every page; a file is listed
\* in its own directory, once, in the order of the lines, however the lines
\* fall on pages; and a page break loses two lines, no more (get_dirents,
\* share_main).
ListedInPlace ==
    Whole =>
        /\ \A k \in DOMAIN pages :
              Taken(pages[k]).sound /\ Taken(pages[k]).in = <<>>
        /\ ToSet(Listed) \subseteq ToSet(lines)
        /\ \A i, j \in DOMAIN Listed :
              i < j => PlaceOf(Listed[i]) < PlaceOf(Listed[j])
        /\ thread = "sleep" =>
              LET kept == {p \in ToSet(lines) :
                              \A k \in DOMAIN pages : IsFile(pages[k].of, p)}
              IN  Cardinality(kept \ ToSet(Listed)) <= 2 * (Len(pages) - 1)

\* A run sends nothing only if an earlier run handed over all pages of the very
\* same list, or ended after it had linked it and before the last page
\* (share_main), whatever changed and wherever the runs in between ended.
SkippedOnlyIfSent == thread = "same" => lines \in handed \cup cutOff

\* A host that reads a file from offset 0 on, with any lengths, and stops at
\* the first empty chunk has the file, if it can be opened, does not change
\* meanwhile and is no longer than an int says; and no chunk of such a file
\* fails or is longer than its buffer (getFile).
FileReadBack ==
    ask.steady /\ Len(sharedir[ask.path].data) <= IntMax =>
        /\ ask.at \notin {"failed", "overrun"}
        /\ ask.at = "end" /\ sharedir[ask.path].readable =>
              ask.got = sharedir[ask.path].data

=============================================================================
