---------------------------- MODULE MediaLibrary ----------------------------
(* The library of the uShare media server in its bunny mode: the entries     *)
(* build_bunny_metadata_list makes from one document of the share server,    *)
(* the directories bunny_upnp_get_entry loads the first time a renderer asks *)
(* for them, and the browse, search, get_info and open requests that libupnp *)
(* delivers on threads of its own. Nothing takes a lock: the document last   *)
(* parsed (ut->xml_doc), the counter of entries (ut->nr_entries), the lists  *)
(* of children and the tree of lookups (ut->rb) are shared by all of them.   *)
(* The steps are the parse of a document, the scan that copies its list, the *)
(* reads and writes by which a child gets its number and its place, and the  *)
(* answer. Entries are known by where they are in memory: numbers in the     *)
(* order in which they are linked, the root's 0.                             *)
EXTENDS Integers, Sequences, SequencesExt, FiniteSets

CONSTANTS
    Renderers,      \* libupnp's threads, each with one request at a time
    Directories,    \* names of directories of the share server (a name stands
                    \* for the whole path, and tells what has it)
    Files,          \* names of files with an extension of MIME_Type_List2
    Strays,         \* names of files without one
    Invalid,        \* names iconv does not convert (override_iconv_err unset)
    Shared,         \* ut->contentlist: the names shown below the root
    UserList,       \* the list the server keeps for bunny_user
    Listing,        \* the list it keeps for each directory
    Requests,       \* what renderers ask: [op, id, index, count,
                    \* criteria, given]
    FirstId,        \* ut->starting_id
    MaxUrls,        \* MAX_URLS
    MaxRequests,    \* bound: requests made
    MaxFailures,    \* bound: connections refused and answers without XML
    MaxRaces        \* bound: entries begun while another is being made

Lists == Seq(Directories \cup Files \cup Strays)

Root == 0
None == -1
Main == "main"
Loaders == Renderers \cup {Main}

ASSUME LibraryAssumption ==
    /\ Main \notin Renderers
    /\ Invalid \subseteq STRING
    /\ UserList \in Lists
    /\ Listing \in [Directories -> Lists]
    /\ Shared \in Seq(STRING) /\ Len(Shared) > 0
    /\ \A i \in DOMAIN Shared : Shared[i] \notin Directories
    /\ FirstId \in Nat \ {0} /\ MaxUrls \in Nat \ {0}
    /\ {MaxRequests, MaxFailures, MaxRaces} \subseteq Nat
    /\ \A r \in Requests : r.index \in Nat /\ r.count \in Nat  \* ui4

VARIABLES
    entry,      \* the entries that are linked
    lookup,     \* ut->rb: the entries by id
    nrEntries,  \* ut->nr_entries
    doc,        \* ut->xml_doc: its list; <<>> also when it is NULL
    cached,     \* directories whose document is in a fresh cache file
    init,       \* ut->init
    job,        \* what each thread is doing
    requests, failures,     \* the bounded counts
    disturbed,  \* history: a load has failed, or two have overlapped
    races       \* the third bounded count

entryVars == <<entry, lookup, nrEntries, races>>
libraryVars == <<entryVars, doc, cached, init, job, requests, failures,
                 disturbed>>

-----------------------------------------------------------------------------
(* Entries. A container has a child_count of its own; a file's is -1.        *)

NewEntry(id, name, parent, isDir) ==
    [id |-> id, name |-> name, parent |-> parent, childs |-> <<>>,
     count |-> IF isDir THEN 0 ELSE -1]

NextId == FirstId + nrEntries

Fresh == Cardinality(DOMAIN entry)

IsContainer(e) == entry[e].count >= 0

\* childs[n] = child and childs[n + 1] = NULL, where n was read some time ago:
\* what others appended since is cut off, and behind an earlier NULL the
\* child is not seen.
PutAt(childs, n, child) ==
    IF n <= Len(childs) THEN SubSeq(childs, 1, n) \o <<child>> ELSE childs

\* A mutant of WithChild: the count of the parent is forgotten.
WithChildUncounted(child, n, counted) ==
    [e \in DOMAIN entry \cup {Fresh} |->
        IF e = Fresh THEN child
        ELSE IF e = child.parent
             THEN [entry[e] EXCEPT !.childs = PutAt(@, n, Fresh)]
             ELSE entry[e]]

\* upnp_entry_add_child: the child is put behind the first n of its parent's
\* children, which count it.
WithChild(child, n, counted) ==
    [e \in DOMAIN entry \cup {Fresh} |->
        IF e = Fresh THEN child
        ELSE IF e = child.parent
             THEN [entry[e] EXCEPT !.childs = PutAt(@, n, Fresh),
                                   !.count = @ + counted]
             ELSE entry[e]]

\* rbsearch: nothing is entered under an id the tree has.
Enter(id) == [i \in DOMAIN lookup \cup {id} |->
                IF i \in DOMAIN lookup THEN lookup[i] ELSE Fresh]

HasMime(name) == name \in Directories \cup Files

Kept(name) == HasMime(name) /\ name \notin Invalid

\* The list of a document as metadata_add_container copies it.
Scanned(list) == SubSeq(list, 1, IF Len(list) < MaxUrls THEN Len(list)
                                 ELSE MaxUrls)

-----------------------------------------------------------------------------
(* What the ContentDirectory service answers about the entries.              *)

\* The page begins at the entry the last one ended with.
PageAgain(e, index, count) ==
    LET childs == entry[e].childs
        rest == SubSeq(childs, IF index = 0 THEN 1 ELSE index, Len(childs))
        want == IF index = 0 /\ count = 0 THEN entry[e].count ELSE count
    IN  IF want = 0 \/ want > Len(rest) THEN rest ELSE SubSeq(rest, 1, want)

\* cds_browse_directchildren: skip index children, take count of the rest;
\* a count of 0 takes all of them.
Page(e, index, count) ==
    LET childs == entry[e].childs
        rest == SubSeq(childs, index + 1, Len(childs))
        want == IF index = 0 /\ count = 0 THEN entry[e].count ELSE count
    IN  IF want = 0 \/ want > Len(rest) THEN rest ELSE SubSeq(rest, 1, want)

\* matches_search: a criterion (here the files it is true of) counts only
\* when another follows it; the result of the last one is not used.
Matches(criteria, e) ==
    \A i \in 1..(Len(criteria) - 1) : entry[e].name \in criteria[i]

\* One child c, when found has been found so far of the count wanted (0: all);
\* below is what the walks of the containers find.
Visit(criteria, below, count, found, c) ==
    IF count # 0 /\ Len(found) >= count THEN found
    ELSE IF IsContainer(c)
    THEN found \o below[c][IF count = 0 THEN 0 ELSE count - Len(found)]
    ELSE IF Matches(criteria, c) THEN Append(found, c)
    ELSE found

Gather(criteria, below, count, childs) ==
    LET Through[n \in 0 .. Len(childs)] ==
            IF n = 0 THEN <<>>
            ELSE Visit(criteria, below, count, Through[n - 1], childs[n])
    IN  Through[Len(childs)]

\* cds_search_directchildren_recursive: the matching files below e in the
\* order of the walk, no more than count of them.
Found(criteria) ==
    LET Below[e \in DOMAIN entry] ==
            [count \in Nat |-> Gather(criteria, Below, count, entry[e].childs)]
    IN  Below

\* cds_search_directchildren: the index is ignored, and a count of 0 stands
\* for the number of the container's own children.
Search(e, count, criteria) ==
    Found(criteria)[e][IF count = 0 THEN entry[e].count ELSE count]

Refused == [ok |-> FALSE, ids |-> <<>>, total |-> 0]
Result(ids, total) == [ok |-> TRUE, ids |-> ids, total |-> total]

\* cds_browse, cds_search, bunny_get_info and bunny_open once they have the
\* entry: children of a file are refused, and so is a file without a path.
Answer(r, e) ==
    CASE r.op = "metadata" -> Result(<<e>>, 1)
      [] r.op = "children" ->
            IF IsContainer(e) THEN Result(Page(e, r.index, r.count),
                                          entry[e].count)
            ELSE Refused
      [] r.op = "search" ->
            LET found == Search(e, r.count, r.criteria)
            IN  IF IsContainer(e) THEN Result(found, Len(found)) ELSE Refused
      [] OTHER -> IF e = Root THEN Refused ELSE Result(<<e>>, 1)

-----------------------------------------------------------------------------
NoRequest == [op |-> "none", id |-> 0, index |-> 0, count |-> 0,
              criteria |-> <<>>, given |-> TRUE]

Idle == [pc |-> "idle", request |-> NoRequest, at |-> None, todo |-> <<>>,
         share |-> 0, answer |-> Refused,
         name |-> "root", number |-> 0, length |-> 0]

\* ushare_main starts libupnp before it builds the list; the root is there
\* as soon as build_bunny_metadata_list begins.
LibraryInit ==
    /\ entry = [e \in {Root} |-> NewEntry(0, "root", None, TRUE)]
    /\ lookup = <<>>
    /\ nrEntries = 0
    /\ races = 0
    /\ doc = <<>>
    /\ cached = {}
    /\ init = FALSE
    /\ job = [t \in Loaders |->
                IF t = Main THEN [Idle EXCEPT !.pc = "fetch", !.at = Root]
                ELSE Idle]
    /\ requests = 0
    /\ failures = 0
    /\ disturbed = FALSE

Making(t) == job[t].pc \in {"number", "length", "link"}
Adding(t) == job[t].pc = "add" \/ Making(t)
Loading(t) == job[t].pc \in {"fetch", "share", "scan"} \/ Adding(t)

\* A thread begins to load while another is at it.
Overlap(t) == \E u \in Loaders \ {t} : Loading(u)

\* Others write their children's lists, or the tree of lookups, right now.
Contended(t) == \E u \in Loaders \ {t} : job[u].pc = "link"

Goto(t, pc) == job' = [job EXCEPT ![t].pc = pc]

-----------------------------------------------------------------------------
(* build_bunny_metadata_list, and the loading of a directory.                *)

\* With the document of the user the main thread goes on to the shared names,
\* with that of a directory its thread to the list.
Fetched(t) == Goto(t, IF t = Main THEN "share" ELSE "scan")

\* Only the first document is kept.
ParsedFirst(t, list) ==
    /\ doc' = (IF doc = <<>> THEN list ELSE doc)
    /\ Fetched(t)
    /\ UNCHANGED failures

\* The document arrives from the cache or the server and is parsed.
Parsed(t, list) ==
    /\ doc' = list
    /\ Fetched(t)
    /\ UNCHANGED failures

\* No connection leaves the document of an earlier load in place; an answer
\* that is no XML leaves none.
LoadFails(t) ==
    /\ failures < MaxFailures
    /\ failures' = failures + 1
    /\ doc' \in {doc, <<>>}
    /\ disturbed' = TRUE
    /\ Fetched(t)
    /\ UNCHANGED cached

FetchUser ==
    /\ job[Main].pc = "fetch"
    /\ \/ Parsed(Main, UserList) /\ UNCHANGED <<cached, disturbed>>
       \/ LoadFails(Main)
    /\ UNCHANGED <<entryVars, init, requests>>

\* A shared name has no server until children give it one: openClient fails.
FetchShared(t) ==
    /\ job[t].pc = "fetch" /\ t # Main
    /\ entry[job[t].at].name \notin Directories
    /\ Goto(t, "scan")
    /\ disturbed' = TRUE
    /\ UNCHANGED <<entryVars, doc, cached, init, requests, failures>>

FetchDirectory(t) ==
    /\ job[t].pc = "fetch" /\ t # Main
    /\ LET d == entry[job[t].at].name
       IN  /\ d \in Directories
           /\ \/ /\ Parsed(t, Listing[d])
                 /\ cached' \in {cached, cached \cup {d}}
                 /\ UNCHANGED disturbed
              \/ d \notin cached /\ LoadFails(t)
    /\ UNCHANGED <<entryVars, init, requests>>

\* metadata_add_container copies the list of whatever document is there now.
Scan(t) ==
    /\ job[t].pc = "scan"
    /\ job' = [job EXCEPT ![t].pc = "add", ![t].todo = Scanned(doc)]
    /\ UNCHANGED <<entryVars, doc, cached, init, requests, failures, disturbed>>

\* upnp_entry_new reads the counter; it is written in another step.
ReadCounter(t) ==
    IF \E u \in Loaders \ {t} : Making(u)
    THEN races < MaxRaces /\ races' = races + 1
    ELSE UNCHANGED races

\* The main thread begins the entry of the next shared name, and sets init
\* after the last one.
NextShare ==
    /\ job[Main].pc = "share"
    /\ IF job[Main].share < Len(Shared)
       THEN /\ job' = [job EXCEPT ![Main].pc = "number", ![Main].at = Root,
                         ![Main].share = @ + 1, ![Main].number = nrEntries,
                         ![Main].name = Shared[job[Main].share + 1]]
            /\ ReadCounter(Main)
            /\ UNCHANGED init
       ELSE /\ job' = [job EXCEPT ![Main] = Idle]
            /\ init' = TRUE
            /\ UNCHANGED races
    /\ UNCHANGED <<entry, lookup, nrEntries, doc, cached, requests, failures,
                   disturbed>>

\* One round of its second loop: a directory or a file is to be a child, a
\* file whose extension is not known is passed over.
AddOne(t) ==
    /\ job[t].pc = "add" /\ job[t].todo # <<>>
    /\ IF HasMime(Head(job[t].todo))
       THEN /\ job' = [job EXCEPT ![t].pc = "number", ![t].todo = Tail(@),
                         ![t].number = nrEntries,
                         ![t].name = Head(job[t].todo)]
            /\ ReadCounter(t)
       ELSE /\ job' = [job EXCEPT ![t].todo = Tail(@)]
            /\ UNCHANGED races
    /\ UNCHANGED <<entry, lookup, nrEntries, doc, cached, init, requests,
                   failures, disturbed>>

\* The thread has done with the child it was making.
ChildDone(t, pc) ==
    [job[t] EXCEPT !.pc = pc, !.name = "root", !.number = 0, !.length = 0]

\* The entry has its number. One whose name is not converted is freed, and
\* its number is not used again.
CountEntry(t) ==
    /\ job[t].pc = "number"
    /\ nrEntries' = job[t].number + 1
    /\ IF job[t].name \notin Invalid THEN Goto(t, "length")
       ELSE job' = [job EXCEPT ![t] =
                ChildDone(t, IF job[t].at = Root THEN "share" ELSE "add")]
    /\ UNCHANGED <<entry, lookup, races, doc, cached, init, requests, failures,
                   disturbed>>

\* upnp_entry_add_child: the length of the parent's list is read ...
ReadLength(t) ==
    /\ job[t].pc = "length"
    /\ job' = [job EXCEPT ![t].pc = "link",
                          ![t].length = Len(entry[job[t].at].childs)]
    /\ UNCHANGED <<entryVars, doc, cached, init, requests, failures, disturbed>>

\* ... and the child put behind it, counted and entered in the tree. While
\* another thread does the same, the count or what is entered may be lost.
Link(t) ==
    /\ job[t].pc = "link"
    /\ LET isShared == job[t].at = Root
           id == FirstId + job[t].number
           child == NewEntry(id, job[t].name, job[t].at,
                             isShared \/ job[t].name \in Directories)
       IN  /\ \E counted \in {0, 1} :
                 /\ counted = 1 \/ Contended(t)
                 /\ entry' = WithChild(child, job[t].length, counted)
           /\ \/ lookup' = Enter(id)
              \/ Contended(t) /\ UNCHANGED lookup
           /\ job' = [job EXCEPT ![t] =
                IF isShared THEN [ChildDone(t, "scan") EXCEPT !.at = Fresh]
                ELSE ChildDone(t, "add")]
    /\ UNCHANGED <<nrEntries, races, doc, cached, init, requests, failures,
                   disturbed>>

\* A mutant of AddDone: a container that is still empty after its load is
\* loaded again.
AddDoneRetries(t) ==
    /\ job[t].pc = "add" /\ job[t].todo = <<>>
    /\ Goto(t, IF t = Main THEN "share"
               ELSE IF entry[job[t].at].count = 0 THEN "fetch" ELSE "answer")
    /\ UNCHANGED <<entryVars, doc, cached, init, requests, failures, disturbed>>

\* The list is done: the request goes on with its entry, the main thread to
\* the next shared name.
AddDone(t) ==
    /\ job[t].pc = "add" /\ job[t].todo = <<>>
    /\ Goto(t, IF t = Main THEN "share" ELSE "answer")
    /\ UNCHANGED <<entryVars, doc, cached, init, requests, failures, disturbed>>

-----------------------------------------------------------------------------
(* Requests.                                                                 *)

NewRequest(t) ==
    /\ job[t].pc = "idle"
    /\ requests < MaxRequests
    /\ requests' = requests + 1
    /\ \E r \in Requests :
            job' = [job EXCEPT ![t] = [Idle EXCEPT !.pc = "find", !.request = r]]
    /\ UNCHANGED <<entryVars, doc, cached, init, failures, disturbed>>

IsBrowse(r) == r.op \in {"metadata", "children", "search"}

\* find_service_action: an action no service has is answered with an error.
Known(r) == IsBrowse(r) \/ r.op \in {"info", "open"}

\* Requests turned down before the lookup: the list is not built yet, an
\* argument without a default (the flag, the filter, the criteria) is
\* missing, or the metadata of an entry is asked from an index.
TurnedDown(r) == \/ ~Known(r)
                 \/ IsBrowse(r) /\ (~init \/ ~r.given)
                 \/ r.op = "metadata" /\ r.index # 0

\* The entry looked up: an unknown id below the first stands for the first.
Wanted(r) ==
    IF r.id = 0 THEN Root
    ELSE IF r.id \in DOMAIN lookup THEN lookup[r.id]
    ELSE IF IsBrowse(r) /\ r.id < FirstId /\ FirstId \in DOMAIN lookup
         THEN lookup[FirstId] ELSE None

\* bunny_upnp_get_entry loads a container that has no children, but never
\* the root.
MustLoad(e) == e # Root /\ entry[e].count = 0

\* While the tree is written, a lookup may miss what it has.
Find(t) ==
    /\ job[t].pc = "find"
    /\ LET r == job[t].request
       IN  \E e \in {Wanted(r), None} :
            /\ e = Wanted(r) \/ Contended(t)
            /\ IF TurnedDown(r) \/ e = None
               THEN /\ job' = [job EXCEPT ![t].pc = "reply"]
                    /\ UNCHANGED disturbed
               ELSE IF MustLoad(e)
               THEN /\ job' = [job EXCEPT ![t].pc = "fetch", ![t].at = e]
                    /\ disturbed' = (disturbed \/ Overlap(t))
               ELSE /\ job' = [job EXCEPT ![t].pc = "answer", ![t].at = e]
                    /\ UNCHANGED disturbed
    /\ UNCHANGED <<entryVars, doc, cached, init, requests, failures>>

MakeAnswer(t) ==
    /\ job[t].pc = "answer"
    /\ job' = [job EXCEPT ![t].answer = Answer(job[t].request, job[t].at),
                          ![t].pc = "reply"]
    /\ UNCHANGED <<entryVars, doc, cached, init, requests, failures,
                   disturbed>>

Reply(t) ==
    /\ job[t].pc = "reply"
    /\ job' = [job EXCEPT ![t] = Idle]
    /\ UNCHANGED <<entryVars, doc, cached, init, requests, failures,
                   disturbed>>

Load(t) ==
    \/ FetchShared(t) \/ FetchDirectory(t) \/ Scan(t) \/ AddOne(t)
    \/ CountEntry(t) \/ ReadLength(t) \/ Link(t) \/ AddDone(t)

MainLoad == FetchUser \/ NextShare \/ Load(Main)

Serve(t) == Load(t) \/ Find(t) \/ MakeAnswer(t) \/ Reply(t)

LibraryNext ==
    \/ MainLoad
    \/ \E t \in Renderers : NewRequest(t) \/ Serve(t)

\* Main is one thread that runs; libupnp runs a thread for each request.
LibraryFairness ==
    /\ WF_libraryVars(MainLoad)
    /\ \A t \in Renderers : WF_libraryVars(Serve(t))

LibrarySpec ==
    LibraryInit /\ [][LibraryNext]_libraryVars /\ LibraryFairness

-----------------------------------------------------------------------------
\* The variables and the jobs have their types.
LibraryTypeOK ==
    /\ Root \in DOMAIN entry
    /\ \A e \in DOMAIN entry :
        /\ entry[e].childs \in Seq(DOMAIN entry)
        /\ entry[e].count >= -1
        /\ e # Root => entry[e].parent \in DOMAIN entry
    /\ \A i \in DOMAIN lookup : lookup[i] \in DOMAIN entry
    /\ nrEntries \in Nat /\ doc \in Lists /\ cached \subseteq Directories
    /\ init \in BOOLEAN /\ disturbed \in BOOLEAN 
    /\ requests \in 0..MaxRequests /\ failures \in 0..MaxFailures
    /\ races \in 0..MaxRaces
    /\ \A t \in Loaders :
        /\ job[t].pc \in {"idle", "find", "fetch", "share", "scan", "add",
                         "number", "length", "link", "answer", "reply"}
        /\ job[t].at \in DOMAIN entry \cup {None}
        /\ job[t].todo \in Lists /\ job[t].share \in 0..Len(Shared)
        /\ job[t].number \in Nat /\ job[t].length \in Nat

\* Whatever loads run at once, and however often a directory is loaded: what
\* a container lists are entries made for it, each once; a file has none; and
\* an id finds an entry of that id. As long as no two threads were at making
\* an entry at the same time, though their loads overlap: every entry is
\* listed by its parent and found by its id, which is no other's and will not
\* be given out again; and a container counts what it lists (upnp_entry_new,
\* upnp_entry_add_child).
WellLinked ==
    /\ \A p \in DOMAIN entry : LET childs == entry[p].childs IN
        /\ \A i \in DOMAIN childs : entry[childs[i]].parent = p
        /\ \A i, j \in DOMAIN childs : childs[i] = childs[j] => i = j
        /\ ~IsContainer(p) => childs = <<>>
    /\ \A id \in DOMAIN lookup : entry[lookup[id]].id = id
    /\ races = 0 => \A e \in DOMAIN entry :
        /\ IsContainer(e) => entry[e].count = Len(entry[e].childs)
        /\ e # Root =>
            /\ e \in ToSet(entry[entry[e].parent].childs)
            /\ entry[e].id \in DOMAIN lookup /\ lookup[entry[e].id] = e
            /\ entry[e].id \in FirstId..(NextId - 1)

\* The list that belongs to a container below the root, as it is copied.
Source(e) == Scanned(IF entry[e].name \in Directories
                     THEN Listing[entry[e].name] ELSE UserList)

KeptOf(list, n) == {i \in 1 .. n : Kept(list[i])}

\* The children of e are those of the first n names of its list that are no
\* strays, in their order.
Shows(e, n) ==
    LET list == Source(e)
        childs == entry[e].childs
    IN  /\ Len(childs) = Cardinality(KeptOf(list, n))
        /\ \A i \in KeptOf(list, n) :
              entry[childs[Cardinality(KeptOf(list, i))]].name = list[i]

\* As long as no load has failed and no two have run at once, a container
\* below the root shows the start of its own list without the strays, the
\* whole of it unless the load that fills it is still going on: the document
\* shared by all loads (ut->xml_doc) is then the one just parsed.
OwnList ==
    ~disturbed => \A e \in DOMAIN entry \ {Root} : IsContainer(e) =>
        \/ entry[e].childs = <<>>
        \/ Shows(e, Len(Source(e)))
        \/ \E t \in Loaders, n \in 0 .. Len(Source(e)) :
              Adding(t) /\ job[t].at = e /\ Shows(e, n)

\* The files below e that match, in the order of the tree: what a search
\* would return without a limit.
AllOf(criteria, below, c) ==
    IF IsContainer(c) THEN below[c]
    ELSE IF Matches(criteria, c) THEN <<c>> ELSE <<>>

AllFound(criteria) ==
    LET Below[e \in DOMAIN entry] ==
            FlattenSeq([i \in DOMAIN entry[e].childs |->
                           AllOf(criteria, Below, entry[e].childs[i])])
    IN  Below

FirstOf(n, seq) == SubSeq(seq, 1, IF n < Len(seq) THEN n ELSE Len(seq))

\* Pages of any size, asked for one after the other up to the TotalMatches
\* the first one reports, give every child once and in order, unless two
\* threads were making an entry at once; and a search for n files gives the
\* first n of those the whole tree below has, however the limit is handed
\* down to the directories below
\* (cds_browse_directchildren, cds_search_directchildren_recursive).
PagesAndSearch ==
    \A e \in DOMAIN entry : IsContainer(e) =>
        /\ races = 0 =>
            /\ \A size \in 1..3 :
                FlattenSeq([i \in 1..((entry[e].count + size - 1) \div size) |->
                    Page(e, (i - 1) * size, size)]) = entry[e].childs
            /\ Page(e, 0, 0) = entry[e].childs
        /\ \A r \in Requests : r.op = "search" /\ r.count # 0 =>
            Search(e, r.count, r.criteria)
                = FirstOf(r.count, AllFound(r.criteria)[e])

\* Every request libupnp hands over is answered, also one that has to load
\* a directory first or comes before the list is built.
EveryRequestAnswered ==
    \A t \in Renderers : job[t].pc # "idle" ~> job[t].pc = "idle"

=============================================================================
