------------------------------ MODULE BookmarkDb ------------------------------
(* The bookmark database (applayerpluginsandutils/bookmarksupport): processes *)
(* that each keep the tree of folders and bookmarks in memory (CBookmarkDb,   *)
(* CBookmarkFolder, CBookmark) and share it through the central repository.   *)
(* A change stays in memory until CommitL, which writes one transaction for   *)
(* each changed item; the other processes are notified (CBkmrkWatcher) and    *)
(* load the tree again.                                                       *)
(*                                                                            *)
(* A call of a client is one action, since nothing else runs in its process   *)
(* meanwhile; but CommitL, CreateDefaultRepositoriesL and NextIndexL go to    *)
(* the repository more than once and have a step for each time, between which *)
(* other processes run and this one may crash.  A load of the tree is one     *)
(* step.  Items are named by type and index, as in the repository.  Left out: *)
(* icons, custom properties, the texts and addresses kept beside the home     *)
(* page, and which title a folder may take.  An item's contents are old or    *)
(* new.  Clients close their handles before they delete, refresh or close.    *)
EXTENDS Integers, Sequences, FiniteSets, SequencesExt

CONSTANTS
    Procs,       \* client processes
    Visibility,  \* how each opens the database: public, private, all, manager
    MaxIndex,    \* bound: folders, and bookmarks, ever created
    MaxActs,     \* bound: changes the clients make
    MaxCrashes,  \* bound: processes that die
    Sessions,    \* each: what earlier ones left (the folder of each item), and
                 \* the calls that each client makes
    Env          \* liberties of the clients in this run
    \* refile: folders are moved into others
    \* again: CommitL is called again after it left

ASSUME ConstantsAssumption ==
    /\ Visibility \in [Procs -> {"public", "private", "all", "manager"}]
    /\ MaxIndex \in Nat \ {0} /\ MaxActs \in Nat /\ MaxCrashes \in Nat
    /\ \A s \in Sessions :
         /\ DOMAIN s.start \subseteq {"folder", "bookmark"} \X (1..MaxIndex)
         /\ s.calls \in [Procs -> SUBSET {"create", "title", "append", "insert", "move",
                                          "private", "readonly", "home", "delete"}]
    /\ Env \subseteq {"refile", "again"}

VARIABLES
    repo,      \* the item repositories: what is stored of each item
    next,      \* KRepNextIndex of each
    ready,     \* the repositories that have been given their first entries
    homeKey,   \* KDbHomeIdIndex
    mem,       \* each process's CBookmarkDb
    pc,        \* the call it is in
    watch,     \* its watchers: off, waiting, done (not yet run), told
    panic,     \* crashes of the code itself
    calls,     \* the calls of this session, which never change
    acts, crashes

vars == <<repo, next, ready, homeKey, mem, pc, watch, panic, calls, acts, crashes>>

Kinds == {"folder", "bookmark"}
Items == Kinds \X (1..MaxIndex)
IsFolder(i) == i[1] = "folder"
Folders == {i \in Items : IsFolder(i)}
Root == <<"folder", 0>>
None == <<"none", 0>>
Absent == [absent |-> TRUE]
Idle == [op |-> "idle", todo |-> <<>>]

(****************************** The tree in memory ***************************)

\* A database that has not been opened, or has been closed.
Closed ==
    [open |-> FALSE, init |-> FALSE, built |-> FALSE,
     status |-> [i \in Items |-> "none"], parent |-> [i \in Items |-> None],
     kids |-> [f \in Folders \cup {Root} |-> <<>>],
     new |-> {}, private |-> {}, readonly |-> {}, orphans |-> {}, props |-> {},
     gone |-> <<>>, home |-> None, homeId |-> None, dirty |-> FALSE, failed |-> FALSE]

Live(m) == {i \in Items : m.status[i] \in {"creating", "dirty", "clean"}}
Ascending(S) == SetToSortSeq(S, LAMBDA a, b : a[2] < b[2])
Descending(S) == Reverse(Ascending(S))
Position(m, i) == IF \E n \in DOMAIN m.kids[m.parent[i]] : m.kids[m.parent[i]][n] = i
                    THEN (CHOOSE n \in DOMAIN m.kids[m.parent[i]] : m.kids[m.parent[i]][n] = i) - 1
                    ELSE -1

\* The folders an item is in, directly or not.
Above(m, i) ==
    LET up[n \in 0..MaxIndex] ==
          IF n = 0 THEN {m.parent[i]}
                   ELSE up[n-1] \cup {m.parent[f] : f \in up[n-1] \cap Items}
    IN  up[MaxIndex]

SetDirty(m, i) == [m EXCEPT !.status[i] = IF @ = "clean" THEN "dirty" ELSE @]

\* The item leaves its folder, if it has one.
Detach(m, i) ==
    IF m.parent[i] = None THEN m
    ELSE [m EXCEPT !.kids[m.parent[i]] = SelectSeq(@, LAMBDA k : k # i)]

Place(m, i, f) ==
    LET d == Detach(m, i)
    IN  [d EXCEPT !.parent[i] = f, !.kids[f] = Append(@, i)]

PlaceAt(m, i, f, pos) ==
    LET d == Detach(m, i)
    IN  [d EXCEPT !.parent[i] = f, !.kids[f] = InsertAt(@, pos + 1, i)]

Writable(p, m, i) == i = Root \/ Visibility[p] = "manager" \/ i \notin m.readonly

\* Whether SetParentL lets the item into the folder.
MayMove(p, m, i, f) ==
    /\ Writable(p, m, i)
    /\ Writable(p, m, f)
    /\ IsFolder(i) /\ f # Root => f # i /\ i \notin Above(m, f)

\* A mutant: as RBkFolder::Move, it makes nothing dirty.
AppendKeepsClean(m, i, f) == Place(m, i, f)
AppendL(m, i, f) == SetDirty(Place(m, i, f), i)

\* The items after the insertion have new ranks, so they are saved as well.
InsertL(m, i, f, pos) ==
    LET d == SetDirty(PlaceAt(m, i, f, pos), i)
        moved == {d.kids[f][n] : n \in (pos + 1)..Len(d.kids[f])} \ d.orphans
    IN  [d EXCEPT !.status = [k \in Items |-> IF k \in moved /\ @[k] = "clean"
                                                THEN "dirty" ELSE @[k]]]

(********************************** Loading **********************************)

\* CheckAccessL: a process sees what its visibility lets it, and the home page.
Access(p, m, i) ==
    LET owned == repo[i].private /\ repo[i].owner = p
    IN  \/ i = m.homeId
        \/ Visibility[p] = "manager"
        \/ Visibility[p] = "public" /\ ~repo[i].private
        \/ Visibility[p] = "private" /\ owned
        \/ Visibility[p] = "all" /\ (owned \/ ~repo[i].private)

Stored == {i \in Items : repo[i] # Absent}

\* A mutant: an item whose folder is not there is left where it is.
AddItemOrLoseIt(m, i) ==
    LET f == repo[i].parent
    IN  IF f # Root /\ m.status[f] = "none" THEN m
        ELSE IF repo[i].rank < Len(m.kids[f]) THEN PlaceAt(m, i, f, repo[i].rank)
        ELSE Place(m, i, f)

\* AddItemsToFolderTreeL for one item: into its folder at its rank, or to the
\* end of the root if that folder is not there.
AddItem(m, i) ==
    LET f == repo[i].parent
    IN  IF f # Root /\ m.status[f] = "none"
          THEN [Place(m, i, Root) EXCEPT !.orphans = @ \cup {i}]
        ELSE IF IsFolder(i) /\ f # Root /\ (f = i \/ i \in Above(m, f))
          THEN [m EXCEPT !.failed = TRUE]
        ELSE IF repo[i].rank < Len(m.kids[f])
          THEN IF m.parent[i] = f /\ Position(m, i) = repo[i].rank
                 THEN m ELSE PlaceAt(m, i, f, repo[i].rank)
        ELSE Place(m, i, f)

\* LoadBookmarkListL makes an object for each; the bookmarks are put into the
\* root first.
Listed(m, S) ==
    [m EXCEPT !.status = [i \in Items |-> IF i \in S THEN "clean" ELSE @[i]],
              !.new = @ \cup {i \in S : repo[i].new},
              !.private = @ \cup {i \in S : repo[i].private},
              !.readonly = @ \cup {i \in S : repo[i].readonly},
              !.orphans = @ \cup {i \in S : repo[i].orphan}]

\* In private mode all folders are loaded, and those without a private bookmark
\* are removed again unless they are private themselves.
Superfluous(p, m) ==
    {f \in Folders : /\ m.status[f] # "none" /\ ~Access(p, m, f)
                     /\ \A b \in Live(m) \ Folders : f \notin Above(m, b)}

Unload(m, S) ==
    LET keep(T) == T \ S
    IN  [m EXCEPT !.status = [i \in Items |-> IF i \in S THEN "none" ELSE @[i]],
                  !.parent = [i \in Items |-> IF i \in S THEN None ELSE @[i]],
                  !.kids = [f \in DOMAIN @ |-> IF f \in S THEN <<>>
                                               ELSE SelectSeq(@[f], LAMBDA k : k \notin S)],
                  !.new = keep(@), !.private = keep(@), !.readonly = keep(@),
                  !.orphans = keep(@)]

\* The tree that a process with this home page identifier reads.
LoadTreeL(p, homeId) ==
    LET m0 == [Closed EXCEPT !.open = TRUE, !.init = TRUE, !.homeId = homeId]
        folders == {i \in Stored \cap Folders : Visibility[p] = "private" \/ Access(p, m0, i)}
        bookmarks == {i \in Stored \ Folders : Access(p, m0, i)}
        m1 == FoldLeft(AddItem, Listed(m0, folders), Ascending(folders))
        m2 == FoldLeft(LAMBDA m, b : Place(m, b, Root), Listed(m1, bookmarks), Ascending(bookmarks))
        m3 == FoldLeft(AddItem, m2, Ascending(bookmarks))
        extra == IF Visibility[p] = "private" THEN Superfluous(p, m3) ELSE {}
        \* A folder is deleted with the folders in it, which stay listed.
        m4 == [Unload(m3, extra) EXCEPT
                 !.failed = @ \/ \E f \in extra, g \in Folders \ extra :
                                   m3.status[g] # "none" /\ f \in Above(m3, g)]
        home == IF homeId \in bookmarks THEN homeId ELSE None
    IN  [m4 EXCEPT !.home = home, !.homeId = home, !.dirty = TRUE, !.built = TRUE]

(******************************* Notifications *******************************)

\* A change completes the requests of all others.
Notify(p) == watch' = [q \in Procs |-> IF q # p /\ watch[q] \in {"waiting", "told"}
                                         THEN "done" ELSE watch[q]]

Alive == panic = {}
Free(p) == /\ Alive /\ mem[p].open /\ pc[p] = Idle
Act == acts < MaxActs /\ acts' = acts + 1
Usable(p, call) == call \in calls[p] /\ Free(p) /\ mem[p].built /\ ~mem[p].failed
Editing(p) == /\ Act /\ UNCHANGED <<repo, next, ready, homeKey, pc, watch, panic, calls, crashes>>

(****************************** Opening and closing **************************)

\* ConstructL: the configuration is loaded and the watchers wait.  The process
\* knows whether the repositories have been given their entries.
OpenL(p) ==
    /\ Alive /\ ~mem[p].open /\ pc[p] = Idle
    /\ mem' = [mem EXCEPT ![p] = [Closed EXCEPT !.open = TRUE, !.init = "db" \in ready,
                                                !.homeId = homeKey]]
    /\ watch' = [watch EXCEPT ![p] = "waiting"]
    /\ UNCHANGED <<repo, next, ready, homeKey, pc, panic, acts, calls, crashes>>

\* Close: what has not been committed is lost.
Close(p) ==
    /\ Free(p)
    /\ mem' = [mem EXCEPT ![p] = Closed]
    /\ watch' = [watch EXCEPT ![p] = "off"]
    /\ UNCHANGED <<repo, next, ready, homeKey, pc, panic, acts, calls, crashes>>

\* The process dies in the middle of a call.
Crash(p) ==
    /\ Alive /\ pc[p] # Idle /\ crashes < MaxCrashes
    /\ crashes' = crashes + 1
    /\ mem' = [mem EXCEPT ![p] = Closed]
    /\ pc' = [pc EXCEPT ![p] = Idle]
    /\ watch' = [watch EXCEPT ![p] = "off"]
    /\ UNCHANGED <<repo, next, ready, homeKey, panic, acts, calls>>

\* The tree is loaded; what is wrong with it is found by a double deletion or a
\* pointer to a deleted folder.
Load(p, homeId) ==
    LET m == LoadTreeL(p, homeId)
    IN  /\ mem' = [mem EXCEPT ![p] = [m EXCEPT !.failed = FALSE]]
        /\ panic' = IF m.failed THEN panic \cup {"load"} ELSE panic

\* OpenRootL (ConstructTreeL): only the root, as long as there is no data.
OpenRootL(p) ==
    /\ Free(p) /\ ~mem[p].built /\ (mem[p].init \/ "db" \in ready)
    /\ Load(p, mem[p].homeId)
    /\ UNCHANGED <<repo, next, ready, homeKey, pc, watch, acts, calls, crashes>>

\* RefreshL: the configuration and the tree, whatever has been changed here.
RefreshL(p) ==
    /\ Free(p)
    /\ watch' = [watch EXCEPT ![p] = IF @ = "told" THEN "waiting" ELSE @]
    /\ IF mem[p].init \/ "db" \in ready
         THEN Load(p, homeKey)
         ELSE UNCHANGED <<mem, panic>>
    /\ UNCHANGED <<repo, next, ready, homeKey, pc, acts, calls, crashes>>

\* CBkmrkWatcher::RunL asks again before it tells the observer.
WatcherRunL(p) ==
    /\ Free(p) /\ watch[p] = "done"
    /\ watch' = [watch EXCEPT ![p] = "told"]
    /\ UNCHANGED <<repo, next, ready, homeKey, mem, pc, panic, acts, calls, crashes>>

(******************************* First entries *******************************)

\* CreateDefaultRepositoriesL, called by what writes first.
CreateDefaultRepositoriesL(p) ==
    /\ Free(p) /\ ~mem[p].init
    /\ pc' = [pc EXCEPT ![p] = [op |-> "init", todo |-> <<"db", "folder", "bookmark">>]]
    /\ UNCHANGED <<repo, next, ready, homeKey, mem, watch, panic, acts, calls, crashes>>

\* The entries of the database itself are created whether they are there or not,
\* which may fail; those of the other repositories only if they are not.
InitialiseRepL(p) ==
    LET r == Head(pc[p].todo)
        rest == Tail(pc[p].todo)
        fails == [pc EXCEPT ![p] = Idle]
    IN  /\ Alive /\ pc[p].op = "init"
        /\ \/ /\ pc' = [pc EXCEPT ![p] = IF rest = <<>> THEN Idle ELSE [@ EXCEPT !.todo = rest]]
              /\ ready' = ready \cup {r}
              /\ mem' = [mem EXCEPT ![p].init = (rest = <<>>)]
              /\ IF r \in ready THEN UNCHANGED watch ELSE Notify(p)
           \/ /\ r = "db" /\ r \in ready
              /\ pc' = fails
              /\ UNCHANGED <<ready, mem, watch>>
    /\ UNCHANGED <<repo, next, homeKey, panic, acts, calls, crashes>>

(********************************** Changes **********************************)

\* CreateFolderL, CreateBookmarkL: the item is in its folder before it has an
\* identifier; NextIndexL reads the next one ...
Create(p, kind, f) ==
    /\ Usable(p, "create") /\ Act
    /\ f = Root \/ f \in Live(mem[p])
    /\ Writable(p, mem[p], f)
    /\ kind \in ready /\ next[kind] <= MaxIndex
    /\ pc' = [pc EXCEPT ![p] = [op |-> "create", todo |-> <<<<kind, next[kind]>>, f>>]]
    /\ UNCHANGED <<repo, next, ready, homeKey, mem, watch, panic, calls, crashes>>

\* ... and then writes the one after it.
NextIndexL(p) ==
    LET i == pc[p].todo[1]
    IN  /\ Alive /\ pc[p].op = "create"
        /\ next' = [next EXCEPT ![i[1]] = i[2] + 1]
        /\ mem' = [mem EXCEPT ![p] = [Place(@, i, pc[p].todo[2]) EXCEPT !.status[i] = "creating"]]
        /\ pc' = [pc EXCEPT ![p] = Idle]
        /\ Notify(p)
        /\ UNCHANGED <<repo, ready, homeKey, panic, acts, calls, crashes>>

\* SetTitleL, SetUriL, UpdateVisited and so on: the item's contents.
SetTitleL(p, i) ==
    /\ Usable(p, "title") /\ i \in Live(mem[p]) /\ Writable(p, mem[p], i)
    /\ i \notin mem[p].new
    /\ mem' = [mem EXCEPT ![p] = SetDirty([@ EXCEPT !.new = @ \cup {i}], i)]
    /\ Editing(p)

\* RBkFolder::AppendL.
Append_(p, i, f) ==
    /\ Usable(p, "append") /\ i \in Live(mem[p]) /\ (f = Root \/ f \in Live(mem[p]))
    /\ IsFolder(i) => "refile" \in Env
    /\ MayMove(p, mem[p], i, f)
    /\ mem' = [mem EXCEPT ![p] = AppendL(@, i, f)]
    /\ Editing(p)

\* RBkFolder::InsertL at a place that exists when the item has left its own.
Insert(p, i, f, pos) ==
    /\ Usable(p, "insert") /\ i \in Live(mem[p]) /\ (f = Root \/ f \in Live(mem[p]))
    /\ IsFolder(i) /\ mem[p].parent[i] # f => "refile" \in Env
    /\ IF mem[p].parent[i] = f
         THEN Position(mem[p], i) # pos /\ pos < Len(mem[p].kids[f]) /\ Writable(p, mem[p], f)
         ELSE MayMove(p, mem[p], i, f) /\ pos <= Len(mem[p].kids[f])
    /\ mem' = [mem EXCEPT ![p] = InsertL(@, i, f, pos)]
    /\ Editing(p)

\* RBkFolder::Move, which makes nothing dirty.
Move(p, f, from, to) ==
    LET kids == mem[p].kids[f]
    IN  /\ Usable(p, "move") /\ (f = Root \/ f \in Live(mem[p]))
        /\ from # to /\ from < Len(kids) /\ to < Len(kids)
        /\ Writable(p, mem[p], f) /\ kids[from + 1] \notin mem[p].orphans
        /\ mem' = [mem EXCEPT ![p].kids[f] = InsertAt(RemoveAt(@, from + 1), to + 1, kids[from + 1])]
        /\ Editing(p)

\* SetPublicL: the owner goes into the repository at once, the flag at the
\* commit.  The home page stays public.
SetPrivateL(p, i) ==
    /\ Usable(p, "private")
    /\ mem[p].status[i] \in {"dirty", "clean"} /\ i \notin mem[p].private
    /\ Writable(p, mem[p], i) /\ i # mem[p].home
    /\ Visibility[p] \in {"all", "manager"}
    /\ repo' = [repo EXCEPT ![i] = IF @ = Absent THEN @ ELSE [@ EXCEPT !.owner = p]]
    /\ mem' = [mem EXCEPT ![p] = SetDirty([@ EXCEPT !.private = @ \cup {i}], i)]
    /\ Notify(p)
    /\ Act /\ UNCHANGED <<next, ready, homeKey, pc, panic, calls, crashes>>

SetPublicL(p, i) ==
    /\ Usable(p, "private") /\ i \in Live(mem[p]) \cap mem[p].private
    /\ Writable(p, mem[p], i)
    /\ Visibility[p] \in {"all", "manager"}
    /\ mem' = [mem EXCEPT ![p] = SetDirty([@ EXCEPT !.private = @ \ {i}], i)]
    /\ Editing(p)

\* SetWritableL(EFalse).
SetReadOnly(p, i) ==
    /\ Usable(p, "readonly") /\ i \in Live(mem[p]) \ mem[p].readonly
    /\ mem' = [mem EXCEPT ![p] = SetDirty([@ EXCEPT !.readonly = @ \cup {i}], i)]
    /\ Editing(p)

SetHomeL(p, b) ==
    /\ Usable(p, "home") /\ b \in Live(mem[p]) \ Folders /\ b # mem[p].home
    /\ mem' = [mem EXCEPT ![p].home = b, ![p].homeId = b, ![p].dirty = TRUE]
    /\ Editing(p)

(********************************** Deletion *********************************)

\* SendChildrenToFolderL: from the last child on, up to one that leaves.
SendChildrenToRoot(p, m, f) ==
    LET stuck == {n \in DOMAIN m.kids[f] : ~Writable(p, m, m.kids[f][n])}
        first == IF stuck = {} THEN 1 ELSE 1 + CHOOSE n \in stuck : \A k \in stuck : k <= n
    IN  FoldLeft(LAMBDA w, k : AppendL(w, k, Root), m,
                 Reverse(SubSeq(m.kids[f], first, Len(m.kids[f]))))

\* The order in which a folder's DeleteL deletes: its children from the last on,
\* each with what is in it, and then itself.
Deletion(m, i) ==
    LET order[n \in 0..MaxIndex, k \in Items] ==
          IF n = 0 \/ ~IsFolder(k) THEN <<k>>
          ELSE FlattenSeq([c \in DOMAIN m.kids[k] |->
                             order[n - 1, m.kids[k][Len(m.kids[k]) + 1 - c]]]) \o <<k>>
    IN  order[MaxIndex, i]

\* A mutant: the home page is not cleared.
DeleteKeepsHome(m, i) ==
    [Detach(m, i) EXCEPT !.parent[i] = None, !.status[i] = "deleted", !.gone = Append(@, i)]

\* CBookmark::DeleteL, CBookmarkFolder::DeleteL without its children.
DeleteOne(m, i) ==
    LET d == [Detach(m, i) EXCEPT !.parent[i] = None, !.status[i] = "deleted",
                                  !.gone = Append(@, i)]
    IN  IF m.home = i THEN [d EXCEPT !.home = None, !.homeId = None, !.dirty = TRUE] ELSE d

DeleteItemL(p, i, recursive) ==
    LET sends == IsFolder(i) /\ ~recursive
        m == IF sends THEN SendChildrenToRoot(p, mem[p], i) ELSE mem[p]
        leaves == sends /\ m.kids[i] # <<>>
    IN  /\ Usable(p, "delete") /\ i \in Live(mem[p])
        /\ ~IsFolder(i) => recursive
        /\ mem' = [mem EXCEPT ![p] = IF leaves THEN m ELSE FoldLeft(DeleteOne, m, Deletion(m, i))]
        /\ Editing(p)

(*********************************** Commit **********************************)

\* CommitL: the database, then folders and bookmarks from the last to the first,
\* then what has been deleted.
CommitL(p) ==
    LET m == mem[p]
        changed(S) == {i \in S : m.status[i] \in {"creating", "dirty"}}
        todo == (IF m.dirty THEN <<None>> ELSE <<>>) \o Descending(changed(Folders))
                  \o Descending(changed(Items \ Folders)) \o Reverse(m.gone)
    IN  /\ Free(p) /\ m.init /\ m.built /\ (m.failed => "again" \in Env)
        /\ todo # <<>>
        /\ IF m.failed /\ \E n \in DOMAIN m.gone : m.status[m.gone[n]] = "none"
             \* The list of the deleted has kept a NULL of the last time.
             THEN panic' = panic \cup {"null"} /\ UNCHANGED pc
             ELSE pc' = [pc EXCEPT ![p] = [op |-> "commit", todo |-> todo]] /\ UNCHANGED panic
        /\ UNCHANGED <<repo, next, ready, homeKey, mem, watch, acts, calls, crashes>>

\* What TransNewL and TransSaveL write of an item.
Entry(p, i, owner, whole) ==
    LET m == mem[p]
    IN  [parent |-> m.parent[i], rank |-> Position(m, i), new |-> i \in m.new,
         private |-> i \in m.private, readonly |-> i \in m.readonly,
         orphan |-> i \in m.orphans, owner |-> owner, whole |-> whole]

\* The item's transaction: what the repository holds after it, the ways it may go.
\* Set makes an entry that is not there, but the extended properties are written
\* only if they have been loaded; Remove needs them.
Saved(p, i) ==
    LET m == mem[p]
        was == repo[i]
        owner == IF i \in m.private THEN p ELSE "nobody"
        known == i \in m.props
    IN  CASE m.status[i] = "creating" -> IF was = Absent THEN {Entry(p, i, owner, TRUE)} ELSE {was}
          [] m.status[i] = "dirty" ->
               {IF was = Absent THEN Entry(p, i, "nobody", known)
                                ELSE Entry(p, i, was.owner, was.whole \/ known)}
          [] m.status[i] = "deleted" -> {Absent}

\* It may leave where it creates what is there or deletes what is not.
MayLeave(p, i) ==
    CASE mem[p].status[i] = "creating" -> repo[i] # Absent
      [] mem[p].status[i] = "deleted" -> ~(repo[i] # Absent /\ repo[i].whole)
      [] OTHER -> FALSE

MustLeave(p, i) == mem[p].status[i] = "deleted" /\ MayLeave(p, i) /\ i \notin mem[p].props

\* The object after its transaction: a deleted one is freed.
Committed(m, i) ==
    IF m.status[i] = "deleted"
      THEN [Unload(m, {i}) EXCEPT !.props = @ \ {i}]
      ELSE [m EXCEPT !.status[i] = "clean",
                     !.props = IF m.status[i] = "creating" THEN @ \cup {i} ELSE @]

\* One transaction of CommitL; the list of the deleted is emptied at the end.
TransactionL(p) ==
    LET i == Head(pc[p].todo)
        rest == Tail(pc[p].todo)
        done(m) == IF rest = <<>> THEN [m EXCEPT !.gone = <<>>] ELSE m
    IN  /\ Alive /\ pc[p].op = "commit" /\ i # None
        /\ \/ /\ ~MustLeave(p, i)
              /\ \E e \in Saved(p, i) : repo' = [repo EXCEPT ![i] = e]
              /\ mem' = [mem EXCEPT ![p] = done(Committed(@, i))]
              /\ pc' = [pc EXCEPT ![p] = IF rest = <<>> THEN Idle ELSE [@ EXCEPT !.todo = rest]]
              /\ Notify(p)
           \/ /\ MayLeave(p, i)
              /\ mem' = [mem EXCEPT ![p].failed = TRUE]
              /\ pc' = [pc EXCEPT ![p] = Idle]
              /\ UNCHANGED <<repo, watch>>
        /\ UNCHANGED <<next, ready, homeKey, panic, acts, calls, crashes>>

\* The database's own: the home page.
SaveHome(p) ==
    LET rest == Tail(pc[p].todo)
    IN  /\ Alive /\ pc[p].op = "commit" /\ Head(pc[p].todo) = None
        /\ homeKey' = mem[p].homeId
        /\ mem' = [mem EXCEPT ![p].dirty = FALSE]
        /\ pc' = [pc EXCEPT ![p] = IF rest = <<>> THEN Idle ELSE [@ EXCEPT !.todo = rest]]
        /\ Notify(p)
        /\ UNCHANGED <<repo, next, ready, panic, acts, calls, crashes>>

(******************************* Specification *******************************)

Init ==
    /\ \E s \in Sessions : LET start == s.start IN
         /\ calls = s.calls
         /\ repo = [i \in Items |->
              IF i \in DOMAIN start
                THEN [parent |-> start[i], rank |-> 0, new |-> FALSE, private |-> FALSE,
                      readonly |-> FALSE, orphan |-> FALSE, owner |-> "nobody", whole |-> TRUE]
                ELSE Absent]
         /\ next = [k \in Kinds |-> 1 + Cardinality({i \in DOMAIN start : i[1] = k})]
         /\ ready = IF DOMAIN start = {} THEN {} ELSE {"db", "folder", "bookmark"}
    /\ homeKey = None
    /\ mem = [p \in Procs |-> Closed]
    /\ pc = [p \in Procs |-> Idle]
    /\ watch = [p \in Procs |-> "off"]
    /\ panic = {} /\ acts = 0 /\ crashes = 0

Change(p) ==
    \/ \E f \in Folders \cup {Root} :
         \/ \E k \in Kinds : Create(p, k, f)
         \/ \E i \in Items : Append_(p, i, f)
         \/ \E i \in Items, pos \in 0..(2 * MaxIndex) : Insert(p, i, f, pos)
         \/ \E from, to \in 0..(2 * MaxIndex) : Move(p, f, from, to)
    \/ \E i \in Items :
         \/ SetTitleL(p, i) \/ SetPrivateL(p, i) \/ SetPublicL(p, i) \/ SetReadOnly(p, i)
         \/ SetHomeL(p, i)
         \/ \E r \in BOOLEAN : DeleteItemL(p, i, r)

Goes(p) == InitialiseRepL(p) \/ NextIndexL(p) \/ TransactionL(p) \/ SaveHome(p)

Next == \E p \in Procs :
    \/ OpenL(p) \/ Close(p) \/ Crash(p) \/ OpenRootL(p) \/ RefreshL(p) \/ WatcherRunL(p)
    \/ CreateDefaultRepositoriesL(p) \/ CommitL(p) \/ Goes(p) \/ Change(p)

Spec == Init /\ [][Next]_vars

(********************************* Properties ********************************)

TypeOK ==
    /\ next \in [Kinds -> 1..(MaxIndex + 1)]
    /\ ready \subseteq {"db", "folder", "bookmark"}
    /\ homeKey \in Items \cup {None}
    /\ watch \in [Procs -> {"off", "waiting", "done", "told"}]
    /\ panic \subseteq {"load", "null"}
    /\ \A i \in Items : repo[i] # Absent =>
         repo[i].parent \in Folders \cup {Root} /\ repo[i].rank \in 0..(2 * MaxIndex)
    /\ \A p \in Procs : /\ mem[p].status \in [Items -> {"none", "creating", "dirty", "clean", "deleted"}]
                        /\ mem[p].parent \in [Items -> Folders \cup {Root, None}]
                        /\ pc[p].op \in {"idle", "init", "create", "commit"}

\* No item is used after it was freed or deleted twice (KBookmarkErrOpenHandles and
\* the NULL entries of iDeletedList), and the tree in each process's memory is one:
\* whatever is listed is in exactly one place under the root, what was deleted is in
\* none, and the home page is a listed bookmark (CBookmarkFolder::AppendL, InsertL,
\* DeleteL, SendChildrenToFolderL, LoadTreeL, also when a call left half-way).
IsTree ==
    /\ TypeOK /\ panic = {}
    /\ \A p \in Procs :
         LET m == mem[p]
         IN  m.built =>
               /\ \A i \in Live(m) :
                    /\ m.parent[i] = Root \/ m.parent[i] \in Live(m)
                    /\ Cardinality({n \in DOMAIN m.kids[m.parent[i]] : m.kids[m.parent[i]][n] = i}) = 1
                    /\ Root \in Above(m, i)
               /\ \A f \in DOMAIN m.kids : \A n \in DOMAIN m.kids[f] :
                    m.kids[f][n] \in Live(m) /\ m.parent[m.kids[f][n]] = f
               /\ m.home # None => m.home \in Live(m) \ Folders /\ m.homeId = m.home

\* At every moment, also between the transactions of a CommitL that may never come
\* to its end, a process that opens the database can load it, and finds in its tree
\* everything it may see, in its folder or, if that is not there, in the root
\* (LoadTreeL, AddItemsToFolderTreeL).
Loads ==
    \A p \in Procs :
      LET m == LoadTreeL(p, homeKey)
          seen == {i \in Stored : Access(p, [Closed EXCEPT !.homeId = homeKey], i)}
      IN  /\ ~m.failed
          /\ seen \subseteq Live(m)
          /\ \A i \in seen : m.parent[i] = IF repo[i].parent \in Live(m) THEN repo[i].parent ELSE Root

\* What a process without changes of its own shows.
View(m) == [i \in Live(m) |-> <<m.parent[i], i \in m.new, i \in m.private, i \in m.readonly>>]
Quiet(m) == /\ \A i \in Items : m.status[i] \in {"none", "clean"}
            /\ m.gone = <<>> /\ ~m.failed

\* A process that has no change of its own and has not been told of another's shows
\* what is in the repository: no notification is lost while the last one is handled
\* or a call is being made (CBkmrkWatcher::RunL), what RefreshL loads replaces what
\* was there, and a commit writes all that makes the difference, also for the items
\* that it only moved or let go.
Current ==
    \A p \in Procs :
      LET m == LoadTreeL(p, homeKey)
      IN  /\ mem[p].built /\ Quiet(mem[p]) /\ pc[p] = Idle /\ watch[p] = "waiting"
            => View(mem[p]) = View(m) /\ (mem[p].dirty \/ mem[p].home = m.home)
=============================================================================
