------------------------------- MODULE EntryTree -------------------------------
(***************************************************************************)
(* pkg/manager/cache.go, entry.go, custom_folders.go, mount.go and the     *)
(* AddOrUpdate and DeleteEntry of manager.go: the directories the mounts   *)
(* and the WebDAV server show.  A group (__all__, __bad__, torrents, nzbs, *)
(* a provider, a custom folder) lists entries from the index of the store, *)
(* a folder lists the files of its item.  Listings are cached until the    *)
(* next Refresh; a listing that is not cached is computed by one goroutine *)
(* and stored after that.                                                  *)
(***************************************************************************)
EXTENDS Integers, FiniteSets

CONSTANTS
    Ids, Folders,
    FolderOf,       \* the folder of an entry
    ProtocolOf,     \* "torrent" or "nzb"
    FileNames,      \* the files of an entry: those of one folder have the same
    Debrid,         \* the debrid clients
    Custom,         \* the custom folders
    FiltersOf,      \* their filters: a kind, and the folders it holds for
    Shown,          \* the directories somebody reads
    MaxWrites,
    NoMeta, NoListing, NoOwner

Groups == {"__all__", "__bad__", "torrents", "nzbs"} \cup Debrid \cup Custom

ASSUME TreeAssumption ==
    /\ FolderOf \in [Ids -> Folders] /\ ProtocolOf \in [Ids -> {"torrent", "nzb"}]
    /\ Shown \subseteq Groups \cup Folders
    /\ MaxWrites \in Nat /\ Folders \cap Groups = {}

VARIABLES
    meta,       \* the store: provider and Bad of each entry
    owner,      \* EntryItem.Files: the entry a file is of
    removed,    \* files of the items that are flagged Deleted
    cache,      \* EntryCache.entries
    filling,    \* EntryCache.refreshing: listings computed and not yet stored
    refreshes,  \* a RefreshEntries is about to run
    writes

treeVars == <<meta, owner, removed, cache, filling, refreshes, writes>>

Places == Folders \X FileNames
Stored == {h \in Ids : meta[h] # NoMeta}

TreeInit ==
    /\ meta = [h \in Ids |-> NoMeta]
    /\ owner = [x \in Places |-> NoOwner] /\ removed = {}
    /\ cache = [g \in Shown |-> NoListing]
    /\ filling = [g \in Shown |-> NoListing]
    /\ refreshes = FALSE /\ writes = 0

Write == writes < MaxWrites /\ writes' = writes + 1

-----------------------------------------------------------------------------
(* Listings *)

ItemFiles(f)  == {n \in FileNames : owner[<<f, n>>] # NoOwner}
Named(S)      == {FolderOf[h] : h \in S}

\* matchesFilter: filters on the name of the folder and on the names of its
\* files are alternatives when both are there; all others must hold.
HoldsFor(x, f) == f \in x.holds

MatchesFilter(g, f) ==
    LET byName == {x \in FiltersOf[g] : x.kind = "regex"}
        byFile == {x \in FiltersOf[g] : x.kind = "files_regex"}
        others == FiltersOf[g] \ (byName \cup byFile)
    IN  /\ FiltersOf[g] # {}
        /\ IF byName # {} /\ byFile # {} THEN \E x \in byName \cup byFile : HoldsFor(x, f)
           ELSE \A x \in byName \cup byFile : HoldsFor(x, f)
        /\ \A x \in others : HoldsFor(x, f)

EntryChildren(g) ==
    CASE g = "__all__"  -> Named(Stored)
      [] g = "__bad__"  -> Named({h \in Stored : meta[h].bad})
      [] g = "torrents" -> Named({h \in Stored : ProtocolOf[h] = "torrent"})
      [] g = "nzbs"     -> Named({h \in Stored : ProtocolOf[h] = "nzb"})
      [] g \in Debrid   -> Named({h \in Stored : meta[h].provider = g})
      [] OTHER          -> {f \in Named({h \in Stored : ~meta[h].bad}) : MatchesFilter(g, f)}

\* Files that are flagged Deleted are listed too.
TorrentChildren(f) == ItemFiles(f)

Listing(g) == IF g \in Folders THEN TorrentChildren(g) ELSE EntryChildren(g)

-----------------------------------------------------------------------------
(* EntryCache *)

\* Get, when the listing is not cached: others that ask meanwhile wait.
RefreshEntry(g) ==
    /\ cache[g] = NoListing /\ filling[g] = NoListing
    /\ filling' = [filling EXCEPT ![g] = Listing(g)]
    /\ UNCHANGED <<meta, owner, removed, cache, refreshes, writes>>

StoreListing(g) ==
    /\ filling[g] # NoListing
    /\ cache' = [cache EXCEPT ![g] = filling[g]]
    /\ filling' = [filling EXCEPT ![g] = NoListing]
    /\ UNCHANGED <<meta, owner, removed, refreshes, writes>>

\* Mutant: the folders of the entries stay.
Dropped_Groups == {"__all__", "__bad__", "torrents", "nzbs"} \cup Custom

\* The folders of the debrids are not among those that Refresh drops.
Dropped == {"__all__", "__bad__", "torrents", "nzbs"} \cup Custom \cup Folders

Refreshed == [g \in Shown |-> IF g \in Dropped THEN NoListing ELSE cache[g]]

RefreshEntries ==
    /\ refreshes
    /\ cache' = Refreshed
    /\ refreshes' = FALSE
    /\ UNCHANGED <<meta, owner, removed, filling, writes>>

\* After each refresh of the torrents of a debrid.
ScheduledRefresh ==
    /\ cache' = Refreshed
    /\ UNCHANGED <<meta, owner, removed, filling, refreshes, writes>>

-----------------------------------------------------------------------------
(* The store changes *)

\* AddOrUpdate; the callback that refreshes the listings runs later, and some
\* callers give none.
AddOrUpdate(h) ==
    /\ Write
    /\ \E p \in Debrid \cup {"usenet"}, bad \in BOOLEAN : meta' = [meta EXCEPT ![h] = [provider |-> p, bad |-> bad]]
    /\ \E takes \in BOOLEAN :    \* a file of the same name gives way to a newer one
          LET f == FolderOf[h]
              X == {<<f, n>> : n \in {m \in FileNames : owner[<<f, m>>] = NoOwner \/ takes}}
          IN  /\ owner' = [x \in Places |-> IF x \in X THEN h ELSE owner[x]]
              /\ removed' = removed \ X
    /\ \E callback \in BOOLEAN : refreshes' = (refreshes \/ callback)
    /\ UNCHANGED <<cache, filling>>

\* DeleteEntry, with the files that are the entry's own.
Deletes(h) ==
    /\ meta' = [meta EXCEPT ![h] = NoMeta]
    /\ owner' = [x \in Places |-> IF owner[x] = h THEN NoOwner ELSE owner[x]]
    /\ refreshes' = TRUE

DeleteEntry(h) ==
    /\ Write /\ h \in Stored
    /\ Deletes(h)
    /\ removed' = {x \in removed : owner'[x] # NoOwner}
    /\ UNCHANGED <<cache, filling>>

\* RemoveTorrentFile: the last file of a folder takes its entry with it.
RemoveTorrentFile(f, n) ==
    /\ Write /\ owner[<<f, n>>] # NoOwner /\ <<f, n>> \notin removed
    /\ LET R == removed \cup {<<f, n>>}
       IN  /\ IF \A m \in ItemFiles(f) : <<f, m>> \in R
              THEN Deletes(owner[<<f, n>>])
              ELSE UNCHANGED <<meta, owner, refreshes>>
           /\ removed' = {x \in R : owner'[x] # NoOwner}
    /\ UNCHANGED <<cache, filling>>

-----------------------------------------------------------------------------
TreeNext ==
    \/ \E g \in Shown : RefreshEntry(g) \/ StoreListing(g)
    \/ RefreshEntries \/ ScheduledRefresh
    \/ \E h \in Ids : AddOrUpdate(h) \/ DeleteEntry(h)
    \/ \E f \in Folders, n \in FileNames : RemoveTorrentFile(f, n)

\* Whoever computes a listing stores it, and the refresh is scheduled again
\* and again.
TreeFairness ==
    /\ \A g \in Shown : WF_treeVars(StoreListing(g))
    /\ WF_treeVars(ScheduledRefresh)

TreeSpec     == TreeInit /\ [][TreeNext]_treeVars
FairTreeSpec == TreeSpec /\ TreeFairness

-----------------------------------------------------------------------------
TreeTypeOK ==
    /\ \A h \in Ids : meta[h] = NoMeta \/ meta[h].provider \in Debrid \cup {"usenet"}
    /\ \A x \in Places : owner[x] = NoOwner \/ FolderOf[owner[x]] = x[1]
    /\ removed \subseteq {x \in Places : owner[x] # NoOwner}
    /\ \A g \in Shown :
          \A l \in {cache[g], filling[g]} \ {NoListing} : l \subseteq (IF g \in Folders THEN FileNames ELSE Folders)
    /\ writes \in 0 .. MaxWrites

UpToDate(g) == cache[g] = NoListing \/ cache[g] = Listing(g)

\* Refresh drops the listings "to prevent stale file listings".  One that was
\* computed before a change may be stored after the Refresh that follows the
\* change; it is not shown for ever.
ListingsCatchUp == \A g \in Shown \ Debrid : <>[]UpToDate(g)

\* Refuted by TLC.  The same of the folders of the debrids.
ProviderFoldersCatchUp == \A g \in Debrid \cap Shown : <>[]UpToDate(g)

=============================================================================
