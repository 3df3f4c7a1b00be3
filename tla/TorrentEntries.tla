---------------------------- MODULE TorrentEntries ----------------------------
(***************************************************************************)
(* pkg/manager/torrent.go, switcher.go, the MoveTorrent of fixer.go, and   *)
(* pkg/storage/entry.go, types.go.  The entries of the store follow the    *)
(* torrent lists of the debrids: a refresh for each debrid fetches the     *)
(* list, goes through the store, deletes what is left without a provider,  *)
(* and writes what changed and what is new.  A switch moves one torrent to *)
(* another debrid, and the user deletes entries, meanwhile.                *)
(*                                                                         *)
(* Writing an entry is two steps, the item of its folder and then the      *)
(* entry; so is deleting one.  Everything from outside (the lists change,  *)
(* a request or a write fails, the user acts) takes one of MaxChanges.     *)
(***************************************************************************)
EXTENDS Integers, FiniteSets

CONSTANTS
    Debrids, Torrents, Names,
    FilesIn,        \* the names of the files of a torrent
    AddedOn,        \* when a torrent was added
    ListsFiles,     \* the debrids whose list has the files with their links
    Busy,           \* the debrids that have other torrents as well
    Holders,        \* the debrids that have the torrents at first
    Switches,       \* goroutines of executeMigration
    MaxChanges, MaxId,
    NoTorrent, NoPlace, NoEntry, NoFile

\* A torrent at a debrid: "downloaded" or not, all its files with a link or not.
Torrent == [id : 1 .. MaxId, done : BOOLEAN, linked : BOOLEAN]
Place   == [id : 1 .. MaxId, done : BOOLEAN]
Entry   == [placed : [Debrids -> Place \cup {NoPlace}], active : Debrids]

ASSUME TorrentAssumption ==
    /\ FilesIn \in [Torrents -> SUBSET Names] /\ AddedOn \in [Torrents -> Nat]
    /\ ListsFiles \subseteq Debrids /\ Busy \subseteq Debrids /\ Holders \subseteq Debrids
    /\ MaxChanges \in Nat /\ MaxId \in Nat \ {0}
    /\ \A h \in Torrents : FilesIn[h] # {}
    /\ NoFile \notin Torrents /\ NoTorrent \notin Torrent /\ NoPlace \notin Place /\ NoEntry \notin Entry

VARIABLES
    remote,     \* what each debrid has
    entries,    \* the store: entries by info hash
    item,       \* the item of the folder the torrents share: the owner of each file
    sync,       \* doRefreshTorrents of each debrid
    switch,     \* executeMigration
    purge,      \* RemoveTorrentPlacements under way: torrents by debrid and id
    cut,        \* DeleteEntry between the item and the entry
    dropped,    \* torrents that were taken from a debrid by others or by the user
    lastId,
    changes

torrentVars == <<remote, entries, item, sync, switch, purge, cut, dropped, lastId, changes>>

Resting  == [pc |-> "idle", list |-> [h \in Torrents |-> NoTorrent], todo |-> {},
             task |-> [h \in Torrents |-> "none"], ent |-> [h \in Torrents |-> NoEntry]]
NoSwitch == [pc |-> "idle", keep |-> FALSE]

TorrentInit ==
    /\ remote = [d \in Debrids |-> [h \in Torrents |->
                    IF d \in Holders THEN [id |-> 1, done |-> TRUE, linked |-> TRUE] ELSE NoTorrent]]
    /\ entries = [h \in Torrents |-> NoEntry]
    /\ item = [n \in Names |-> NoFile]
    /\ sync = [d \in Debrids |-> Resting]
    /\ switch = [s \in Switches |-> NoSwitch]
    /\ purge = {} /\ cut = {} /\ dropped = {}
    /\ lastId = 1 /\ changes = 0

Change == changes < MaxChanges /\ changes' = changes + 1

-----------------------------------------------------------------------------
(* An entry (storage/types.go) *)

ProvidersOf(e) == {d \in Debrids : e.placed[d] # NoPlace}
NewEntry(d)    == [placed |-> [p \in Debrids |-> NoPlace], active |-> d]
HasEntry(h)    == entries[h] # NoEntry

\* AddTorrentProvider; ActivatePlacement needs a completed placement.
AddProvider(e, d, t)    == [e EXCEPT !.placed[d] = [id |-> t.id, done |-> t.done]]
CanActivate(e, d)       == e.placed[d] # NoPlace /\ e.placed[d].done
ActivatePlacement(e, d) == IF CanActivate(e, d) THEN [e EXCEPT !.active = d] ELSE e

\* RemoveProvider and SwitchToNextProvider: with no other completed placement
\* the active provider stays the one that was removed.
RemoveProvider(e, d) ==
    LET left == [e EXCEPT !.placed[d] = NoPlace]
        next == {p \in ProvidersOf(left) : left.placed[p].done}
    IN  IF e.active = d /\ next # {} THEN {[left EXCEPT !.active = p] : p \in next} ELSE {left}

\* Mutant: only the status is compared.
NeedsUpdate_Status(p, t) == p.done # t.done
NeedsUpdate(p, t) == p.id # t.id \/ p.done # t.done

-----------------------------------------------------------------------------
(* The store (storage/entry.go) *)

\* updateEntryItem: a file of the same name gives way to a newer one.
UpdateItem(h) ==
    item' = [n \in Names |->
        IF n \in FilesIn[h] /\ (item[n] = NoFile \/ AddedOn[h] > AddedOn[item[n]]) THEN h ELSE item[n]]

\* removeFromEntryItem: the files that are the entry's own.
RemoveFromItem(h) ==
    item' = [n \in Names |-> IF item[n] = h THEN NoFile ELSE item[n]]

-----------------------------------------------------------------------------
(* The refresh of a debrid *)

rest == <<switch, purge, cut, dropped, lastId>>

\* GetTorrents; an error or an empty list ends the refresh at once.
FetchList(d) ==
    /\ sync[d].pc = "idle"
    /\ d \in Busy \/ \E h \in Torrents : remote[d][h] # NoTorrent
    /\ sync' = [sync EXCEPT ![d] = [Resting EXCEPT !.pc = "scan", !.list = remote[d], !.todo = Torrents]]
    /\ UNCHANGED <<remote, entries, item, rest, changes>>

\* detectTorrentChanges, entry by entry.
PlaceOf(h, d) == IF HasEntry(h) THEN entries[h].placed[d] ELSE NoPlace
Differs(p, t) == t # NoTorrent /\ IF p = NoPlace THEN TRUE ELSE NeedsUpdate(p, t)

Examine(d, h) ==
    LET p == PlaceOf(h, d)
        t == sync[d].list[h]
        Is(task, x) == sync' = [sync EXCEPT ![d].todo = @ \ {h}, ![d].task[h] = task, ![d].ent[h] = x]
    IN  /\ sync[d].pc = "scan" /\ h \in sync[d].todo
        /\ \/ /\ p # NoPlace /\ t = NoTorrent
              /\ \E x \in RemoveProvider(entries[h], d) :
                    IF ProvidersOf(x) = {} THEN Is("delete", NoEntry) ELSE Is("update", x)
           \/ Differs(p, t) /\ Is("new", NoEntry)
           \/ ~Differs(p, t) /\ (p = NoPlace \/ t # NoTorrent) /\ Is("none", NoEntry)
        /\ UNCHANGED <<remote, entries, item, rest, changes>>

Tasks(d, S) == {h \in Torrents : sync[d].task[h] \in S}

Scanned(d) ==
    /\ sync[d].pc = "scan" /\ sync[d].todo = {}
    /\ sync' = [sync EXCEPT ![d].pc = "delete"]
    /\ UNCHANGED <<remote, entries, item, rest, changes>>

\* handleTorrentDeletions: Storage.Delete reads the entry for the clean-up.
DeleteItem(d, h) ==
    /\ sync[d].pc = "delete" /\ sync[d].task[h] = "delete"
    /\ IF HasEntry(h) THEN RemoveFromItem(h) ELSE UNCHANGED item
    /\ sync' = [sync EXCEPT ![d].task[h] = "drop"]
    /\ UNCHANGED <<remote, entries, rest, changes>>

DeleteDrops(d, h) ==
    /\ sync[d].task[h] = "drop"
    /\ entries' = [entries EXCEPT ![h] = NoEntry]
    /\ sync' = [sync EXCEPT ![d].task[h] = "none"]
    /\ UNCHANGED <<remote, item, rest, changes>>

Deleted(d) ==
    /\ sync[d].pc = "delete" /\ Tasks(d, {"delete", "drop"}) = {}
    /\ sync' = [sync EXCEPT ![d].pc = "work"]
    /\ UNCHANGED <<remote, entries, item, rest, changes>>

\* processSyncTorrent: a list without the links is completed by a request.
\* The entry it builds is written later, in a batch.
Processed(h, d, t) ==
    LET e == AddProvider(IF HasEntry(h) THEN entries[h] ELSE NewEntry(d), d, t)
    IN  IF Cardinality(ProvidersOf(e)) = 1 THEN ActivatePlacement(e, d) ELSE e

Process(d, h) ==
    LET t == IF d \in ListsFiles /\ sync[d].list[h].linked THEN sync[d].list[h] ELSE remote[d][h]
    IN  /\ sync[d].pc = "work" /\ sync[d].task[h] = "new"
        /\ sync' = IF t # NoTorrent /\ t.linked
                   THEN [sync EXCEPT ![d].task[h] = "update", ![d].ent[h] = Processed(h, d, t)]
                   ELSE [sync EXCEPT ![d].task[h] = "none"]
        /\ UNCHANGED <<remote, entries, item, rest, changes>>

\* BatchAddOrUpdate.
UpdateWritesItem(d, h) ==
    /\ sync[d].pc = "work" /\ sync[d].task[h] = "update"
    /\ UpdateItem(h)
    /\ sync' = [sync EXCEPT ![d].task[h] = "put"]
    /\ UNCHANGED <<remote, entries, rest, changes>>

UpdatePuts(d, h) ==
    /\ sync[d].task[h] = "put"
    /\ entries' = [entries EXCEPT ![h] = sync[d].ent[h]]
    /\ sync' = [sync EXCEPT ![d].task[h] = "none", ![d].ent[h] = NoEntry]
    /\ UNCHANGED <<remote, item, rest, changes>>

\* The request of a worker fails, or the write does and ends its batch.
TaskFails(d, h) ==
    /\ Change
    /\ \/ sync[d].pc = "work" /\ sync[d].task[h] = "new"
       \/ sync[d].task[h] = "put"
    /\ sync' = [sync EXCEPT ![d].task[h] = "none", ![d].ent[h] = NoEntry]
    /\ UNCHANGED <<remote, entries, item, rest>>

Refreshed(d) ==
    /\ sync[d].pc = "work" /\ Tasks(d, {"none"}) = Torrents
    /\ sync' = [sync EXCEPT ![d] = Resting]
    /\ UNCHANGED <<remote, entries, item, rest, changes>>

-----------------------------------------------------------------------------
(* SwitchTorrent and MoveTorrent *)

\* The job works on the copy of the entry it read here.
SwitchTorrent(s, h, target) ==
    /\ Change /\ switch[s].pc = "idle"
    /\ HasEntry(h) /\ entries[h].active # target
    /\ \E keep \in BOOLEAN :
          switch' = [switch EXCEPT ![s] = [pc |-> "move", keep |-> keep, h |-> h, target |-> target,
                                           source |-> entries[h].active, e |-> entries[h]]]
    /\ UNCHANGED <<remote, entries, item, sync, purge, cut, dropped, lastId>>

Moved(s, e)  == switch' = [switch EXCEPT ![s].pc = "item", ![s].e = e]
Failed(s, e) == switch' = [switch EXCEPT ![s].pc = "giveup", ![s].e = e]

\* A completed placement at the target is activated as it is; else the magnet
\* is submitted and checked.  A torrent that is not there at once is deleted
\* again.
MoveTorrent(s) ==
    LET j == switch[s]
        e == j.e
        t == [id |-> lastId + 1, done |-> TRUE, linked |-> TRUE]
        n == ActivatePlacement(AddProvider(e, j.target, t), j.target)
    IN  /\ j.pc = "move"
        /\ \/ /\ CanActivate(e, j.target)
              /\ Moved(s, ActivatePlacement(e, j.target))
              /\ UNCHANGED <<remote, lastId, changes>>
           \/ /\ ~CanActivate(e, j.target) /\ lastId < MaxId
              /\ lastId' = lastId + 1
              /\ remote' = [remote EXCEPT ![j.target][j.h] = t]
              /\ Moved(s, n)
              /\ UNCHANGED changes
           \/ /\ ~CanActivate(e, j.target) /\ (lastId = MaxId \/ changes < MaxChanges)
              /\ Failed(s, e)
              /\ changes' = IF lastId = MaxId THEN changes ELSE changes + 1
              /\ UNCHANGED <<remote, lastId>>
        /\ UNCHANGED <<entries, item, sync, purge, cut, dropped>>

\* The deferred AddOrUpdate of MoveTorrent, after a failure too.
MoveWritesItem(s) ==
    /\ switch[s].pc \in {"item", "giveup"}
    /\ UpdateItem(switch[s].h)
    /\ switch' = [switch EXCEPT ![s].pc = IF @ = "item" THEN "put" ELSE "back"]
    /\ UNCHANGED <<remote, entries, sync, purge, cut, dropped, lastId, changes>>

MovePuts(s) ==
    /\ switch[s].pc \in {"put", "back"}
    /\ entries' = [entries EXCEPT ![switch[s].h] = switch[s].e]
    /\ switch' = [switch EXCEPT ![s] = IF @.pc = "put" THEN [@ EXCEPT !.pc = "clean"] ELSE NoSwitch]
    /\ UNCHANGED <<remote, item, sync, purge, cut, dropped, lastId, changes>>

\* RemoveFromProvider: the torrent with that id, if the debrid still has it.
RemoveRemote(d, id) ==
    remote' = [remote EXCEPT ![d] = [h \in Torrents |->
                  IF @[h] # NoTorrent /\ @[h].id = id THEN NoTorrent ELSE @[h]]]

\* executeMigration after the move: the source placement goes, with its torrent.
SwitchCleans(s) ==
    LET j == switch[s]
        p == j.e.placed[j.source]
    IN  /\ j.pc = "clean"
        /\ IF j.keep \/ p = NoPlace
           THEN switch' = [switch EXCEPT ![s].pc = "item2"] /\ UNCHANGED remote
           ELSE /\ \E x \in RemoveProvider(j.e, j.source) :
                      switch' = [switch EXCEPT ![s].pc = "item2", ![s].e = x]
                /\ RemoveRemote(j.source, p.id)
        /\ UNCHANGED <<entries, item, sync, purge, cut, dropped, lastId, changes>>

SwitchWritesItem(s) ==
    /\ switch[s].pc = "item2"
    /\ UpdateItem(switch[s].h)
    /\ switch' = [switch EXCEPT ![s].pc = "put2"]
    /\ UNCHANGED <<remote, entries, sync, purge, cut, dropped, lastId, changes>>

SwitchPuts(s) ==
    /\ switch[s].pc = "put2"
    /\ entries' = [entries EXCEPT ![switch[s].h] = switch[s].e]
    /\ switch' = [switch EXCEPT ![s] = NoSwitch]
    /\ UNCHANGED <<remote, item, sync, purge, cut, dropped, lastId, changes>>

-----------------------------------------------------------------------------
(* DeleteEntry *)

DeleteEntry(h) ==
    /\ Change
    /\ HasEntry(h) /\ h \notin cut
    /\ \E removePlacements \in BOOLEAN :
          purge' = IF removePlacements
                   THEN purge \cup {<<d, entries[h].placed[d].id>> : d \in ProvidersOf(entries[h])}
                   ELSE purge
    /\ RemoveFromItem(h)
    /\ cut' = cut \cup {h}
    /\ UNCHANGED <<remote, entries, sync, switch, dropped, lastId>>

DeleteEntryDrops(h) ==
    /\ h \in cut
    /\ entries' = [entries EXCEPT ![h] = NoEntry]
    /\ cut' = cut \ {h}
    /\ UNCHANGED <<remote, item, sync, switch, purge, dropped, lastId, changes>>

RemovePlacement(p) ==
    /\ p \in purge
    /\ RemoveRemote(p[1], p[2])
    /\ purge' = purge \ {p}
    /\ dropped' = dropped \cup {h \in Torrents : remote'[p[1]][h] # remote[p[1]][h]}
    /\ UNCHANGED <<entries, item, sync, switch, cut, lastId, changes>>

-----------------------------------------------------------------------------
(* The lists change *)

RemoteAdds(d, h) ==
    /\ Change /\ remote[d][h] = NoTorrent /\ lastId < MaxId
    /\ \E done, linked \in BOOLEAN :
          /\ done => linked
          /\ remote' = [remote EXCEPT ![d][h] = [id |-> lastId + 1, done |-> done, linked |-> linked]]
    /\ lastId' = lastId + 1
    /\ UNCHANGED <<entries, item, sync, switch, purge, cut, dropped>>

RemoteFinishes(d, h) ==
    /\ Change /\ remote[d][h] # NoTorrent /\ ~remote[d][h].done
    /\ remote' = [remote EXCEPT ![d][h].done = TRUE, ![d][h].linked = TRUE]
    /\ UNCHANGED <<entries, item, sync, rest>>

RemoteDrops(d, h) ==
    /\ Change /\ remote[d][h] # NoTorrent
    /\ remote' = [remote EXCEPT ![d][h] = NoTorrent]
    /\ dropped' = dropped \cup {h}
    /\ UNCHANGED <<entries, item, sync, switch, purge, cut, lastId>>

-----------------------------------------------------------------------------
RefreshStep(d) ==
    \/ FetchList(d) \/ Scanned(d) \/ Deleted(d) \/ Refreshed(d)
    \/ \E h \in Torrents : Examine(d, h) \/ DeleteItem(d, h) \/ DeleteDrops(d, h)
                           \/ Process(d, h) \/ UpdateWritesItem(d, h) \/ UpdatePuts(d, h)

SwitchStep(s) == \/ MoveTorrent(s) \/ MoveWritesItem(s) \/ MovePuts(s)
                 \/ SwitchCleans(s) \/ SwitchWritesItem(s) \/ SwitchPuts(s)

TorrentNext ==
    \/ \E d \in Debrids : RefreshStep(d)
    \/ \E s \in Switches : SwitchStep(s)
    \/ \E d \in Debrids, h \in Torrents :
          TaskFails(d, h) \/ RemoteAdds(d, h) \/ RemoteFinishes(d, h) \/ RemoteDrops(d, h)
    \/ \E s \in Switches, h \in Torrents, d \in Debrids : SwitchTorrent(s, h, d)
    \/ \E h \in Torrents : DeleteEntry(h) \/ DeleteEntryDrops(h)
    \/ \E p \in purge : RemovePlacement(p)

\* The refresh of every debrid is scheduled again and again; what has begun
\* goes on.
TorrentFairness ==
    /\ \A d \in Debrids : WF_torrentVars(RefreshStep(d))
    /\ \A s \in Switches : WF_torrentVars(SwitchStep(s))
    /\ \A h \in Torrents : WF_torrentVars(DeleteEntryDrops(h))
    /\ WF_torrentVars(\E p \in purge : RemovePlacement(p))

TorrentSpec     == TorrentInit /\ [][TorrentNext]_torrentVars
FairTorrentSpec == TorrentSpec /\ TorrentFairness

-----------------------------------------------------------------------------
TorrentTypeOK ==
    /\ remote \in [Debrids -> [Torrents -> Torrent \cup {NoTorrent}]]
    /\ entries \in [Torrents -> Entry \cup {NoEntry}]
    /\ item \in [Names -> Torrents \cup {NoFile}]
    /\ \A n \in Names : item[n] # NoFile => n \in FilesIn[item[n]]
    /\ \A d \in Debrids :
          /\ sync[d].pc \in {"idle", "scan", "delete", "work"}
          /\ sync[d].ent \in [Torrents -> Entry \cup {NoEntry}]
          /\ \A h \in Torrents : sync[d].task[h] = "put" => sync[d].ent[h] # NoEntry
    /\ \A s \in Switches : switch[s].pc # "idle" => switch[s].e \in Entry
    /\ purge \subseteq Debrids \X (1 .. MaxId) /\ cut \subseteq Torrents
    /\ dropped \subseteq Torrents /\ lastId \in 0 .. MaxId /\ changes \in 0 .. MaxChanges

\* The entries agree with the list of a debrid.
Agrees(d) ==
    \A h \in Torrents :
        LET t == remote[d][h]
            p == PlaceOf(h, d)
        IN  IF t = NoTorrent THEN p = NoPlace ELSE t.linked => p = [id |-> t.id, done |-> t.done]

\* Stale copies are written back by the refreshes of other debrids, by a
\* switch and by a deletion, but not for ever: each refresh finds what is
\* wrong with its own placements, so that once nothing changes any more the
\* store agrees with the list of every debrid that has any torrent (an empty
\* list is taken for an error, a torrent whose files have no links is left).
Converges ==
    \A d \in Debrids :
        <>[](\/ d \notin Busy /\ \A h \in Torrents : remote[d][h] = NoTorrent
             \/ Agrees(d))

\* Refuted by TLC.  The files of an entry are found under its folder: those not
\* taken over by a newer torrent.
Listed(h)   == \A n \in FilesIn[h] : item[n] # NoFile
ItemsFollow == \A h \in Torrents : <>[](HasEntry(h) => Listed(h))

\* A switch removes the torrent from its source only when it is at the target:
\* a torrent that has an entry, and that nobody else took away, is at some
\* debrid.
NeverLost ==
    \A h \in Torrents \ dropped : HasEntry(h) => \E d \in Debrids : remote[d][h] # NoTorrent

=============================================================================
