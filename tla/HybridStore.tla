------------------------------ MODULE HybridStore ------------------------------
(***************************************************************************)
(* pkg/storage/hybrid: the append-only log store under every piece of      *)
(* persistent state of the program (entries, queue, items, repair state).  *)
(*                                                                         *)
(* One file of records, an in-memory index with a secondary index by       *)
(* category, a memo of the keys in offset order and an LRU cache, all      *)
(* under one RWMutex.  A record is a slot of log, its offset the slot's    *)
(* position.  Compaction and recovery, which work record by record, are    *)
(* modelled record by record, so that the process may die at every point.  *)
(***************************************************************************)
EXTENDS Integers, Sequences, FiniteSets, Functions

CONSTANTS
    Keys, Vals, Cats,       \* keys, payloads, non-empty category names
    NoCat, NoVal,           \* the empty category; no payload
    Junk,                   \* bytes read from the middle of something else
    Writes,                 \* the <<payload, category>> pairs callers Put
    Readers,                \* goroutines calling Get
    CacheSize,              \* Config.CacheSize
    MaxLog,                 \* bound: records in the file
    SyncMode,               \* Config.SyncInterval: "every write", "periodic", "never"
    InitLogs,               \* what a file found at startup may hold
    Versions,               \* the format versions its header may carry
    Faults,                 \* which of "torn", "swap", "old" may happen
    HeaderSize, Overhead,   \* bytes of the header, of a record without its value
    ValueSize,              \* bytes of each payload
    ThresholdPct            \* Config.CompactionThreshold, in percent

LogVersion == 3

VARIABLES
    log,        \* the records of the file the store has open
    hdr,        \* appendLog.version, the version in that file's header
    synced,     \* how many of them are known to be on disk
    named,      \* that file is the one found at Config.DataPath
    phase,      \* "down", "recover", "open", "copy" or "swap"
    scan,       \* recover: records already replayed
    index,      \* Index.entries: offset and category; offset 0 when absent
    byCategory, \* Index.byCategory
    sorted,     \* Index.sortedKeys
    dirty,      \* Index.sortedDirty
    items,      \* lruCache.items; NoVal when absent
    order,      \* lruCache.order, most recently used first
    reads,      \* Get: value read, lock given up, cache not filled yet
    due,        \* NeedsCompaction said yes, Compact has not locked yet
    comp        \* Compact: the keys left to copy, the new log and index

file == <<log, hdr, synced, named>>
idx  == <<index, byCategory, sorted, dirty>>
lru  == <<items, order>>
vars == <<log, hdr, synced, named, phase, scan, index, byCategory, sorted,
          dirty, items, order, reads, due, comp>>

-----------------------------------------------------------------------------
(* Records *)

PutRec(k, w) == [kind |-> "put",  key |-> k, val |-> w[1], cat |-> w[2], fmt |-> LogVersion]
Tombstone(k) == [kind |-> "del",  key |-> k, val |-> NoVal, cat |-> NoCat, fmt |-> LogVersion]
Torn(k)      == [kind |-> "torn", key |-> k, val |-> Junk, cat |-> NoCat, fmt |-> LogVersion]

Records == [kind : {"put", "del", "torn"}, key : Keys,
            val : Vals \cup {NoVal, Junk}, cat : Cats \cup {NoCat},
            fmt : Nat]

ASSUME StoreAssumption ==
    /\ Writes \subseteq Vals \X (Cats \cup {NoCat})
    /\ NoCat \notin Cats /\ NoVal \notin Vals \cup Keys \cup {Junk}
    /\ CacheSize \in Nat \ {0} /\ MaxLog \in Nat
    /\ Versions \subseteq 0 .. LogVersion

ASSUME InitLogsType == \A l \in InitLogs : l \in Seq(Records)

(* Files written by a store that never crashed in the middle of a record:  *)
(* a Put's record holds a payload.                                         *)
ASSUME InitLogsWhole ==
    \A l \in InitLogs : \A p \in DOMAIN l :
        /\ l[p].kind # "torn" /\ \A v \in Versions : l[p].fmt <= v
        /\ l[p].kind = "put" => l[p].val \in Vals

NoEntry    == [pos |-> 0, cat |-> NoCat]
EmptyIndex == [k \in Keys |-> NoEntry]
NoCats     == [c \in Cats |-> {}]
NoItems    == [k \in Keys |-> NoVal]
NoRead     == [key |-> NoVal, val |-> NoVal]
NoReads    == [r \in Readers |-> NoRead]
NoComp     == [todo |-> <<>>, log |-> <<>>, index |-> EmptyIndex,
               byCategory |-> NoCats]

Live(ix) == {k \in Keys : ix[k].pos # 0}

(* The record at p cannot be read back: it was torn by a crash, or the one *)
(* before it has fields the header's version does not announce, so that    *)
(* their bytes are taken for the beginning of this one.                    *)
Excess(p)     == hdr < LogVersion /\ p \in DOMAIN log /\ log[p].fmt > hdr
Unreadable(p) == (p \in DOMAIN log /\ log[p].kind = "torn") \/ Excess(p - 1)

-----------------------------------------------------------------------------
(* Index.Put, Index.Delete and the secondary index they maintain *)

AddToSecondary(bc, k, c) == [d \in Cats |-> IF d = c THEN bc[d] \cup {k} ELSE bc[d]]

RemoveFromSecondary(bc, k, c) == [d \in Cats |-> IF d = c THEN bc[d] \ {k} ELSE bc[d]]

(* A slip: the key stays listed under the category it had. *)
Reindexed_KeepsOld(bc, k, old, new) == AddToSecondary(bc, k, new)

Reindexed(bc, k, old, new) ==
    AddToSecondary(RemoveFromSecondary(bc, k, old), k, new)

(* A slip: an overwrite of a known key does not mark the memo dirty. *)
IndexPut_KeepsMemo(k, p, c) ==
    /\ index' = [index EXCEPT ![k] = [pos |-> p, cat |-> c]]
    /\ byCategory' = Reindexed(byCategory, k, index[k].cat, c)
    /\ dirty' = (dirty \/ index[k].pos = 0)
    /\ UNCHANGED sorted

IndexPut(k, p, c) ==
    /\ index' = [index EXCEPT ![k] = [pos |-> p, cat |-> c]]
    /\ byCategory' = Reindexed(byCategory, k, index[k].cat, c)
    /\ dirty' = TRUE
    /\ UNCHANGED sorted

IndexDelete(k) ==
    /\ index' = [index EXCEPT ![k] = NoEntry]
    /\ byCategory' = RemoveFromSecondary(byCategory, k, index[k].cat)
    /\ dirty' = (dirty \/ index[k].pos # 0)
    /\ UNCHANGED sorted

(* s lists the indexed keys, each once, by ascending offset. *)
InOffsetOrder(s, ix) ==
    /\ Range(s) = Live(ix)
    /\ \A i, j \in DOMAIN s : i < j => ix[s[i]].pos < ix[s[j]].pos

KeySeqs == UNION {[1 .. n -> Keys] : n \in 0 .. Cardinality(Keys)}

SortMemoUsable == ~dirty /\ Len(sorted) = Cardinality(Live(index))

(* KeysSortedByOffset returns s, rebuilding the memo unless it is clean. *)
KeysSortedByOffset(s) ==
    IF SortMemoUsable THEN s = sorted ELSE InOffsetOrder(s, index)

-----------------------------------------------------------------------------
(* lruCache *)

Without(s, k) ==
    IF k \in Range(s)
    THEN LET i == CHOOSE j \in DOMAIN s : s[j] = k
         IN  SubSeq(s, 1, i - 1) \o SubSeq(s, i + 1, Len(s))
    ELSE s

CacheGet(k) ==
    /\ order' = <<k>> \o Without(order, k)
    /\ UNCHANGED items

CacheRemove(k) ==
    /\ items' = [items EXCEPT ![k] = NoVal]
    /\ order' = Without(order, k)

CachePut(k, v) ==
    LET full == items[k] = NoVal /\ Len(order) >= CacheSize
        kept == IF full THEN SubSeq(order, 1, CacheSize - 1) ELSE order
    IN  /\ order' = <<k>> \o Without(kept, k)
        /\ items' = [j \in Keys |-> IF j = k THEN v
                                    ELSE IF j \in Range(kept) THEN items[j]
                                    ELSE NoVal]

CacheClear == items' = NoItems /\ order' = <<>>

-----------------------------------------------------------------------------
(* Sizes, as Index.TotalSize and appendLog.Size count them *)

RecordSize(r) == Overhead + (IF r.val \in Vals THEN ValueSize[r.val] ELSE 0)

LogSize  == HeaderSize + SumFunction([p \in DOMAIN log |-> RecordSize(log[p])])
LiveSize == SumFunction([k \in Live(index) |-> RecordSize(log[index[k].pos]) - Overhead])

NeedsCompaction == 100 * (LogSize - LiveSize) > ThresholdPct * LogSize

-----------------------------------------------------------------------------
(* The running store.  phase = "open" stands for s.mu being free; every    *)
(* operation is one critical section, Get's two.                           *)

Idle == phase = "open"

(* Append writes at the end of the file; without "every write" nothing is  *)
(* flushed here, and the code does not look at SyncMode either.            *)
AppendRecord(r) ==
    /\ Len(log) < MaxLog
    /\ log' = Append(log, r)
    /\ UNCHANGED <<hdr, synced, named>>

(* A slip: an overwrite leaves the cached value alone. *)
Put_KeepsCache(k, w) ==
    /\ Idle
    /\ AppendRecord(PutRec(k, w))
    /\ IndexPut(k, Len(log) + 1, w[2])
    /\ UNCHANGED <<phase, scan, lru, reads, due, comp>>

Put(k, w) ==
    /\ Idle
    /\ AppendRecord(PutRec(k, w))
    /\ IndexPut(k, Len(log) + 1, w[2])
    /\ CacheRemove(k)
    /\ UNCHANGED <<phase, scan, reads, due, comp>>

(* A slip: the tombstone is not written. *)
Delete_NoTombstone(k) ==
    /\ Idle
    /\ index[k].pos # 0
    /\ IndexDelete(k)
    /\ CacheRemove(k)
    /\ UNCHANGED <<file, phase, scan, reads, due, comp>>

Delete(k) ==
    /\ Idle
    /\ index[k].pos # 0
    /\ AppendRecord(Tombstone(k))
    /\ IndexDelete(k)
    /\ CacheRemove(k)
    /\ UNCHANGED <<phase, scan, reads, due, comp>>

GetHit(k) ==
    /\ Idle
    /\ items[k] # NoVal
    /\ CacheGet(k)
    /\ UNCHANGED <<file, phase, scan, idx, reads, due, comp>>

(* A miss reads the log under the read lock, then gives that lock up ...   *)
GetMiss(r, k) ==
    /\ Idle
    /\ reads[r] = NoRead
    /\ items[k] = NoVal
    /\ index[k].pos # 0
    /\ reads' = [reads EXCEPT ![r] = [key |-> k, val |-> log[index[k].pos].val]]
    /\ UNCHANGED <<file, phase, scan, idx, lru, due, comp>>

(* ... and puts what it read into the cache once it has the write lock.    *)
Fill(r) ==
    /\ Idle
    /\ reads[r] # NoRead
    /\ CachePut(reads[r].key, reads[r].val)
    /\ reads' = [reads EXCEPT ![r] = NoRead]
    /\ UNCHANGED <<file, phase, scan, idx, due, comp>>

(* ForEach asks for the keys in offset order before it Gets them. *)
SnapshotKeys ==
    /\ Idle
    /\ \E s \in KeySeqs : KeysSortedByOffset(s) /\ sorted' = s
    /\ dirty' = FALSE
    /\ UNCHANGED <<file, phase, scan, index, byCategory, lru, reads, due, comp>>

Sync ==
    /\ Idle
    /\ SyncMode = "periodic"
    /\ synced' = Len(log)
    /\ UNCHANGED <<log, hdr, named, phase, scan, idx, lru, reads, due, comp>>

-----------------------------------------------------------------------------
(* Compaction *)

CompactionTick ==
    /\ Idle
    /\ ~due
    /\ NeedsCompaction
    /\ due' = TRUE
    /\ UNCHANGED <<file, phase, scan, idx, lru, reads, comp>>

(* Compact, from New (a file of an older version) or from the ticker.  One  *)
(* that follows a failed rename would truncate the file in use: left out.   *)
StartCopy ==
    /\ \E s \in KeySeqs :
          /\ KeysSortedByOffset(s)
          /\ sorted' = s
          /\ comp' = [NoComp EXCEPT !.todo = s]
    /\ dirty' = FALSE
    /\ phase' = "copy"
    /\ UNCHANGED <<file, index, byCategory, lru, reads>>

Compact ==
    /\ Idle
    /\ due
    /\ named
    /\ StartCopy
    /\ due' = FALSE
    /\ UNCHANGED scan

CopyRecord ==
    /\ phase = "copy"
    /\ comp.todo # <<>>
    /\ LET k == Head(comp.todo)
           r == log[index[k].pos]
           c == index[k].cat
       IN  comp' = [todo       |-> Tail(comp.todo),
                    log        |-> Append(comp.log, PutRec(k, <<r.val, c>>)),
                    index      |-> [comp.index EXCEPT ![k] = [pos |-> Len(comp.log) + 1, cat |-> c]],
                    byCategory |-> Reindexed(comp.byCategory, k, comp.index[k].cat, c)]
    /\ UNCHANGED <<file, phase, scan, idx, lru, reads, due>>

(* Creating, writing or syncing the new file failed: it is removed. *)
CompactFails ==
    /\ phase = "copy"
    /\ hdr = LogVersion \/ "old" \in Faults
    /\ phase' = "open"
    /\ comp' = NoComp
    /\ UNCHANGED <<file, scan, idx, lru, reads, due>>

(* A slip: the new log is adopted before it is on disk. *)
AdoptFile_Unsynced ==
    log' = comp.log /\ hdr' = LogVersion /\ synced' = 0 /\ named' = FALSE

(* newLog.Sync, s.log = newLog, and os.Remove of the old file: until the   *)
(* rename nothing is stored under the name New opens.                      *)
AdoptFile ==
    log' = comp.log /\ hdr' = LogVersion /\ synced' = Len(comp.log) /\ named' = FALSE

AdoptIndex ==
    /\ index' = comp.index
    /\ byCategory' = comp.byCategory
    /\ sorted' = <<>>
    /\ dirty' = (comp.log # <<>>)

SwapLogs ==
    /\ phase = "copy"
    /\ comp.todo = <<>>
    /\ AdoptFile
    /\ AdoptIndex
    /\ CacheClear
    /\ phase' = "swap"
    /\ comp' = NoComp
    /\ UNCHANGED <<scan, reads, due>>

RenameLog ==
    /\ phase = "swap"
    /\ named' = TRUE
    /\ phase' = "open"
    /\ UNCHANGED <<log, hdr, synced, scan, idx, lru, reads, due, comp>>

(* os.Rename's error is ignored. *)
RenameFails ==
    /\ phase = "swap"
    /\ "swap" \in Faults
    /\ phase' = "open"
    /\ UNCHANGED <<file, scan, idx, lru, reads, due, comp>>

-----------------------------------------------------------------------------
(* Stopping and starting *)

Forget ==
    /\ phase' = "down"
    /\ index' = EmptyIndex
    /\ byCategory' = NoCats
    /\ sorted' = <<>>
    /\ dirty' = FALSE
    /\ CacheClear
    /\ reads' = NoReads
    /\ due' = FALSE
    /\ comp' = NoComp
    /\ scan' = 0

(* What New will find at DataPath when l is what is left of the open file. *)
LeaveFile(l) ==
    /\ log' = IF named THEN l ELSE <<>>
    /\ hdr' = IF named THEN hdr ELSE LogVersion
    /\ synced' = Len(log')
    /\ named' = TRUE

Close ==
    /\ Idle
    /\ LeaveFile(log)
    /\ Forget

(* The machine stops: what was flushed survives, and any whole prefix of   *)
(* the records after it; with "torn", part of the next record as well, or  *)
(* of the one a Put was writing.                                           *)
Crash ==
    /\ phase # "down"
    /\ named \/ "swap" \in Faults
    /\ \E n \in synced .. Len(log) :
          \/ LeaveFile(SubSeq(log, 1, n))
          \/ /\ "torn" \in Faults
             /\ \E k \in Keys :
                   /\ IF n < Len(log) THEN k = log[n + 1].key ELSE Idle /\ n < MaxLog
                   /\ LeaveFile(Append(SubSeq(log, 1, n), Torn(k)))
    /\ Forget

Open ==
    /\ phase = "down"
    /\ phase' = "recover"
    /\ UNCHANGED <<file, scan, idx, lru, reads, due, comp>>

(* recover's callback, for one record of the log. *)
Replay(r) ==
    IF r.kind = "del"
    THEN IndexDelete(r.key) /\ CacheRemove(r.key)
    ELSE IndexPut(r.key, scan + 1, r.cat) /\ UNCHANGED lru

RecoverRecord ==
    /\ phase = "recover"
    /\ scan < Len(log)
    /\ ~Unreadable(scan + 1)
    /\ Replay(log[scan + 1])
    /\ scan' = scan + 1
    /\ UNCHANGED <<file, phase, reads, due, comp>>

(* readRecordAt runs into the end of the file when a torn record is the     *)
(* last; with more bytes behind it may run into the end all the same, ...   *)
RecoverStops ==
    /\ phase = "recover"
    /\ Unreadable(scan + 1)
    /\ scan' = Len(log)
    /\ UNCHANGED <<file, phase, idx, lru, reads, due, comp>>

(* ... report an invalid key length, so that New fails, ...                 *)
RecoverFails ==
    /\ phase = "recover"
    /\ Unreadable(scan + 1)
    /\ scan + 1 < Len(log) \/ hdr < LogVersion
    /\ Forget
    /\ UNCHANGED file

(* ... or index the torn record's key with foreign bytes as its value.      *)
RecoverGarbled ==
    /\ phase = "recover"
    /\ scan + 1 < Len(log)
    /\ log[scan + 1].kind = "torn" /\ log[scan + 2].kind # "torn"
    /\ IndexPut(log[scan + 1].key, scan + 1, NoCat)
    /\ scan' = Len(log)
    /\ UNCHANGED <<file, phase, lru, reads, due, comp>>

Recovered ==
    /\ phase = "recover"
    /\ scan = Len(log)
    /\ scan' = 0

(* The log was replayed: New returns the store ... *)
Serve ==
    /\ Recovered
    /\ hdr = LogVersion \/ Live(index) = {}
    /\ phase' = "open"
    /\ UNCHANGED <<file, idx, lru, reads, due, comp>>

(* ... or rewrites the file in the current format first. *)
Upgrade ==
    /\ Recovered
    /\ hdr < LogVersion
    /\ Live(index) # {}
    /\ StartCopy
    /\ UNCHANGED due

-----------------------------------------------------------------------------

(* The records of l among the first n that decide key k: one or none, and   *)
(* the map those first n records spell out.                                *)
LastOf(l, n, k) ==
    {p \in 1 .. n : /\ l[p].key = k /\ l[p].kind # "torn"
                    /\ \A q \in p + 1 .. n : l[q].key = k => l[q].kind = "torn"}

MapAt(n) == [k \in Keys |-> IF \E p \in LastOf(log, n, k) : log[p].kind = "put"
                            THEN log[CHOOSE p \in LastOf(log, n, k) : TRUE].val
                            ELSE NoVal]

Init ==
    /\ log \in InitLogs
    /\ hdr \in Versions
    /\ hdr = LogVersion \/ "old" \in Faults \/ \E k \in Keys : MapAt(Len(log))[k] # NoVal
    /\ synced = Len(log)
    /\ named = TRUE
    /\ phase = "down"
    /\ scan = 0
    /\ index = EmptyIndex /\ byCategory = NoCats
    /\ sorted = <<>> /\ dirty = FALSE
    /\ items = NoItems /\ order = <<>>
    /\ reads = NoReads
    /\ due = FALSE
    /\ comp = NoComp

ClientWrite == \E k \in Keys : Delete(k) \/ \E w \in Writes : Put(k, w)

Read == \/ \E k \in Keys : GetHit(k) \/ \E r \in Readers : GetMiss(r, k)
        \/ \E r \in Readers : Fill(r)

Compaction == \/ CompactionTick \/ Compact \/ CopyRecord \/ CompactFails
              \/ SwapLogs \/ RenameLog \/ RenameFails

Lifecycle == \/ Close \/ Crash \/ Open \/ RecoverRecord \/ RecoverStops
             \/ RecoverFails \/ RecoverGarbled \/ Serve \/ Upgrade

Next == ClientWrite \/ Read \/ SnapshotKeys \/ Sync \/ Compaction \/ Lifecycle

Spec == Init /\ [][Next]_vars

(* The same store under callers that never write during a cache fill. *)
NoFillPending == reads = NoReads
SerialNext == (NoFillPending /\ ClientWrite) \/ Read \/ SnapshotKeys \/ Sync \/ Compaction \/ Lifecycle
SerialSpec == Init /\ [][SerialNext]_vars

-----------------------------------------------------------------------------
(* Properties *)

Entries == [pos : Nat, cat : Cats \cup {NoCat}]

FileType ==
    /\ log \in Seq(Records)
    /\ hdr \in 0 .. LogVersion
    /\ synced \in 0 .. Len(log)

FlagType == named \in BOOLEAN /\ due \in BOOLEAN /\ dirty \in BOOLEAN

RunType ==
    /\ phase \in {"down", "recover", "open", "copy", "swap"}
    /\ scan \in 0 .. Len(log) /\ (phase # "recover" => scan = 0)
    /\ sorted \in Seq(Keys)

IndexType ==
    /\ index \in [Keys -> Entries]
    /\ \A k \in Keys : index[k].pos <= Len(log)
    /\ byCategory \in [Cats -> SUBSET Keys]

CacheType ==
    /\ items \in [Keys -> Vals \cup {NoVal, Junk}]
    /\ order \in Seq(Keys)
    /\ reads \in [Readers -> {NoRead} \cup [key : Keys, val : Vals \cup {NoVal, Junk}]]

CompType ==
    /\ comp \in [todo : Seq(Keys), log : Seq(Records), index : [Keys -> Entries],
                 byCategory : [Cats -> SUBSET Keys]]
    /\ \A k \in Keys : comp.index[k].pos <= Len(comp.log)

TypeOK == FileType /\ FlagType /\ RunType /\ IndexType /\ CacheType /\ CompType

(* While the store serves, the index points at the record that decides each *)
(* key, and says what that record says: replaying the log from nothing, as  *)
(* recover does after a crash, would rebuild the index in use.              *)
Replays(l, n, ix) ==
    \A k \in Keys :
        IF ix[k].pos = 0
        THEN ix[k] = NoEntry /\ \A p \in LastOf(l, n, k) : l[p].kind = "del"
        ELSE /\ ix[k].pos \in LastOf(l, n, k)
             /\ l[ix[k].pos].kind = "put"
             /\ l[ix[k].pos].cat = ix[k].cat

Serving == phase \in {"open", "copy", "swap"}

IndexIsReplay == Serving => Replays(log, Len(log), index)

(* FilterByCategory's answer is exactly the keys whose entry carries the    *)
(* category, whatever sequence of overwrites, deletes, compactions and      *)
(* restarts led here.                                                       *)
Agrees(ix, bc) ==
    \A c \in Cats : bc[c] = {k \in Keys : ix[k].pos # 0 /\ ix[k].cat = c}

CategoriesAgree == Agrees(index, byCategory)

(* A clean sort memo lists every live key once, by offset: ForEach and      *)
(* Compact, which walk it, miss nothing and copy nothing twice.             *)
SortMemoFresh == SortMemoUsable => InOffsetOrder(sorted, index)

(* What Get returns is what the last Put wrote: a cached value is the one   *)
(* the index leads to, and no deleted key is cached.                        *)
CacheCoherent ==
    phase = "open" => \A k \in Keys : items[k] # NoVal =>
        index[k].pos # 0 /\ items[k] = log[index[k].pos].val

(* The store implements DurableMap: what it serves is the map its index     *)
(* leads to, what a crash may bring back is spelled by the log's prefixes   *)
(* down to the last flush.                                                  *)
Served == [k \in Keys |-> IF index[k].pos = 0 THEN NoVal ELSE log[index[k].pos].val]

Snapshots == [i \in 1 .. Len(log) - synced + 1 |->
                 IF i = Len(log) - synced + 1 /\ Serving
                 THEN Served ELSE MapAt(synced + i - 1)]

Durable == INSTANCE DurableMap WITH
    Absent <- NoVal, snaps <- Snapshots, up <- Serving

ImplementsDurableMap == Durable!Spec
===============================================================================
