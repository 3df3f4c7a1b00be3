-------------------------- MODULE HybridStoreProofs --------------------------
(***************************************************************************)
(* What holds of the log store for any number of keys, readers, records    *)
(* and crashes.                                                            *)
(***************************************************************************)
EXTENDS HybridStore, SequenceTheorems, TLAPS

USE StoreAssumption DEF LogVersion

(* Taking an element out of a list of keys leaves a list of keys. *)
LEMMA WithoutType ==
    ASSUME NEW s \in Seq(Keys), NEW k
    PROVE  Without(s, k) \in Seq(Keys)
BY DEF Without, Range

LEMMA KeySeqsType == KeySeqs \subseteq Seq(Keys)
BY DEF KeySeqs

LEMMA NoEntryType == NoEntry \in Entries /\ NoEntry.pos = 0
BY DEF NoEntry, Entries

(* What a record of a log is made of. *)
LEMMA RecordAt ==
    ASSUME NEW l \in Seq(Records), NEW p \in 1 .. Len(l)
    PROVE  /\ l[p] \in Records
           /\ l[p].key \in Keys
           /\ l[p].val \in Vals \cup {NoVal, Junk}
           /\ l[p].cat \in Cats \cup {NoCat}
<1>1. l[p] \in Records
  OBVIOUS
<1> QED  BY <1>1 DEF Records

LEMMA InitType == Init => TypeOK
<1> SUFFICES ASSUME Init PROVE TypeOK
    OBVIOUS
<1>1. log \in Seq(Records) /\ Len(log) \in Nat
  BY InitLogsType DEF Init
<1>2. FileType
  BY <1>1 DEF Init, FileType
<1>3. RunType
  BY <1>1 DEF Init, RunType
<1>4. IndexType
  BY <1>1 DEF Init, IndexType, EmptyIndex, NoEntry, Entries, NoCats
<1>5. CacheType
  BY DEF Init, CacheType, NoItems, NoReads, NoRead
<1>6. CompType
  BY DEF Init, CompType, NoComp, EmptyIndex, NoEntry, Entries, NoCats
<1>7. FlagType
  BY DEF Init, FlagType
<1> QED  BY <1>2, <1>3, <1>4, <1>5, <1>6, <1>7 DEF TypeOK

(* Each part of the type invariant is preserved by the actions that touch  *)
(* the variables it speaks of, and trivially by the others.                *)
LEMMA FileTypeStep == TypeOK /\ [Next]_vars => FileType'
<1> SUFFICES ASSUME TypeOK, [Next]_vars PROVE FileType'
    OBVIOUS
<1> USE DEF TypeOK, FileType
<1>1. ASSUME NEW k \in Keys, NEW w \in Writes, Put(k, w) PROVE FileType'
  BY <1>1 DEF Put, AppendRecord, PutRec, Records
<1>2. ASSUME NEW k \in Keys, Delete(k) PROVE FileType'
  BY <1>2 DEF Delete, AppendRecord, Tombstone, Records
<1>3. CASE Sync
  BY <1>3 DEF Sync
<1>4. CASE SwapLogs
  BY <1>4 DEF SwapLogs, AdoptFile, AdoptIndex, CompType
<1>5. CASE Close
  BY <1>5 DEF Close, LeaveFile
<1>6. CASE Crash
  <2>1. PICK n \in synced .. Len(log) :
           \/ LeaveFile(SubSeq(log, 1, n))
           \/ \E k \in Keys : LeaveFile(Append(SubSeq(log, 1, n), Torn(k)))
    BY <1>6 DEF Crash
  <2>2. ASSUME NEW l \in Seq(Records), LeaveFile(l) PROVE FileType'
    BY <2>2 DEF LeaveFile
  <2>3. SubSeq(log, 1, n) \in Seq(Records)
    OBVIOUS
  <2>4. \A k \in Keys : Append(SubSeq(log, 1, n), Torn(k)) \in Seq(Records)
    BY <2>3 DEF Torn, Records
  <2> QED  BY <2>1, <2>2, <2>3, <2>4
<1>7. CASE UNCHANGED file
  BY <1>7 DEF file
<1> QED
  BY <1>1, <1>2, <1>3, <1>4, <1>5, <1>6, <1>7
     DEF Next, ClientWrite, Read, Compaction, Lifecycle, GetHit, GetMiss, Fill, SnapshotKeys,
         CompactionTick, Compact, StartCopy, CopyRecord, CompactFails, RenameLog, RenameFails,
         Open, RecoverRecord, RecoverStops, RecoverFails, RecoverGarbled, Serve, Upgrade,
         vars, file

LEMMA FlagTypeStep == TypeOK /\ [Next]_vars => FlagType'
<1> SUFFICES ASSUME TypeOK, [Next]_vars PROVE FlagType'
    OBVIOUS
<1> USE DEF TypeOK, FlagType
<1>1. named' \in BOOLEAN
  BY DEF Next, ClientWrite, Put, Delete, AppendRecord, Read, Compaction, Lifecycle, GetHit,
         GetMiss, Fill, SnapshotKeys, Sync, CompactionTick, Compact, StartCopy, CopyRecord,
         CompactFails, SwapLogs, AdoptFile, AdoptIndex, RenameLog, RenameFails, Close, Crash, LeaveFile, Open,
         RecoverRecord, RecoverStops, RecoverFails, RecoverGarbled, Serve, Upgrade, vars, file
<1>2. due' \in BOOLEAN
  BY DEF Next, ClientWrite, Put, Delete, Read, Compaction, Lifecycle, GetHit,
         GetMiss, Fill, SnapshotKeys, Sync, CompactionTick, Compact, StartCopy, CopyRecord,
         CompactFails, SwapLogs, AdoptFile, AdoptIndex, RenameLog, RenameFails, Close, Crash, Forget, Open,
         RecoverRecord, RecoverStops, RecoverFails, RecoverGarbled, Serve, Upgrade, vars
<1>3. dirty' \in BOOLEAN
  BY DEF Next, ClientWrite, Put, Delete, IndexPut, IndexDelete, Read, Compaction, Lifecycle,
         GetHit, GetMiss, Fill, SnapshotKeys, Sync, CompactionTick, Compact, StartCopy,
         CopyRecord, CompactFails, SwapLogs, AdoptFile, AdoptIndex, RenameLog, RenameFails, Close, Crash, Forget, Open,
         RecoverRecord, Replay, RecoverStops, RecoverFails, RecoverGarbled, Serve, Upgrade,
         vars, idx
<1> QED  BY <1>1, <1>2, <1>3

LEMMA RunTypeStep == TypeOK /\ [Next]_vars => RunType'
<1> SUFFICES ASSUME TypeOK, [Next]_vars PROVE RunType'
    OBVIOUS
<1>0. FileType'
  BY FileTypeStep
<1> USE DEF TypeOK, FileType, RunType
<1>1. ASSUME NEW k \in Keys, NEW w \in Writes, Put(k, w) PROVE RunType'
  BY <1>1, <1>0 DEF Put, AppendRecord, IndexPut
<1>2. ASSUME NEW k \in Keys, Delete(k) PROVE RunType'
  BY <1>2, <1>0 DEF Delete, AppendRecord, IndexDelete
<1>3. ASSUME NEW k \in Keys, GetHit(k) PROVE RunType'
  BY <1>3 DEF GetHit, file, idx
<1>4. ASSUME NEW r \in Readers, NEW k \in Keys, GetMiss(r, k) PROVE RunType'
  BY <1>4 DEF GetMiss, file, idx
<1>5. ASSUME NEW r \in Readers, Fill(r) PROVE RunType'
  BY <1>5 DEF Fill, file, idx
<1>6. CASE SnapshotKeys
  BY <1>6, KeySeqsType DEF SnapshotKeys, file
<1>7. CASE Sync \/ CompactionTick \/ CopyRecord \/ CompactFails \/ RenameLog \/ RenameFails \/ Open
  BY <1>7 DEF Sync, CompactionTick, CopyRecord, CompactFails, RenameLog, RenameFails, Open, file, idx
<1>8. CASE Compact
  <2>1. sorted' \in Seq(Keys) /\ phase = "open" /\ phase' = "copy" /\ UNCHANGED <<log, scan>>
    BY <1>8, KeySeqsType DEF Compact, StartCopy, Idle, file
  <2> QED  BY <2>1
<1>9. CASE SwapLogs
  <2>1. sorted' = <<>> /\ UNCHANGED scan /\ phase = "copy" /\ phase' = "swap"
    BY <1>9 DEF SwapLogs, AdoptFile, AdoptIndex
  <2> QED  BY <2>1, <1>0
<1>10. CASE Close \/ Crash \/ RecoverFails
  <2>1. sorted' = <<>> /\ scan' = 0 /\ phase' = "down"
    BY <1>10 DEF Close, Crash, RecoverFails, Forget
  <2> QED  BY <2>1, <1>0
<1>11. CASE RecoverRecord
  <2>1. UNCHANGED <<log, phase, sorted>>
    BY <1>11 DEF RecoverRecord, Replay, IndexPut, IndexDelete, file
  <2>2. scan' = scan + 1 /\ scan < Len(log) /\ phase = "recover"
    BY <1>11 DEF RecoverRecord
  <2> QED  BY <2>1, <2>2
<1>12. CASE RecoverStops \/ RecoverGarbled
  <2>1. UNCHANGED <<log, phase, sorted>>
    BY <1>12 DEF RecoverStops, RecoverGarbled, IndexPut, file, idx
  <2>2. scan' = Len(log) /\ phase = "recover"
    BY <1>12 DEF RecoverStops, RecoverGarbled
  <2> QED  BY <2>1, <2>2
<1>13. CASE Serve \/ Upgrade
  BY <1>13, KeySeqsType DEF Serve, Upgrade, Recovered, StartCopy, file, idx
<1>14. CASE UNCHANGED vars
  BY <1>14 DEF vars
<1> QED
  BY <1>1, <1>2, <1>3, <1>4, <1>5, <1>6, <1>7, <1>8, <1>9, <1>10, <1>11, <1>12, <1>13, <1>14
     DEF Next, ClientWrite, Read, Compaction, Lifecycle

LEMMA EmptyTypes ==
    /\ EmptyIndex \in [Keys -> Entries] /\ \A k \in Keys : EmptyIndex[k].pos = 0
    /\ NoCats \in [Cats -> SUBSET Keys]
    /\ NoItems \in [Keys -> Vals \cup {NoVal, Junk}]
    /\ NoReads \in [Readers -> {NoRead} \cup [key : Keys, val : Vals \cup {NoVal, Junk}]]
BY DEF EmptyIndex, NoEntry, Entries, NoCats, NoItems, NoReads, NoRead

LEMMA ReindexedType ==
    ASSUME NEW bc \in [Cats -> SUBSET Keys], NEW k \in Keys, NEW c, NEW d
    PROVE  /\ Reindexed(bc, k, c, d) \in [Cats -> SUBSET Keys]
           /\ RemoveFromSecondary(bc, k, c) \in [Cats -> SUBSET Keys]
BY DEF Reindexed, AddToSecondary, RemoveFromSecondary

LEMMA EntryRemoved ==
    ASSUME NEW ix \in [Keys -> Entries], NEW k \in Keys, NEW n \in Nat,
           \A j \in Keys : ix[j].pos <= n
    PROVE  /\ [ix EXCEPT ![k] = NoEntry] \in [Keys -> Entries]
           /\ \A j \in Keys : [ix EXCEPT ![k] = NoEntry][j].pos <= n
           /\ \A j \in Keys : [ix EXCEPT ![k] = NoEntry][j].pos <= n + 1
<1>1. [ix EXCEPT ![k] = NoEntry] \in [Keys -> Entries]
  BY NoEntryType
<1>2. \A j \in Keys : ix[j].pos \in Nat
  BY DEF Entries
<1> QED  BY <1>1, <1>2, NoEntryType

LEMMA IndexTypeStep == TypeOK /\ [Next]_vars => IndexType'
<1> SUFFICES ASSUME TypeOK, [Next]_vars PROVE IndexType'
    OBVIOUS
<1> USE ReindexedType DEF TypeOK, FileType, IndexType
<1>1. ASSUME NEW k \in Keys, NEW w \in Writes, Put(k, w) PROVE IndexType'
  BY <1>1 DEF Put, AppendRecord, IndexPut, Entries
<1>2. ASSUME NEW k \in Keys, Delete(k) PROVE IndexType'
  <2>1. index' = [index EXCEPT ![k] = NoEntry]
    BY <1>2 DEF Delete, IndexDelete
  <2>2. byCategory' = RemoveFromSecondary(byCategory, k, index[k].cat)
    BY <1>2 DEF Delete, IndexDelete
  <2>3. Len(log') = Len(log) + 1
    BY <1>2 DEF Delete, AppendRecord
  <2>4. index' \in [Keys -> Entries] /\ \A j \in Keys : index'[j].pos <= Len(log) + 1
    BY <2>1, EntryRemoved
  <2>5. byCategory' \in [Cats -> SUBSET Keys]
    BY <2>2
  <2> QED  BY <2>3, <2>4, <2>5
<1>3. CASE SwapLogs
  <2>1. index' = comp.index /\ byCategory' = comp.byCategory /\ log' = comp.log
    BY <1>3 DEF SwapLogs, AdoptFile, AdoptIndex
  <2> QED  BY <2>1 DEF CompType
<1>4. CASE Close \/ Crash \/ RecoverFails
  BY <1>4, EmptyTypes, FileTypeStep DEF Close, Crash, RecoverFails, Forget
<1>5. CASE RecoverRecord
  <2>1. PICK r \in Records : r = log[scan + 1] /\ scan + 1 \in 1 .. Len(log)
    BY <1>5 DEF RecoverRecord, RunType
  <2>2. r.key \in Keys /\ r.cat \in Cats \cup {NoCat}
    BY <2>1, RecordAt
  <2>3. \/ /\ index' = [index EXCEPT ![r.key] = NoEntry]
           /\ byCategory' = RemoveFromSecondary(byCategory, r.key, index[r.key].cat)
        \/ /\ index' = [index EXCEPT ![r.key] = [pos |-> scan + 1, cat |-> r.cat]]
           /\ byCategory' = Reindexed(byCategory, r.key, index[r.key].cat, r.cat)
    BY <2>1, <1>5 DEF RecoverRecord, Replay, IndexPut, IndexDelete
  <2>4. UNCHANGED log
    BY <1>5 DEF RecoverRecord, file
  <2>5. CASE index' = [index EXCEPT ![r.key] = NoEntry]
             /\ byCategory' = RemoveFromSecondary(byCategory, r.key, index[r.key].cat)
    <3>1. index' \in [Keys -> Entries] /\ \A j \in Keys : index'[j].pos <= Len(log)
      BY <2>2, <2>5, EntryRemoved
    <3>2. byCategory' \in [Cats -> SUBSET Keys]
      BY <2>2, <2>5
    <3> QED  BY <2>4, <3>1, <3>2
  <2>6. CASE index' = [index EXCEPT ![r.key] = [pos |-> scan + 1, cat |-> r.cat]]
             /\ byCategory' = Reindexed(byCategory, r.key, index[r.key].cat, r.cat)
    BY <2>1, <2>2, <2>4, <2>6 DEF Entries
  <2> QED  BY <2>3, <2>5, <2>6
<1>6. CASE RecoverGarbled
  <2>1. scan + 1 \in 1 .. Len(log)
    BY <1>6 DEF RecoverGarbled, RunType
  <2>2. PICK k \in Keys : k = log[scan + 1].key
    BY <2>1, RecordAt
  <2>3. /\ index' = [index EXCEPT ![k] = [pos |-> scan + 1, cat |-> NoCat]]
        /\ byCategory' = Reindexed(byCategory, k, index[k].cat, NoCat)
        /\ UNCHANGED log
    BY <2>2, <1>6 DEF RecoverGarbled, IndexPut, file
  <2> QED  BY <2>1, <2>3 DEF Entries
<1>7. CASE UNCHANGED <<index, byCategory, log>>
  BY <1>7
<1> QED
  BY <1>1, <1>2, <1>3, <1>4, <1>5, <1>6, <1>7
     DEF Next, ClientWrite, Read, Compaction, Lifecycle, GetHit, GetMiss, Fill, SnapshotKeys, Sync,
         CompactionTick, Compact, StartCopy, CopyRecord, CompactFails, RenameLog, RenameFails,
         Open, RecoverStops, Serve, Upgrade, vars, file, idx

LEMMA CacheTypeStep == TypeOK /\ [Next]_vars => CacheType'
<1> SUFFICES ASSUME TypeOK, [Next]_vars PROVE CacheType'
    OBVIOUS
<1> USE WithoutType DEF TypeOK, CacheType
<1>1. ASSUME NEW k \in Keys, CacheRemove(k), UNCHANGED reads PROVE CacheType'
  BY <1>1 DEF CacheRemove
<1>2. ASSUME NEW k \in Keys, GetHit(k) PROVE CacheType'
  BY <1>2 DEF GetHit, CacheGet
<1>3. ASSUME NEW r \in Readers, NEW k \in Keys, GetMiss(r, k) PROVE CacheType'
  <2>1. log[index[k].pos] \in Records
    BY <1>3 DEF GetMiss, FileType, IndexType, Entries
  <2> QED  BY <2>1, <1>3 DEF GetMiss, lru, Records
<1>4. ASSUME NEW r \in Readers, Fill(r) PROVE CacheType'
  <2>1. PICK k \in Keys, v \in Vals \cup {NoVal, Junk} : CachePut(k, v)
    BY <1>4 DEF Fill, NoRead
  <2> DEFINE kept == IF items[k] = NoVal /\ Len(order) >= CacheSize
                     THEN SubSeq(order, 1, CacheSize - 1) ELSE order
  <2>2. kept \in Seq(Keys)
    OBVIOUS
  <2>3. Without(kept, k) \in Seq(Keys)
    BY <2>2
  <2>4. order' \in Seq(Keys)
    BY <2>1, <2>3 DEF CachePut
  <2> QED  BY <1>4, <2>1, <2>4 DEF CachePut, Fill, NoRead
<1>5. CASE CacheClear /\ (UNCHANGED reads \/ reads' = NoReads)
  BY <1>5, EmptyTypes DEF CacheClear
<1>6. CASE RecoverRecord
  <2>1. log[scan + 1].key \in Keys
    BY <1>6, RecordAt DEF RecoverRecord, RunType, FileType
  <2>2. UNCHANGED reads /\ (CacheRemove(log[scan + 1].key) \/ UNCHANGED lru)
    BY <1>6 DEF RecoverRecord, Replay
  <2> QED  BY <2>1, <2>2, <1>1 DEF lru
<1>7. CASE UNCHANGED <<items, order, reads>>
  BY <1>7
<1> QED
  BY <1>1, <1>2, <1>3, <1>4, <1>5, <1>6, <1>7
     DEF Next, ClientWrite, Put, Delete, Read, SnapshotKeys, Sync, Compaction, Lifecycle, Forget,
         CompactionTick, Compact, StartCopy, CopyRecord, CompactFails, SwapLogs, AdoptFile, AdoptIndex, RenameLog,
         RenameFails, Open, Close, Crash, RecoverStops, RecoverFails, RecoverGarbled, Serve,
         Upgrade, vars, lru

(* While Compact copies: the keys still to copy are live, and every other   *)
(* key has in the new log and index what it has in the old ones.            *)
CopyOK ==
    phase = "copy" =>
        /\ \A i \in DOMAIN comp.todo : index[comp.todo[i]].pos # 0
        /\ \A k \in Keys :
              \/ \E i \in DOMAIN comp.todo : comp.todo[i] = k
              \/ index[k].pos = 0 /\ comp.index[k].pos = 0
              \/ /\ index[k].pos # 0 /\ comp.index[k].pos # 0
                 /\ comp.index[k].cat = index[k].cat
                 /\ comp.log[comp.index[k].pos].val = log[index[k].pos].val

LEMMA CompTypeStep == TypeOK /\ CopyOK /\ [Next]_vars => CompType'
<1> SUFFICES ASSUME TypeOK, CopyOK, [Next]_vars PROVE CompType'
    OBVIOUS
<1>0. CASE UNCHANGED comp
  BY <1>0 DEF TypeOK, CompType
<1>1. CASE CopyRecord
  <2>1. PICK k \in Keys : k = Head(comp.todo) /\ Tail(comp.todo) \in Seq(Keys)
    BY <1>1 DEF CopyRecord, TypeOK, CompType
  <2>2. PICK v \in Vals \cup {NoVal, Junk}, c \in Cats \cup {NoCat} :
           v = log[index[k].pos].val /\ c = index[k].cat
    <3>1. index[k].pos \in 1 .. Len(log) /\ index[k].cat \in Cats \cup {NoCat}
      BY <1>1, <2>1 DEF CopyRecord, CopyOK, TypeOK, CompType, FileType, IndexType, Entries
    <3> QED  BY <3>1, RecordAt DEF TypeOK, FileType
  <2>3. comp' = [todo       |-> Tail(comp.todo),
                 log        |-> Append(comp.log, PutRec(k, <<v, c>>)),
                 index      |-> [comp.index EXCEPT ![k] = [pos |-> Len(comp.log) + 1, cat |-> c]],
                 byCategory |-> Reindexed(comp.byCategory, k, comp.index[k].cat, c)]
    BY <1>1, <2>1, <2>2 DEF CopyRecord
  <2>4. Append(comp.log, PutRec(k, <<v, c>>)) \in Seq(Records)
    BY DEF TypeOK, CompType, PutRec, Records
  <2>5. /\ comp'.todo = Tail(comp.todo)
        /\ comp'.log = Append(comp.log, PutRec(k, <<v, c>>))
        /\ comp'.index = [comp.index EXCEPT ![k] = [pos |-> Len(comp.log) + 1, cat |-> c]]
        /\ comp'.byCategory = Reindexed(comp.byCategory, k, comp.index[k].cat, c)
    BY <2>3
  <2>6. Len(comp.log) \in Nat /\ comp'.index \in [Keys -> Entries]
    BY <2>5 DEF TypeOK, CompType, Entries
  <2>7. \A j \in Keys : comp'.index[j].pos <= Len(comp'.log)
    BY <2>4, <2>5, <2>6 DEF TypeOK, CompType, Entries
  <2>8. comp'.byCategory \in [Cats -> SUBSET Keys]
    BY <2>5, ReindexedType DEF TypeOK, CompType
  <2> QED  BY <2>1, <2>3, <2>4, <2>5, <2>6, <2>7, <2>8 DEF CompType
<1>2. CASE comp' = NoComp
  BY <1>2, EmptyTypes DEF CompType, NoComp
<1>3. CASE StartCopy
  <2>1. PICK s \in Seq(Keys) : comp' = [NoComp EXCEPT !.todo = s]
    BY <1>3, KeySeqsType DEF StartCopy
  <2>2. /\ comp' = [todo |-> s, log |-> <<>>, index |-> EmptyIndex, byCategory |-> NoCats]
    BY <2>1 DEF NoComp
  <2>3. Len(comp'.log) = 0 /\ \A k \in Keys : comp'.index[k].pos = 0
    BY <2>2, EmptyTypes
  <2> QED  BY <2>2, <2>3, EmptyTypes DEF CompType
<1> QED
  BY <1>0, <1>1, <1>2, <1>3
     DEF Next, ClientWrite, Put, Delete, Read, GetHit, GetMiss, Fill, SnapshotKeys, Sync,
         Compaction, Lifecycle, Forget, CompactionTick, Compact, CompactFails, SwapLogs, AdoptFile, AdoptIndex,
         RenameLog, RenameFails, Open, Close, Crash, RecoverRecord, RecoverStops, RecoverFails,
         RecoverGarbled, Serve, Upgrade, vars

-----------------------------------------------------------------------------
(* The sort memo *)

MemoOK == ~dirty => InOffsetOrder(sorted, index)

(* Only offsets matter to the order, so forgetting an absent key is free. *)
LEMMA OrderOfPositions ==
    ASSUME NEW s \in Seq(Keys), NEW ix, NEW iy, \A k \in Keys : ix[k].pos = iy[k].pos,
           InOffsetOrder(s, ix)
    PROVE  InOffsetOrder(s, iy)
BY DEF InOffsetOrder, Live, Range

LEMMA EmptyOrder ==
    ASSUME NEW ix, \A k \in Keys : ix[k].pos = 0
    PROVE  InOffsetOrder(<<>>, ix)
BY DEF InOffsetOrder, Live, Range

LEMMA MemoStep == TypeOK /\ MemoOK /\ [Next]_vars => MemoOK'
<1> SUFFICES ASSUME TypeOK, MemoOK, [Next]_vars, ~dirty'
             PROVE  InOffsetOrder(sorted', index')
    BY DEF MemoOK
<1> USE DEF MemoOK
<1>1. ASSUME NEW k \in Keys, NEW w \in Writes, Put(k, w) PROVE FALSE
  BY <1>1 DEF Put, IndexPut
<1>2. ASSUME NEW k \in Keys, IndexDelete(k) PROVE InOffsetOrder(sorted', index')
  <2>1. ~dirty /\ index[k].pos = 0 /\ sorted' = sorted /\ index' = [index EXCEPT ![k] = NoEntry]
    BY <1>2 DEF IndexDelete
  <2>2. \A j \in Keys : index'[j].pos = index[j].pos
    BY <2>1, NoEntryType DEF TypeOK, IndexType
  <2>3. sorted \in Seq(Keys) /\ InOffsetOrder(sorted, index)
    BY <2>1 DEF TypeOK, RunType
  <2> QED  BY <2>1, <2>2, <2>3, OrderOfPositions
<1>3. CASE SnapshotKeys \/ StartCopy
  <2>1. PICK s : KeysSortedByOffset(s) /\ sorted' = s /\ index' = index
    BY <1>3 DEF SnapshotKeys, StartCopy
  <2> QED  BY <2>1 DEF KeysSortedByOffset, SortMemoUsable
<1>4. CASE SwapLogs
  <2>1. sorted' = <<>> /\ index' = comp.index /\ comp.log = <<>>
    BY <1>4 DEF SwapLogs, AdoptFile, AdoptIndex
  <2>2. \A k \in Keys : comp.index[k].pos = 0
    BY <2>1 DEF TypeOK, CompType, Entries
  <2> QED  BY <2>1, <2>2, EmptyOrder
<1>5. CASE Forget
  BY <1>5, EmptyTypes, EmptyOrder DEF Forget
<1>6. CASE RecoverRecord
  <2>1. PICK r : r = log[scan + 1] /\ Replay(r)
    BY <1>6 DEF RecoverRecord
  <2>2. r.key \in Keys
    BY <1>6, <2>1, RecordAt DEF RecoverRecord, TypeOK, FileType, RunType
  <2> QED  BY <1>2, <2>1, <2>2 DEF Replay, IndexPut
<1>7. CASE RecoverGarbled
  BY <1>7 DEF RecoverGarbled, IndexPut
<1>8. CASE UNCHANGED <<sorted, index>> /\ dirty' = dirty
  BY <1>8
<1> QED
  BY <1>1, <1>2, <1>3, <1>4, <1>5, <1>6, <1>7, <1>8
     DEF Next, ClientWrite, Delete, Read, GetHit, GetMiss, Fill, Sync, Compaction, Lifecycle,
         CompactionTick, Compact, CopyRecord, CompactFails, RenameLog, RenameFails, Close, Crash,
         Open, RecoverStops, RecoverFails, Serve, Upgrade, vars, idx

-----------------------------------------------------------------------------
(* The secondary index *)

CategoriesOK == Agrees(index, byCategory) /\ Agrees(comp.index, comp.byCategory)

LEMMA PutAgrees ==
    ASSUME NEW ix \in [Keys -> Entries], NEW bc \in [Cats -> SUBSET Keys], Agrees(ix, bc),
           NEW k \in Keys, NEW p \in Nat \ {0}, NEW c \in Cats \cup {NoCat}
    PROVE  Agrees([ix EXCEPT ![k] = [pos |-> p, cat |-> c]], Reindexed(bc, k, ix[k].cat, c))
BY DEF Agrees, Reindexed, AddToSecondary, RemoveFromSecondary, Entries

LEMMA DeleteAgrees ==
    ASSUME NEW ix \in [Keys -> Entries], NEW bc \in [Cats -> SUBSET Keys], Agrees(ix, bc),
           NEW k \in Keys
    PROVE  Agrees([ix EXCEPT ![k] = NoEntry], RemoveFromSecondary(bc, k, ix[k].cat))
BY DEF Agrees, RemoveFromSecondary, Entries, NoEntry

LEMMA EmptyAgrees == Agrees(EmptyIndex, NoCats)
BY DEF Agrees, EmptyIndex, NoEntry, NoCats

LEMMA CategoriesStep == TypeOK /\ CopyOK /\ CategoriesOK /\ [Next]_vars => CategoriesOK'
<1> SUFFICES ASSUME TypeOK, CopyOK, CategoriesOK, [Next]_vars
             PROVE  CategoriesOK'
    OBVIOUS
<1>1. Agrees(index, byCategory)'
  <2> USE DEF CategoriesOK, TypeOK, IndexType
  <2>1. ASSUME NEW k \in Keys, NEW w \in Writes, Put(k, w) PROVE Agrees(index', byCategory')
    <3>1. Len(log) + 1 \in Nat \ {0} /\ w[2] \in Cats \cup {NoCat}
      BY DEF FileType
    <3> QED  BY <2>1, <3>1, PutAgrees DEF Put, IndexPut
  <2>2. ASSUME NEW k \in Keys, IndexDelete(k) PROVE Agrees(index', byCategory')
    BY <2>2, DeleteAgrees DEF IndexDelete
  <2>3. CASE SwapLogs
    BY <2>3 DEF SwapLogs, AdoptFile, AdoptIndex
  <2>4. CASE Forget
    BY <2>4, EmptyAgrees DEF Forget
  <2>5. CASE RecoverRecord \/ RecoverGarbled
    <3>1. PICK p \in 1 .. Len(log) : p = scan + 1
      BY <2>5 DEF RecoverRecord, RecoverGarbled, FileType, RunType
    <3>2. log[p].key \in Keys /\ log[p].cat \in Cats \cup {NoCat}
      BY RecordAt DEF FileType
    <3>3. \/ IndexDelete(log[p].key)
          \/ \E c \in Cats \cup {NoCat} : IndexPut(log[p].key, p, c)
      BY <2>5, <3>1, <3>2 DEF RecoverRecord, RecoverGarbled, Replay
    <3>4. p \in Nat \ {0}
      BY DEF FileType
    <3>5. ASSUME NEW c \in Cats \cup {NoCat}, IndexPut(log[p].key, p, c)
          PROVE  Agrees(index', byCategory')
      BY <3>2, <3>4, <3>5, PutAgrees DEF IndexPut
    <3> QED  BY <2>2, <3>2, <3>3, <3>5
  <2>6. CASE UNCHANGED <<index, byCategory>>
    BY <2>6
  <2> QED
    BY <2>1, <2>2, <2>3, <2>4, <2>5, <2>6
       DEF Next, ClientWrite, Delete, Read, GetHit, GetMiss, Fill, SnapshotKeys, Sync, Compaction,
           Lifecycle, CompactionTick, Compact, StartCopy, CopyRecord, CompactFails, RenameLog,
           RenameFails, Close, Crash, Open, RecoverStops, RecoverFails, Serve, Upgrade, vars, idx
<1>2. Agrees(comp.index, comp.byCategory)'
  <2>1. CASE CopyRecord
    <3> DEFINE k == Head(comp.todo)
    <3>1. k \in Keys /\ index[k].cat \in Cats \cup {NoCat}
      BY <2>1 DEF CopyRecord, TypeOK, CompType, IndexType, Entries
    <3>2. /\ comp'.index = [comp.index EXCEPT ![k] = [pos |-> Len(comp.log) + 1, cat |-> index[k].cat]]
          /\ comp'.byCategory = Reindexed(comp.byCategory, k, comp.index[k].cat, index[k].cat)
      BY <2>1 DEF CopyRecord
    <3>3. /\ comp.index \in [Keys -> Entries] /\ comp.byCategory \in [Cats -> SUBSET Keys]
          /\ Len(comp.log) + 1 \in Nat \ {0} /\ Agrees(comp.index, comp.byCategory)
      BY DEF TypeOK, CompType, CategoriesOK
    <3> QED  BY <3>1, <3>2, <3>3, PutAgrees
  <2>2. CASE comp' = NoComp
    BY <2>2, EmptyAgrees DEF NoComp
  <2>3. CASE StartCopy
    BY <2>3, EmptyAgrees DEF StartCopy, NoComp
  <2>4. CASE UNCHANGED comp
    BY <2>4 DEF CategoriesOK
  <2> QED
    BY <2>1, <2>2, <2>3, <2>4
       DEF Next, ClientWrite, Put, Delete, Read, GetHit, GetMiss, Fill, SnapshotKeys, Sync,
           Compaction, Lifecycle, Forget, CompactionTick, Compact, CompactFails, SwapLogs, AdoptFile, AdoptIndex,
           RenameLog, RenameFails, Open, Close, Crash, RecoverRecord, RecoverStops, RecoverFails,
           RecoverGarbled, Serve, Upgrade, vars
<1> QED  BY <1>1, <1>2 DEF CategoriesOK

-----------------------------------------------------------------------------
(* The copy that compaction makes *)

LEMMA CopyStep == TypeOK /\ MemoOK /\ CopyOK /\ [Next]_vars => CopyOK'
<1> SUFFICES ASSUME TypeOK, MemoOK, CopyOK, [Next]_vars, phase' = "copy"
             PROVE  CopyOK'
    BY DEF CopyOK
<1>1. CASE StartCopy
  <2>1. PICK s \in Seq(Keys) : /\ KeysSortedByOffset(s)
                               /\ comp' = [NoComp EXCEPT !.todo = s]
                               /\ index' = index /\ log' = log
    BY <1>1, KeySeqsType DEF StartCopy, file
  <2>2. InOffsetOrder(s, index)
    BY <2>1 DEF KeysSortedByOffset, SortMemoUsable, MemoOK
  <2>3. comp'.todo = s /\ comp'.index = EmptyIndex
    BY <2>1 DEF NoComp
  <2> QED  BY <2>1, <2>2, <2>3, EmptyTypes DEF CopyOK, InOffsetOrder, Live, Range
<1>2. CASE CopyRecord
  <2> USE DEF CopyOK
  <2>1. phase = "copy" /\ UNCHANGED <<log, index>>
    BY <1>2 DEF CopyRecord, file, idx
  <2>2. PICK k \in Keys : k = comp.todo[1] /\ k = Head(comp.todo)
    BY <1>2 DEF CopyRecord, TypeOK, CompType
  <2>3. PICK v, c : v = log[index[k].pos].val /\ c = index[k].cat
    OBVIOUS
  <2> DEFINE n == Len(comp.log) + 1
  <2>4. /\ comp'.todo = Tail(comp.todo) /\ comp.todo # <<>>
        /\ comp'.log = Append(comp.log, PutRec(k, <<v, c>>))
        /\ comp'.index = [comp.index EXCEPT ![k] = [pos |-> n, cat |-> c]]
    BY <1>2, <2>2, <2>3 DEF CopyRecord
  <2>5. index[k].pos # 0
    BY <2>1, <2>2, <1>2 DEF CopyRecord, TypeOK, CompType
  <2>6. \A i \in DOMAIN comp'.todo : i + 1 \in DOMAIN comp.todo /\ comp'.todo[i] = comp.todo[i + 1]
    BY <2>4 DEF TypeOK, CompType
  <2>7. \A i \in DOMAIN comp.todo : i = 1 \/ (i - 1 \in DOMAIN comp'.todo /\ comp'.todo[i - 1] = comp.todo[i])
    BY <2>4 DEF TypeOK, CompType
  <2>8. /\ comp'.index[k].pos = n /\ n # 0 /\ comp'.index[k].cat = c /\ comp'.log[n].val = v
    BY <2>4 DEF TypeOK, CompType, PutRec
  <2>9. ASSUME NEW j \in Keys, j # k
        PROVE  /\ comp'.index[j] = comp.index[j]
               /\ comp.index[j].pos # 0 => comp'.log[comp.index[j].pos] = comp.log[comp.index[j].pos]
    BY <2>4, <2>9 DEF TypeOK, CompType, Entries
  <2>10. \A i \in DOMAIN comp'.todo : index[comp'.todo[i]].pos # 0
    BY <2>1, <2>6
  <2>11. ASSUME NEW j \in Keys, ~\E i \in DOMAIN comp'.todo : comp'.todo[i] = j, j # k
         PROVE  \/ index[j].pos = 0 /\ comp'.index[j].pos = 0
                \/ /\ index[j].pos # 0 /\ comp'.index[j].pos # 0
                   /\ comp'.index[j].cat = index[j].cat
                   /\ comp'.log[comp'.index[j].pos].val = log[index[j].pos].val
    <3>1. ~\E i \in DOMAIN comp.todo : comp.todo[i] = j
      BY <2>2, <2>7, <2>11
    <3> QED  BY <2>1, <2>9, <2>11, <3>1
  <2> QED  BY <2>1, <2>3, <2>5, <2>8, <2>10, <2>11
<1>3. CASE UNCHANGED <<phase, comp, log, index>>
  BY <1>3 DEF CopyOK
<1> QED
  BY <1>1, <1>2, <1>3
     DEF Next, ClientWrite, Put, Delete, Read, GetHit, GetMiss, Fill, SnapshotKeys, Sync, Idle,
         Compaction, Lifecycle, Forget, CompactionTick, Compact, CompactFails, SwapLogs, AdoptFile, AdoptIndex,
         RenameLog, RenameFails, Open, Close, Crash, RecoverRecord, RecoverStops, RecoverFails,
         RecoverGarbled, Serve, Upgrade, Recovered, vars, file, idx

-----------------------------------------------------------------------------
(* The in-memory structures, whatever happens to the file *)

MemoryInv == TypeOK /\ MemoOK /\ CopyOK /\ CategoriesOK

LEMMA MemoryInit == Init => MemoryInv
<1> SUFFICES ASSUME Init PROVE MemoryInv
    OBVIOUS
<1>1. TypeOK
  BY InitType
<1>2. MemoOK
  BY EmptyTypes, EmptyOrder DEF Init, MemoOK
<1>3. CopyOK
  BY DEF Init, CopyOK
<1>4. CategoriesOK
  BY EmptyAgrees DEF Init, CategoriesOK, NoComp
<1> QED  BY <1>1, <1>2, <1>3, <1>4 DEF MemoryInv

LEMMA MemoryStep == MemoryInv /\ [Next]_vars => MemoryInv'
<1> SUFFICES ASSUME MemoryInv, [Next]_vars PROVE MemoryInv'
    OBVIOUS
<1>1. TypeOK'
  BY FileTypeStep, FlagTypeStep, RunTypeStep, IndexTypeStep, CacheTypeStep, CompTypeStep
     DEF MemoryInv, TypeOK
<1> QED  BY <1>1, MemoStep, CopyStep, CategoriesStep DEF MemoryInv

(* Every variable keeps its type, faults included. *)
THEOREM TypeCorrect == Spec => []TypeOK
<1>1. MemoryInv => TypeOK
  BY DEF MemoryInv
<1> QED  BY <1>1, MemoryInit, MemoryStep, PTL DEF Spec

(* Index.byCategory answers exactly what Index.entries says, whatever       *)
(* overwrites, deletes, compactions, crashes and damaged files led here.    *)
THEOREM CategoriesCorrect == Spec => []CategoriesAgree
<1>1. MemoryInv => CategoriesAgree
  BY DEF MemoryInv, CategoriesOK, CategoriesAgree
<1> QED  BY <1>1, MemoryInit, MemoryStep, PTL DEF Spec

(* The memo behind KeysSortedByOffset is used only when it is right. *)
THEOREM SortMemoCorrect == Spec => []SortMemoFresh
<1>1. MemoryInv => SortMemoFresh
  BY DEF MemoryInv, MemoOK, SortMemoFresh, SortMemoUsable
<1> QED  BY <1>1, MemoryInit, MemoryStep, PTL DEF Spec

-----------------------------------------------------------------------------
(* The cache, when no write happens between a Get's read and its fill *)

(* What is cached, and what is about to be, is what the index leads to;     *)
(* nothing is cached before the store is open.                              *)
CacheOK ==
    /\ \A k \in Keys : items[k] # NoVal =>
          index[k].pos # 0 /\ items[k] = log[index[k].pos].val
    /\ \A r \in Readers : reads[r] # NoRead =>
          index[reads[r].key].pos # 0 /\ reads[r].val = log[index[reads[r].key].pos].val
    /\ phase \in {"down", "recover"} => items = NoItems /\ reads = NoReads

LEMMA CacheOKEmpty == items = NoItems /\ reads = NoReads => CacheOK
BY DEF CacheOK, NoItems, NoReads

(* One more record at the end of the log moves nothing the index points at. *)
LEMMA AppendKeeps ==
    ASSUME TypeOK, NEW r, log' = Append(log, r), NEW k \in Keys, index[k].pos # 0
    PROVE  log'[index[k].pos] = log[index[k].pos]
BY DEF TypeOK, FileType, IndexType, Entries

LEMMA WriteKeepsCache ==
    ASSUME TypeOK, CacheOK, reads = NoReads, NEW r, log' = Append(log, r), NEW k \in Keys, NEW e,
           index' = [index EXCEPT ![k] = e], CacheRemove(k), UNCHANGED <<reads, phase>>,
           phase = "open"
    PROVE  CacheOK'
<1>1. reads' = NoReads
  OBVIOUS
<1>2. items' = [items EXCEPT ![k] = NoVal]
  BY DEF CacheRemove
<1>3. ASSUME NEW j \in Keys, items'[j] # NoVal
      PROVE  index'[j].pos # 0 /\ items'[j] = log'[index'[j].pos].val
  <2>1. j # k /\ items'[j] = items[j] /\ index'[j] = index[j]
    BY <1>2, <1>3 DEF TypeOK, CacheType, IndexType
  <2>2. index[j].pos # 0 /\ items[j] = log[index[j].pos].val
    BY <2>1, <1>3 DEF CacheOK
  <2>3. log'[index[j].pos] = log[index[j].pos]
    BY <2>2, AppendKeeps
  <2> QED  BY <2>1, <2>2, <2>3
<1> QED  BY <1>1, <1>3 DEF CacheOK, NoReads

LEMMA CacheStep == MemoryInv /\ CacheOK /\ [SerialNext]_vars => CacheOK'
<1> SUFFICES ASSUME MemoryInv, CacheOK, [SerialNext]_vars PROVE CacheOK'
    OBVIOUS
<1> USE DEF MemoryInv
<1>1. ASSUME NEW k \in Keys, NEW w \in Writes, NoFillPending, Put(k, w) PROVE CacheOK'
  BY <1>1, WriteKeepsCache DEF Put, AppendRecord, IndexPut, Idle, NoFillPending
<1>2. ASSUME NEW k \in Keys, NoFillPending, Delete(k) PROVE CacheOK'
  BY <1>2, WriteKeepsCache DEF Delete, AppendRecord, IndexDelete, Idle, NoFillPending
<1>3. ASSUME NEW k \in Keys, GetHit(k) PROVE CacheOK'
  BY <1>3 DEF GetHit, CacheGet, CacheOK, file, idx
<1>4. ASSUME NEW r \in Readers, NEW k \in Keys, GetMiss(r, k) PROVE CacheOK'
  BY <1>4 DEF GetMiss, CacheOK, Idle, file, idx, lru, TypeOK, CacheType
<1>5. ASSUME NEW r \in Readers, Fill(r) PROVE CacheOK'
  <2>1. reads[r] # NoRead /\ phase = "open" /\ UNCHANGED <<log, index, phase>>
    BY <1>5 DEF Fill, Idle, file, idx
  <2>2. \A j \in Keys : \/ j = reads[r].key /\ items'[j] = reads[r].val
                        \/ items'[j] \in {items[j], NoVal}
    BY <1>5 DEF Fill, CachePut
  <2>3. \A q \in Readers : reads'[q] \in {NoRead, reads[q]}
    BY <1>5 DEF Fill, TypeOK, CacheType
  <2> QED  BY <2>1, <2>2, <2>3 DEF CacheOK
<1>6. CASE SwapLogs
  <2>1. /\ phase = "copy" /\ phase' = "swap" /\ comp.todo = <<>>
        /\ log' = comp.log /\ index' = comp.index /\ items' = NoItems /\ reads' = reads
    BY <1>6 DEF SwapLogs, AdoptFile, AdoptIndex, CacheClear
  <2>2. \A r \in Readers : reads[r] # NoRead => reads[r].key \in Keys
    BY DEF TypeOK, CacheType
  <2>3. \A k \in Keys : index[k].pos # 0 =>
           comp.index[k].pos # 0 /\ comp.log[comp.index[k].pos].val = log[index[k].pos].val
    BY <2>1 DEF CopyOK
  <2> QED  BY <2>1, <2>2, <2>3 DEF CacheOK, NoItems
<1>7. CASE Forget
  BY <1>7, CacheOKEmpty DEF Forget, CacheClear, CacheOK, NoItems, NoReads
<1>8. CASE RecoverRecord \/ RecoverStops \/ RecoverGarbled \/ Open
  <2>1. items = NoItems /\ reads = NoReads /\ reads' = NoReads
    BY <1>8 DEF RecoverRecord, RecoverStops, RecoverGarbled, Open, CacheOK
  <2>2. items' = NoItems
    BY <2>1, <1>8 DEF RecoverRecord, Replay, CacheRemove, RecoverStops, RecoverGarbled, Open, lru, NoItems
  <2> QED  BY <2>1, <2>2 DEF CacheOK, NoItems, NoReads
<1>9. CASE UNCHANGED <<log, index, items, reads>> /\ phase' \notin {"down", "recover"}
  BY <1>9 DEF CacheOK
<1>10. CASE UNCHANGED vars
  BY <1>10 DEF CacheOK, vars
<1> QED
  BY <1>1, <1>2, <1>3, <1>4, <1>5, <1>6, <1>7, <1>8, <1>9, <1>10
     DEF SerialNext, Next, ClientWrite, Read, SnapshotKeys, Sync, Idle, Compaction, Lifecycle,
         CompactionTick, Compact, StartCopy, CopyRecord, CompactFails, RenameLog, RenameFails,
         Close, Crash, RecoverFails, Serve, Upgrade, file, idx, lru

(* A Get never serves a value other than the last one Put, nor a deleted    *)
(* key, provided writers keep out of the gap between a miss's read of the   *)
(* log and its fill of the cache.                                           *)
THEOREM SerialCacheCoherent == SerialSpec => []CacheCoherent
<1>1. Init => MemoryInv /\ CacheOK
  BY MemoryInit, CacheOKEmpty DEF Init
<1>2. [SerialNext]_vars => [Next]_vars
  BY DEF SerialNext, Next
<1>3. MemoryInv /\ CacheOK /\ [SerialNext]_vars => (MemoryInv /\ CacheOK)'
  BY <1>2, MemoryStep, CacheStep
<1>4. CacheOK => CacheCoherent
  BY DEF CacheOK, CacheCoherent
<1> QED  BY <1>1, <1>3, <1>4, PTL DEF SerialSpec

-----------------------------------------------------------------------------
(* The index and the log, when no record is ever damaged *)

LEMMA LastOfPrefix ==
    ASSUME NEW l, NEW m, NEW n \in Nat, \A p \in 1 .. n : l[p] = m[p], NEW k
    PROVE  LastOf(l, n, k) = LastOf(m, n, k)
BY DEF LastOf

(* A replay of n records looks at nothing behind them. *)
LEMMA ReplaysPrefix ==
    ASSUME NEW l, NEW m, NEW n \in Nat, \A p \in 1 .. n : l[p] = m[p],
           NEW ix, Replays(l, n, ix)
    PROVE  Replays(m, n, ix)
<1>1. \A k : LastOf(l, n, k) = LastOf(m, n, k)
  BY LastOfPrefix
<1>2. \A k : LastOf(m, n, k) \subseteq 1 .. n
  BY DEF LastOf
<1> QED  BY <1>1, <1>2 DEF Replays

(* One more record decides its own key and leaves the others as they were. *)
LEMMA LastOfNext ==
    ASSUME NEW l, NEW n \in Nat, NEW k \in Keys, l[n + 1].kind # "torn"
    PROVE  LastOf(l, n + 1, k) = IF l[n + 1].key = k THEN {n + 1} ELSE LastOf(l, n, k)
<1>1. CASE l[n + 1].key = k
  <2>1. n + 1 \in LastOf(l, n + 1, k)
    BY <1>1 DEF LastOf
  <2>2. ASSUME NEW p \in LastOf(l, n + 1, k), p # n + 1 PROVE FALSE
    BY <1>1, <2>2 DEF LastOf
  <2> QED  BY <1>1, <2>1, <2>2
<1>2. CASE l[n + 1].key # k
  <2>1. LastOf(l, n, k) \subseteq LastOf(l, n + 1, k)
    <3>1. SUFFICES ASSUME NEW p \in LastOf(l, n, k), NEW q \in p + 1 .. n + 1, l[q].key = k
                   PROVE  l[q].kind = "torn"
      BY DEF LastOf
    <3>2. q \in p + 1 .. n
      BY <1>2, <3>1 DEF LastOf
    <3> QED  BY <3>1, <3>2 DEF LastOf
  <2>2. LastOf(l, n + 1, k) \subseteq LastOf(l, n, k)
    BY <1>2 DEF LastOf
  <2> QED  BY <1>2, <2>1, <2>2
<1> QED  BY <1>1, <1>2

LEMMA ReplaysPut ==
    ASSUME NEW l, NEW n \in Nat, NEW ix \in [Keys -> Entries], Replays(l, n, ix),
           NEW k \in Keys, NEW c,
           l[n + 1].kind = "put", l[n + 1].key = k, l[n + 1].cat = c
    PROVE  Replays(l, n + 1, [ix EXCEPT ![k] = [pos |-> n + 1, cat |-> c]])
<1>1. \A j \in Keys : LastOf(l, n + 1, j) = IF j = k THEN {n + 1} ELSE LastOf(l, n, j)
  BY LastOfNext
<1> QED  BY <1>1 DEF Replays

LEMMA ReplaysDelete ==
    ASSUME NEW l, NEW n \in Nat, NEW ix \in [Keys -> Entries], Replays(l, n, ix),
           NEW k \in Keys, l[n + 1].kind = "del", l[n + 1].key = k
    PROVE  Replays(l, n + 1, [ix EXCEPT ![k] = NoEntry])
<1>1. \A j \in Keys : LastOf(l, n + 1, j) = IF j = k THEN {n + 1} ELSE LastOf(l, n, j)
  BY LastOfNext
<1> QED  BY <1>1, NoEntryType DEF Replays

LEMMA ReplaysNothing == \A l : Replays(l, 0, EmptyIndex)
BY DEF Replays, LastOf, EmptyIndex, NoEntry

Whole(l, v) == \A p \in DOMAIN l : l[p].kind # "torn" /\ l[p].fmt <= v

(* A file of an older version is never appended to: it holds a live entry,  *)
(* so that New compacts it before anyone is served.                         *)
OldFileOK ==
    hdr < LogVersion =>
        /\ phase \in {"down", "recover", "copy"}
        /\ synced = Len(log)
        /\ named
        /\ \E k \in Keys : \E p \in LastOf(log, Len(log), k) : log[p].kind = "put"

ReplayOK ==
    /\ Whole(log, hdr) /\ Whole(comp.log, LogVersion)
    /\ phase = "down" => index = EmptyIndex
    /\ phase = "recover" => Replays(log, scan, index)
    /\ Serving => Replays(log, Len(log), index)
    /\ phase = "copy" => Replays(comp.log, Len(comp.log), comp.index)

NoDamage == "torn" \notin Faults /\ "old" \notin Faults

LEMMA WholeStep ==
    NoDamage /\ MemoryInv /\ OldFileOK /\ ReplayOK /\ [Next]_vars
        => Whole(log', hdr') /\ Whole(comp'.log, LogVersion)
<1> SUFFICES ASSUME NoDamage, MemoryInv, OldFileOK, ReplayOK, [Next]_vars
             PROVE  Whole(log', hdr') /\ Whole(comp'.log, LogVersion)
    OBVIOUS
<1> USE DEF ReplayOK, MemoryInv, TypeOK
<1>1. Whole(log', hdr')
  <2>1. ASSUME NEW k \in Keys, NEW w \in Writes, Put(k, w) PROVE Whole(log', hdr')
    BY <2>1 DEF Put, AppendRecord, PutRec, Whole, OldFileOK, Idle, FileType
  <2>2. ASSUME NEW k \in Keys, Delete(k) PROVE Whole(log', hdr')
    BY <2>2 DEF Delete, AppendRecord, Tombstone, Whole, OldFileOK, Idle, FileType
  <2>3. CASE SwapLogs
    BY <2>3 DEF SwapLogs, AdoptFile, AdoptIndex
  <2>4. CASE Close
    BY <2>4 DEF Close, LeaveFile, Whole
  <2>5. CASE Crash
    <3>1. PICK n \in synced .. Len(log) : LeaveFile(SubSeq(log, 1, n))
      BY <2>5 DEF Crash, NoDamage
    <3>2. \A p \in DOMAIN SubSeq(log, 1, n) : p \in DOMAIN log /\ SubSeq(log, 1, n)[p] = log[p]
      BY DEF FileType
    <3> QED  BY <3>1, <3>2 DEF LeaveFile, Whole
  <2>6. CASE UNCHANGED <<log, hdr>>
    BY <2>6
  <2> QED
    BY <2>1, <2>2, <2>3, <2>4, <2>5, <2>6
       DEF Next, ClientWrite, Read, GetHit, GetMiss, Fill, SnapshotKeys, Sync, Compaction,
           Lifecycle, CompactionTick, Compact, StartCopy, CopyRecord, CompactFails, RenameLog,
           RenameFails, Open, RecoverRecord, RecoverStops, RecoverFails, RecoverGarbled, Serve,
           Upgrade, vars, file
<1>2. Whole(comp'.log, LogVersion)
  <2>1. CASE CopyRecord
    <3>1. PICK k, w : comp'.log = Append(comp.log, PutRec(k, w))
      BY <2>1 DEF CopyRecord
    <3> QED  BY <3>1 DEF Whole, PutRec, CompType
  <2>2. CASE comp'.log = <<>>
    BY <2>2 DEF Whole
  <2>3. CASE UNCHANGED comp
    BY <2>3
  <2> QED
    BY <2>1, <2>2, <2>3
       DEF Next, ClientWrite, Put, Delete, Read, GetHit, GetMiss, Fill, SnapshotKeys, Sync, NoComp,
           Compaction, Lifecycle, Forget, CompactionTick, Compact, StartCopy, CompactFails,
           SwapLogs, AdoptFile, AdoptIndex, RenameLog, RenameFails, Open, Close, Crash, RecoverRecord, RecoverStops,
           RecoverFails, RecoverGarbled, Serve, Upgrade, vars
<1> QED  BY <1>1, <1>2

LEMMA OldFileStep ==
    NoDamage /\ MemoryInv /\ OldFileOK /\ ReplayOK /\ [Next]_vars => OldFileOK'
<1> SUFFICES ASSUME NoDamage, MemoryInv, OldFileOK, ReplayOK, [Next]_vars, hdr' < LogVersion
             PROVE  /\ phase' \in {"down", "recover", "copy"}
                    /\ synced' = Len(log')
                    /\ named'
                    /\ \E k \in Keys : \E p \in LastOf(log', Len(log'), k) : log'[p].kind = "put"
    BY DEF OldFileOK
<1>1. hdr < LogVersion /\ hdr' = hdr /\ named
  BY DEF Next, ClientWrite, Put, Delete, AppendRecord, Read, GetHit, GetMiss, Fill, SnapshotKeys,
         Sync, Compaction, Lifecycle, CompactionTick, Compact, StartCopy, CopyRecord, CompactFails,
         SwapLogs, AdoptFile, AdoptIndex, RenameLog, RenameFails, Close, Crash, LeaveFile, Open, RecoverRecord,
         RecoverStops, RecoverFails, RecoverGarbled, Serve, Upgrade, vars, file, OldFileOK, Idle
<1>2. phase # "open" /\ phase # "swap" /\ synced = Len(log)
  BY <1>1 DEF OldFileOK
<1>3. log' = log /\ synced' = synced /\ named' = named
  <2>1. CASE Crash
    <3>1. PICK n \in synced .. Len(log) : LeaveFile(SubSeq(log, 1, n))
      BY <2>1 DEF Crash, NoDamage
    <3>2. n = Len(log) /\ SubSeq(log, 1, n) = log
      BY <1>2 DEF MemoryInv, TypeOK, FileType
    <3> QED  BY <1>1, <1>2, <3>1, <3>2 DEF LeaveFile, MemoryInv, TypeOK, FlagType
  <2>2. ~SwapLogs
    BY <1>1 DEF SwapLogs, AdoptFile, AdoptIndex
  <2>3. CASE UNCHANGED vars
    BY <2>3 DEF vars
  <2>4. CASE ~Crash /\ Next
    <3>1. UNCHANGED file
      BY <1>2, <2>2, <2>4
         DEF Next, ClientWrite, Put, Delete, Read, GetHit, GetMiss, Fill, SnapshotKeys, Sync, Idle,
             Compaction, Lifecycle, CompactionTick, Compact, StartCopy, CopyRecord, CompactFails,
             RenameLog, RenameFails, Close, Open, RecoverRecord, RecoverStops,
             RecoverFails, RecoverGarbled, Serve, Upgrade
    <3> QED  BY <3>1 DEF file
  <2> QED  BY <2>1, <2>3, <2>4
<1>4. phase' \in {"down", "recover", "copy"}
  <2>1. CASE Serve
    <3>1. Live(index) = {} /\ Replays(log, Len(log), index)
      BY <1>1, <2>1 DEF Serve, Recovered, ReplayOK
    <3>2. PICK k \in Keys : \E p \in LastOf(log, Len(log), k) : log[p].kind = "put"
      BY <1>1 DEF OldFileOK
    <3> QED  BY <3>1, <3>2 DEF Replays, Live
  <2>2. ~CompactFails /\ ~SwapLogs
    BY <1>1 DEF CompactFails, SwapLogs, AdoptFile, AdoptIndex, NoDamage
  <2>3. CASE UNCHANGED phase
    BY <1>1, <2>3 DEF OldFileOK
  <2>4. CASE ~Serve /\ Next
    BY <1>2, <2>2, <2>3, <2>4
       DEF Next, ClientWrite, Put, Delete, Read, GetHit, GetMiss, Fill, SnapshotKeys, Sync, Idle,
           Compaction, Lifecycle, CompactionTick, Compact, StartCopy, CopyRecord,
           RenameLog, RenameFails, Close, Crash, Forget, Open, RecoverRecord,
           RecoverStops, RecoverFails, RecoverGarbled, Upgrade
  <2> QED  BY <2>1, <2>3, <2>4 DEF vars
<1> QED  BY <1>1, <1>2, <1>3, <1>4 DEF OldFileOK

LEMMA ReplayStep ==
    NoDamage /\ MemoryInv /\ OldFileOK /\ ReplayOK /\ [Next]_vars => ReplayOK'
<1> SUFFICES ASSUME NoDamage, MemoryInv, OldFileOK, ReplayOK, [Next]_vars
             PROVE  ReplayOK'
    OBVIOUS
<1> USE DEF MemoryInv, TypeOK
<1>1. Whole(log, hdr)' /\ Whole(comp.log, LogVersion)'
  BY WholeStep
<1>2. phase' = "down" => index' = EmptyIndex
  BY DEF ReplayOK, Next, ClientWrite, Put, Delete, Read, GetHit, GetMiss, Fill, SnapshotKeys, Sync,
         Compaction, Lifecycle, CompactionTick, Compact, StartCopy, CopyRecord, CompactFails, Idle,
         SwapLogs, AdoptFile, AdoptIndex, RenameLog, RenameFails, Close, Crash, Forget, Open, RecoverRecord,
         RecoverStops, RecoverFails, RecoverGarbled, Serve, Upgrade, vars, idx
<1>3. phase = "recover" => ~Unreadable(scan + 1)
  <2>1. \A p \in DOMAIN log : log[p].kind # "torn" /\ log[p].fmt <= hdr /\ log[p].fmt \in Nat
    <3>1. \A p \in DOMAIN log : log[p] \in Records
      BY DEF FileType
    <3> QED  BY <3>1 DEF ReplayOK, Whole, Records
  <2>2. hdr \in Nat
    BY DEF FileType
  <2> QED  BY <2>1, <2>2 DEF Unreadable, Excess
<1>4. ASSUME phase' = "recover" PROVE Replays(log', scan', index')
  <2>1. CASE Open
    BY <2>1, ReplaysNothing DEF Open, ReplayOK, RunType, file, idx
  <2>2. CASE RecoverRecord
    <3>1. scan + 1 \in 1 .. Len(log) /\ scan \in Nat /\ phase = "recover" /\ log' = log /\ scan' = scan + 1
      BY <2>2 DEF RecoverRecord, RunType, FileType, file
    <3>2. log[scan + 1].key \in Keys /\ log[scan + 1].kind \in {"put", "del"}
      <4>1. log[scan + 1] \in Records /\ log[scan + 1].kind # "torn"
        BY <3>1, RecordAt DEF ReplayOK, Whole, FileType
      <4> QED  BY <4>1 DEF Records
    <3>3. Replays(log, scan, index) /\ index \in [Keys -> Entries]
      BY <3>1 DEF ReplayOK, IndexType
    <3>4. CASE log[scan + 1].kind = "put"
      <4>1. index' = [index EXCEPT ![log[scan + 1].key] = [pos |-> scan + 1, cat |-> log[scan + 1].cat]]
        BY <2>2, <3>4 DEF RecoverRecord, Replay, IndexPut
      <4> QED  BY <3>1, <3>2, <3>3, <3>4, <4>1, ReplaysPut
    <3>5. CASE log[scan + 1].kind = "del"
      <4>1. index' = [index EXCEPT ![log[scan + 1].key] = NoEntry]
        BY <2>2, <3>5 DEF RecoverRecord, Replay, IndexDelete
      <4> QED  BY <3>1, <3>2, <3>3, <3>5, <4>1, ReplaysDelete
    <3> QED  BY <3>2, <3>4, <3>5
  <2>3. CASE UNCHANGED <<phase, log, scan, index>>
    BY <1>4, <2>3 DEF ReplayOK
  <2>4. ~RecoverGarbled
    BY DEF RecoverGarbled, ReplayOK, Whole, RunType, FileType
  <2>5. ~RecoverStops
    BY <1>3 DEF RecoverStops
  <2> QED
    BY <1>4, <2>1, <2>2, <2>3, <2>4, <2>5
       DEF Next, ClientWrite, Put, Delete, Read, GetHit, GetMiss, Fill, SnapshotKeys, Sync, Idle,
           Compaction, Lifecycle, CompactionTick, Compact, StartCopy, CopyRecord, CompactFails,
           SwapLogs, AdoptFile, AdoptIndex, RenameLog, RenameFails, Close, Crash, Forget, RecoverFails, Serve, Upgrade, vars
<1>5. ASSUME Serving' PROVE Replays(log', Len(log'), index')
  <2>1. ASSUME NEW r, log' = Append(log, r), Serving
        PROVE  /\ Replays(log', Len(log), index) /\ Len(log) \in Nat
               /\ Len(log') = Len(log) + 1 /\ log'[Len(log) + 1] = r
    <3>1. \A p \in 1 .. Len(log) : log[p] = log'[p]
      BY <2>1 DEF FileType
    <3>2. Len(log) \in Nat /\ Len(log') = Len(log) + 1 /\ log'[Len(log) + 1] = r
      BY <2>1 DEF FileType
    <3>3. Replays(log, Len(log), index)
      BY <2>1 DEF ReplayOK
    <3> QED  BY <3>1, <3>2, <3>3, ReplaysPrefix
  <2>2. ASSUME NEW k \in Keys, NEW w \in Writes, Put(k, w) PROVE Replays(log', Len(log'), index')
    <3>1. Serving /\ log' = Append(log, PutRec(k, w))
          /\ index' = [index EXCEPT ![k] = [pos |-> Len(log) + 1, cat |-> w[2]]]
      BY <2>2 DEF Put, AppendRecord, IndexPut, Idle, Serving
    <3>2. PutRec(k, w).kind = "put" /\ PutRec(k, w).key = k /\ PutRec(k, w).cat = w[2]
      BY DEF PutRec
    <3>3. index \in [Keys -> Entries]
      BY DEF IndexType
    <3>4. /\ Replays(log', Len(log), index) /\ Len(log) \in Nat /\ Len(log') = Len(log) + 1
          /\ log'[Len(log) + 1] = PutRec(k, w)
      BY <2>1, <3>1
    <3>5. /\ log'[Len(log) + 1].kind = "put" /\ log'[Len(log) + 1].key = k
          /\ log'[Len(log) + 1].cat = w[2]
      BY <3>2, <3>4
    <3>6. Replays(log', Len(log) + 1, [index EXCEPT ![k] = [pos |-> Len(log) + 1, cat |-> w[2]]])
      BY <3>3, <3>4, <3>5, ReplaysPut
    <3> QED  BY <3>1, <3>4, <3>6
  <2>3. ASSUME NEW k \in Keys, Delete(k) PROVE Replays(log', Len(log'), index')
    <3>1. Serving /\ log' = Append(log, Tombstone(k)) /\ index' = [index EXCEPT ![k] = NoEntry]
      BY <2>3 DEF Delete, AppendRecord, IndexDelete, Idle, Serving
    <3>2. Tombstone(k).kind = "del" /\ Tombstone(k).key = k
      BY DEF Tombstone
    <3>3. index \in [Keys -> Entries]
      BY DEF IndexType
    <3>4. /\ Replays(log', Len(log), index) /\ Len(log) \in Nat /\ Len(log') = Len(log) + 1
          /\ log'[Len(log) + 1] = Tombstone(k)
      BY <2>1, <3>1
    <3>5. log'[Len(log) + 1].kind = "del" /\ log'[Len(log) + 1].key = k
      BY <3>2, <3>4
    <3>6. Replays(log', Len(log) + 1, [index EXCEPT ![k] = NoEntry])
      BY <3>3, <3>4, <3>5, ReplaysDelete
    <3> QED  BY <3>1, <3>4, <3>6
  <2>4. CASE SwapLogs
    BY <2>4 DEF SwapLogs, AdoptFile, AdoptIndex, ReplayOK
  <2>5. CASE Serve \/ Upgrade
    BY <2>5 DEF Serve, Upgrade, Recovered, StartCopy, ReplayOK, file, idx
  <2>6. CASE Serving /\ UNCHANGED <<log, index>>
    BY <2>6 DEF ReplayOK
  <2> QED
    BY <1>5, <2>2, <2>3, <2>4, <2>5, <2>6
       DEF Next, ClientWrite, Read, GetHit, GetMiss, Fill, SnapshotKeys, Sync, Idle, Serving,
           Compaction, Lifecycle, CompactionTick, Compact, StartCopy, CopyRecord, CompactFails,
           RenameLog, RenameFails, Close, Crash, Forget, Open, RecoverRecord, RecoverStops,
           RecoverFails, RecoverGarbled, vars, file, idx
<1>6. ASSUME phase' = "copy" PROVE Replays(comp'.log, Len(comp'.log), comp'.index)
  <2>1. CASE StartCopy
    BY <2>1, ReplaysNothing DEF StartCopy, NoComp
  <2>2. CASE CopyRecord
    <3>0. PICK k \in Keys : k = Head(comp.todo)
      BY <2>2 DEF CopyRecord, CompType
    <3>1. PICK v, c : /\ comp'.log = Append(comp.log, PutRec(k, <<v, c>>))
                      /\ comp'.index = [comp.index EXCEPT ![k] = [pos |-> Len(comp.log) + 1, cat |-> c]]
      <4>1. PICK v, c : v = log[index[k].pos].val /\ c = index[k].cat
        OBVIOUS
      <4> QED  BY <2>2, <3>0, <4>1 DEF CopyRecord
    <3>2. PutRec(k, <<v, c>>).kind = "put" /\ PutRec(k, <<v, c>>).key = k /\ PutRec(k, <<v, c>>).cat = c
      BY DEF PutRec
    <3>3. /\ Len(comp.log) \in Nat /\ Len(comp'.log) = Len(comp.log) + 1
          /\ comp'.log[Len(comp.log) + 1] = PutRec(k, <<v, c>>)
          /\ \A p \in 1 .. Len(comp.log) : comp.log[p] = comp'.log[p]
      BY <3>1 DEF CompType
    <3>4. Replays(comp'.log, Len(comp.log), comp.index)
      BY <2>2, <3>3, ReplaysPrefix DEF CopyRecord, ReplayOK
    <3>5. comp.index \in [Keys -> Entries]
      BY DEF CompType
    <3> DEFINE n == Len(comp.log)
               l == comp'.log
    <3>6. l[n + 1].kind = "put" /\ l[n + 1].key = k /\ l[n + 1].cat = c
      BY <3>2, <3>3
    <3>7. Replays(l, n + 1, [comp.index EXCEPT ![k] = [pos |-> n + 1, cat |-> c]])
      BY <3>3, <3>4, <3>5, <3>6, ReplaysPut
    <3> QED  BY <3>1, <3>3, <3>7
  <2>3. CASE phase = "copy" /\ UNCHANGED comp
    BY <2>3 DEF ReplayOK
  <2> QED
    BY <1>6, <2>1, <2>2, <2>3
       DEF Next, ClientWrite, Put, Delete, Read, GetHit, GetMiss, Fill, SnapshotKeys, Sync, Idle,
           Compaction, Lifecycle, CompactionTick, Compact, CompactFails, SwapLogs, AdoptFile, AdoptIndex,
           RenameLog, RenameFails, Close, Crash, Forget, Open, RecoverRecord, RecoverStops,
           RecoverFails, RecoverGarbled, Serve, Upgrade, vars
<1> QED  BY <1>1, <1>2, <1>4, <1>5, <1>6 DEF ReplayOK

(* The index in use is the one recover would rebuild from the log, as long *)
(* as no crash tears a record and no file of an older version is left in   *)
(* place; failed or interrupted renames do not matter to this.             *)
THEOREM IndexReplaysLog == NoDamage => (Spec => []IndexIsReplay)
<1> SUFFICES ASSUME NoDamage PROVE Spec => []IndexIsReplay
    OBVIOUS
<1> DEFINE Inv == MemoryInv /\ OldFileOK /\ ReplayOK
<1>1. Init => Inv
  <2> SUFFICES ASSUME Init PROVE OldFileOK /\ ReplayOK
    BY MemoryInit
  <2>1. OldFileOK
    BY DEF Init, OldFileOK, NoDamage, MapAt
  <2>2. Whole(log, hdr)
    <3>1. log \in InitLogs /\ hdr \in Versions
      BY DEF Init
    <3> QED  BY <3>1, InitLogsWhole DEF Whole
  <2>3. Whole(comp.log, LogVersion)
    <3>1. comp.log = <<>>
      BY DEF Init, NoComp
    <3> QED  BY <3>1 DEF Whole
  <2> QED  BY <2>1, <2>2, <2>3 DEF Init, ReplayOK, Serving
<1>2. Inv /\ [Next]_vars => Inv'
  BY MemoryStep, OldFileStep, ReplayStep
<1>3. Inv => IndexIsReplay
  BY DEF ReplayOK, IndexIsReplay
<1> QED  BY <1>1, <1>2, <1>3, PTL DEF Spec

-----------------------------------------------------------------------------
(* The store implements DurableMap, when nothing is damaged and no rename   *)
(* fails                                                                    *)

(* The map the first n records of l spell out, and the maps a crash may     *)
(* bring back when s of its records are on disk: one for every prefix.      *)
At(l, n) == [k \in Keys |-> IF \E p \in LastOf(l, n, k) : l[p].kind = "put"
                            THEN l[CHOOSE p \in LastOf(l, n, k) : TRUE].val
                            ELSE NoVal]

History(l, s) == [i \in 1 .. Len(l) - s + 1 |-> At(l, s + i - 1)]

LEMMA MapAtIsAt == \A n : MapAt(n) = At(log, n)
BY DEF MapAt, At

(* At most one record decides a key. *)
LEMMA LastOfUnique ==
    ASSUME NEW l, NEW n \in Nat, NEW k, NEW p \in LastOf(l, n, k), NEW q \in LastOf(l, n, k)
    PROVE  p = q
<1>1. p \in 1 .. n /\ q \in 1 .. n
  BY DEF LastOf
<1>2. ~(p < q)
  BY <1>1 DEF LastOf
<1>3. ~(q < p)
  BY <1>1 DEF LastOf
<1> QED  BY <1>1, <1>2, <1>3

LEMMA AtPut ==
    ASSUME NEW l, NEW n \in Nat, NEW k \in Keys, NEW p \in LastOf(l, n, k), l[p].kind = "put"
    PROVE  At(l, n)[k] = l[p].val
<1>1. (CHOOSE q \in LastOf(l, n, k) : TRUE) \in LastOf(l, n, k)
  OBVIOUS
<1>2. (CHOOSE q \in LastOf(l, n, k) : TRUE) = p
  BY <1>1, LastOfUnique
<1> QED  BY <1>2 DEF At

LEMMA AtElse ==
    ASSUME NEW l, NEW n, NEW k \in Keys, \A p \in LastOf(l, n, k) : l[p].kind # "put"
    PROVE  At(l, n)[k] = NoVal
BY DEF At

LEMMA AtPrefix ==
    ASSUME NEW l, NEW m, NEW n \in Nat, \A p \in 1 .. n : l[p] = m[p]
    PROVE  At(l, n) = At(m, n)
<1>1. \A k : LastOf(l, n, k) = LastOf(m, n, k)
  BY LastOfPrefix
<1>2. ASSUME NEW k \in Keys PROVE At(l, n)[k] = At(m, n)[k]
  <2>1. CASE \E p \in LastOf(l, n, k) : l[p].kind = "put"
    <3>1. PICK p \in LastOf(l, n, k) : l[p].kind = "put"
      BY <2>1
    <3>2. p \in LastOf(m, n, k) /\ p \in 1 .. n
      BY <1>1 DEF LastOf
    <3> QED  BY <3>1, <3>2, AtPut
  <2>2. CASE \A p \in LastOf(l, n, k) : l[p].kind # "put"
    <3>1. \A p \in LastOf(m, n, k) : m[p].kind # "put"
      BY <1>1, <2>2 DEF LastOf
    <3> QED  BY <2>2, <3>1, AtElse
  <2> QED  BY <2>1, <2>2
<1> QED  BY <1>2 DEF At

(* A Put or Delete at the end rewrites one key of the map. *)
LEMMA AtNext ==
    ASSUME NEW l, NEW n \in Nat, NEW k \in Keys, l[n + 1].key = k, l[n + 1].kind \in {"put", "del"}
    PROVE  At(l, n + 1) = [At(l, n) EXCEPT ![k] = IF l[n + 1].kind = "put" THEN l[n + 1].val ELSE NoVal]
<1> DEFINE v == IF l[n + 1].kind = "put" THEN l[n + 1].val ELSE NoVal
<1>1. \A j \in Keys : LastOf(l, n + 1, j) = IF j = k THEN {n + 1} ELSE LastOf(l, n, j)
  BY LastOfNext
<1>2. At(l, n + 1)[k] = v
  <2>1. CASE l[n + 1].kind = "put"
    BY <1>1, <2>1, AtPut
  <2>2. CASE l[n + 1].kind = "del"
    BY <1>1, <2>2, AtElse
  <2> QED  BY <2>1, <2>2
<1>3. ASSUME NEW j \in Keys, j # k PROVE At(l, n + 1)[j] = At(l, n)[j]
  <2>1. LastOf(l, n + 1, j) = LastOf(l, n, j)
    BY <1>1, <1>3
  <2>2. CASE \E p \in LastOf(l, n, j) : l[p].kind = "put"
    <3>1. PICK p \in LastOf(l, n, j) : l[p].kind = "put"
      BY <2>2
    <3>2. p \in LastOf(l, n + 1, j) /\ n + 1 \in Nat
      BY <2>1, <3>1
    <3>3. At(l, n + 1)[j] = l[p].val
      BY <3>1, <3>2, AtPut
    <3> QED  BY <3>1, <3>3, AtPut
  <2>3. CASE \A p \in LastOf(l, n, j) : l[p].kind # "put"
    BY <2>1, <2>3, AtElse
  <2> QED  BY <2>2, <2>3
<1>4. DOMAIN At(l, n) = Keys /\ DOMAIN At(l, n + 1) = Keys
  BY DEF At
<1>5. At(l, n) = [j \in Keys |-> At(l, n)[j]]
      /\ At(l, n + 1) = [j \in Keys |-> At(l, n + 1)[j]]
  BY DEF At
<1> HIDE DEF v
<1>6. At(l, n + 1) = [At(l, n) EXCEPT ![k] = v]
  BY <1>2, <1>3, <1>5
<1> QED  BY <1>6 DEF v

(* An index that replays the log leads to the map the log spells out. *)
LEMMA AtReplays ==
    ASSUME NEW l, NEW n \in Nat, NEW ix, Replays(l, n, ix), NEW k \in Keys
    PROVE  At(l, n)[k] = IF ix[k].pos = 0 THEN NoVal ELSE l[ix[k].pos].val
<1>1. CASE ix[k].pos = 0
  BY <1>1, AtElse DEF Replays
<1>2. CASE ix[k].pos # 0
  BY <1>2, AtPut DEF Replays
<1> QED  BY <1>1, <1>2

NoFaults == NoDamage /\ "swap" \notin Faults

(* Every Put's record carries a payload, and the open file is the one New   *)
(* would find, but for the moment between the swap and the rename.          *)
Payloads(l) == \A p \in DOMAIN l : l[p].kind = "put" => l[p].val \in Vals

PayloadsOK == Payloads(log) /\ Payloads(comp.log)
NamedOK == named \/ phase = "swap"

StoreInv == MemoryInv /\ OldFileOK /\ ReplayOK /\ PayloadsOK /\ NamedOK

LEMMA StoreInit == NoDamage /\ Init => StoreInv
<1> SUFFICES ASSUME NoDamage, Init PROVE OldFileOK /\ ReplayOK /\ PayloadsOK /\ NamedOK
  BY MemoryInit DEF StoreInv
<1>1. OldFileOK
  BY DEF Init, OldFileOK, NoDamage, MapAt
<1>2. log \in InitLogs /\ hdr \in Versions /\ comp.log = <<>>
  BY DEF Init, NoComp
<1>3. Whole(log, hdr) /\ Whole(comp.log, LogVersion)
  BY <1>2, InitLogsWhole DEF Whole
<1>4. PayloadsOK
  BY <1>2, InitLogsWhole DEF PayloadsOK, Payloads
<1> QED  BY <1>1, <1>3, <1>4 DEF Init, ReplayOK, Serving, NamedOK

LEMMA PayloadsStep ==
    NoDamage /\ StoreInv /\ [Next]_vars => PayloadsOK'
<1> SUFFICES ASSUME NoDamage, StoreInv, [Next]_vars PROVE PayloadsOK'
    OBVIOUS
<1> USE DEF StoreInv, PayloadsOK, MemoryInv, TypeOK
<1>0. ASSUME NEW l \in Seq(Records), Payloads(l), NEW r, r.kind = "put" => r.val \in Vals
      PROVE  Payloads(Append(l, r))
  BY <1>0 DEF Payloads
<1>1. Payloads(log')
  <2>1. ASSUME NEW k \in Keys, NEW w \in Writes, Put(k, w) PROVE Payloads(log')
    <3>1. log' = Append(log, PutRec(k, w)) /\ PutRec(k, w).val \in Vals /\ log \in Seq(Records)
      BY <2>1 DEF Put, AppendRecord, PutRec, FileType
    <3> QED  BY <1>0, <3>1
  <2>2. ASSUME NEW k \in Keys, Delete(k) PROVE Payloads(log')
    <3>1. log' = Append(log, Tombstone(k)) /\ Tombstone(k).kind # "put" /\ log \in Seq(Records)
      BY <2>2 DEF Delete, AppendRecord, Tombstone, FileType
    <3> QED  BY <1>0, <3>1
  <2>3. CASE SwapLogs
    BY <2>3 DEF SwapLogs, AdoptFile, AdoptIndex
  <2>4. CASE Close
    BY <2>4 DEF Close, LeaveFile, Payloads
  <2>5. CASE Crash
    <3>1. PICK n \in synced .. Len(log) : LeaveFile(SubSeq(log, 1, n))
      BY <2>5 DEF Crash, NoDamage
    <3>2. \A p \in DOMAIN SubSeq(log, 1, n) : p \in DOMAIN log /\ SubSeq(log, 1, n)[p] = log[p]
      BY DEF FileType
    <3> QED  BY <3>1, <3>2 DEF LeaveFile, Payloads
  <2>6. CASE UNCHANGED log
    BY <2>6
  <2> QED
    BY <2>1, <2>2, <2>3, <2>4, <2>5, <2>6
       DEF Next, ClientWrite, Read, GetHit, GetMiss, Fill, SnapshotKeys, Sync, Compaction,
           Lifecycle, CompactionTick, Compact, StartCopy, CopyRecord, CompactFails, RenameLog,
           RenameFails, Open, RecoverRecord, RecoverStops, RecoverFails, RecoverGarbled, Serve,
           Upgrade, vars, file
<1>2. Payloads(comp'.log)
  <2>1. CASE CopyRecord
    <3>1. PICK k \in Keys : k = Head(comp.todo)
      BY <2>1 DEF CopyRecord, CompType
    <3>2. index[k].pos # 0
      BY <2>1, <3>1 DEF CopyRecord, CopyOK, CompType
    <3>3. PICK p \in 1 .. Len(log) : p = index[k].pos /\ log[p].kind = "put"
      BY ZenonT(60), <2>1, <3>2 DEF CopyRecord, ReplayOK, Serving, Replays, LastOf
    <3> DEFINE w == <<log[index[k].pos].val, index[k].cat>>
    <3>4. log[index[k].pos].val \in Vals
      BY <3>3 DEF Payloads, FileType
    <3>5. comp'.log = Append(comp.log, PutRec(k, w)) /\ comp.log \in Seq(Records)
      BY <2>1, <3>1 DEF CopyRecord, CompType
    <3>6. PutRec(k, w).val \in Vals
      BY <3>4 DEF PutRec
    <3> HIDE DEF w
    <3> QED  BY <1>0, <3>5, <3>6
  <2>2. CASE comp'.log = <<>>
    BY <2>2 DEF Payloads
  <2>3. CASE UNCHANGED comp
    BY <2>3
  <2> QED
    BY <2>1, <2>2, <2>3
       DEF Next, ClientWrite, Put, Delete, Read, GetHit, GetMiss, Fill, SnapshotKeys, Sync, NoComp,
           Compaction, Lifecycle, Forget, CompactionTick, Compact, StartCopy, CompactFails,
           SwapLogs, AdoptFile, AdoptIndex, RenameLog, RenameFails, Open, Close, Crash, RecoverRecord, RecoverStops,
           RecoverFails, RecoverGarbled, Serve, Upgrade, vars
<1> QED  BY <1>1, <1>2

LEMMA NamedStep ==
    NoFaults /\ StoreInv /\ [Next]_vars => NamedOK'
BY DEF NoFaults, StoreInv, NamedOK, Next, ClientWrite, Put, Delete, AppendRecord, Read, GetHit,
       GetMiss, Fill, SnapshotKeys, Sync, Compaction, Lifecycle, CompactionTick, Compact, StartCopy,
       CopyRecord, CompactFails, SwapLogs, AdoptFile, AdoptIndex, RenameLog, RenameFails, Close,
       Crash, LeaveFile, Forget, Open, RecoverRecord, RecoverStops, RecoverFails, RecoverGarbled,
       Serve, Upgrade, vars, file, Idle, Recovered

LEMMA StoreStep == NoFaults /\ StoreInv /\ [Next]_vars => StoreInv'
<1> SUFFICES ASSUME NoFaults, StoreInv, [Next]_vars PROVE StoreInv'
    OBVIOUS
<1> QED
  BY MemoryStep, OldFileStep, ReplayStep, PayloadsStep, NamedStep DEF StoreInv, NoFaults

(* What the refinement calls snaps is the history of the open file. *)
LEMMA SnapshotsAreHistory == StoreInv => Snapshots = History(log, synced)
<1> SUFFICES ASSUME StoreInv PROVE Snapshots = History(log, synced)
    OBVIOUS
<1>1. synced \in Nat /\ Len(log) \in Nat /\ synced <= Len(log)
  BY DEF StoreInv, MemoryInv, TypeOK, FileType
<1>2. ASSUME Serving PROVE Served = At(log, Len(log))
  <2>1. Replays(log, Len(log), index)
    BY <1>2 DEF StoreInv, ReplayOK
  <2>2. \A k \in Keys : At(log, Len(log))[k] = IF index[k].pos = 0 THEN NoVal ELSE log[index[k].pos].val
    BY <1>1, <2>1, AtReplays
  <2>3. At(log, Len(log)) = [k \in Keys |-> At(log, Len(log))[k]]
    BY DEF At
  <2> QED  BY <2>2, <2>3 DEF Served
<1>3. ASSUME NEW i \in 1 .. Len(log) - synced + 1
      PROVE  (IF i = Len(log) - synced + 1 /\ Serving THEN Served ELSE MapAt(synced + i - 1))
             = At(log, synced + i - 1)
  <2>1. i = Len(log) - synced + 1 => synced + i - 1 = Len(log)
    BY <1>1
  <2> QED  BY <1>2, <2>1, MapAtIsAt
<1> QED  BY <1>3 DEF Snapshots, History

(* The map spelled by a log of payloads is one DurableMap knows. *)
LEMMA AtIsMap ==
    ASSUME NEW l, Payloads(l), NEW n \in Nat, 1 .. n \subseteq DOMAIN l
    PROVE  At(l, n) \in [Keys -> Vals \cup {NoVal}]
<1>1. ASSUME NEW k \in Keys PROVE At(l, n)[k] \in Vals \cup {NoVal}
  <2>1. CASE \E p \in LastOf(l, n, k) : l[p].kind = "put"
    <3>1. PICK p \in LastOf(l, n, k) : l[p].kind = "put"
      BY <2>1
    <3> QED  BY <3>1, AtPut DEF LastOf, Payloads
  <2>2. CASE \A p \in LastOf(l, n, k) : l[p].kind # "put"
    BY <2>2, AtElse
  <2> QED  BY <2>1, <2>2
<1>2. At(l, n) = [k \in Keys |-> At(l, n)[k]]
  BY DEF At
<1> QED  BY <1>1, <1>2

LEMMA HistoryOfFlushed ==
    ASSUME NEW l, Len(l) \in Nat
    PROVE  History(l, Len(l)) = <<At(l, Len(l))>>
<1>1. History(l, Len(l)) = [i \in 1 .. 1 |-> At(l, Len(l) + i - 1)]
  BY DEF History
<1>2. \A i \in 1 .. 1 : At(l, Len(l) + i - 1) = At(l, Len(l))
  OBVIOUS
<1> QED  BY <1>1, <1>2

LEMMA HistoryEnd ==
    ASSUME NEW l, Len(l) \in Nat, NEW s \in 0 .. Len(l)
    PROVE  /\ Len(History(l, s)) = Len(l) - s + 1
           /\ DOMAIN History(l, s) = 1 .. Len(l) - s + 1
           /\ History(l, s)[Len(History(l, s))] = At(l, Len(l))
<1> DEFINE n == Len(l) - s + 1
<1>1. n \in Nat \ {0} /\ s + n - 1 = Len(l)
  OBVIOUS
<1>2. History(l, s) = [i \in 1 .. n |-> At(l, s + i - 1)]
  BY DEF History
<1> HIDE DEF n
<1>3. Len(History(l, s)) = n /\ DOMAIN History(l, s) = 1 .. n
  BY <1>1, <1>2
<1>4. History(l, s)[n] = At(l, Len(l))
  BY <1>1, <1>2
<1> QED  BY <1>3, <1>4 DEF n

LEMMA HistoryAppend ==
    ASSUME NEW l \in Seq(Records), NEW r, NEW s \in 0 .. Len(l)
    PROVE  History(Append(l, r), s) = Append(History(l, s), At(Append(l, r), Len(l) + 1))
<1> DEFINE m == Append(l, r)
           n == Len(l) - s + 1
<1>1. Len(m) = Len(l) + 1 /\ \A p \in 1 .. Len(l) : m[p] = l[p]
  OBVIOUS
<1>2. n \in Nat \ {0} /\ s + (n + 1) - 1 = Len(l) + 1 /\ Len(m) - s + 1 = n + 1
  BY <1>1
<1>3. \A i \in 1 .. n : At(m, s + i - 1) = At(l, s + i - 1)
  <2> SUFFICES ASSUME NEW i \in 1 .. n PROVE At(m, s + i - 1) = At(l, s + i - 1)
    OBVIOUS
  <2>1. s + i - 1 \in Nat /\ \A p \in 1 .. s + i - 1 : m[p] = l[p]
    BY <1>1
  <2> QED  BY ZenonT(60), <2>1, AtPrefix
<1> HIDE DEF m, n
<1>4. History(m, s) = [i \in 1 .. n + 1 |-> At(m, s + i - 1)]
  BY <1>2 DEF History
<1>5. History(l, s) = [i \in 1 .. n |-> At(l, s + i - 1)]
  BY DEF History, n
<1>6. Append(History(l, s), At(m, Len(l) + 1))
      = [i \in 1 .. n + 1 |-> IF i = n + 1 THEN At(m, Len(l) + 1) ELSE At(l, s + i - 1)]
  BY <1>2, <1>5
<1>7. \A i \in 1 .. n + 1 : At(m, s + i - 1) = IF i = n + 1 THEN At(m, Len(l) + 1) ELSE At(l, s + i - 1)
  <2> SUFFICES ASSUME NEW i \in 1 .. n + 1
               PROVE  At(m, s + i - 1) = IF i = n + 1 THEN At(m, Len(l) + 1) ELSE At(l, s + i - 1)
    OBVIOUS
  <2>1. CASE i = n + 1
    <3>1. s + i - 1 = Len(l) + 1
      BY <1>2, <2>1
    <3> QED  BY <2>1, <3>1
  <2>2. CASE i # n + 1
    <3>1. i \in 1 .. n
      BY <1>2, <2>2
    <3> QED  BY <1>3, <2>2, <3>1
  <2> QED  BY <2>1, <2>2
<1>8. History(m, s) = Append(History(l, s), At(m, Len(l) + 1))
  BY <1>4, <1>6, <1>7
<1> QED  BY <1>8 DEF m

LEMMA RefinesInit == NoDamage /\ Init => Durable!Init
<1> SUFFICES ASSUME NoDamage, Init PROVE Durable!Init
    OBVIOUS
<1>1. StoreInv
  BY StoreInit
<1>2. Len(log) \in Nat /\ synced = Len(log) /\ Payloads(log) /\ ~Serving
  BY <1>1 DEF StoreInv, MemoryInv, TypeOK, FileType, Init, PayloadsOK, Serving
<1>3. At(log, Len(log)) \in [Keys -> Vals \cup {NoVal}]
  BY <1>1, <1>2, AtIsMap DEF StoreInv, MemoryInv, TypeOK, FileType
<1>4. Snapshots = <<At(log, Len(log))>>
  BY <1>1, <1>2, SnapshotsAreHistory, HistoryOfFlushed
<1> QED  BY <1>2, <1>3, <1>4 DEF Durable!Init, Durable!Maps

LEMMA SnapshotsNext == StoreInv' => Snapshots' = History(log', synced')
<1>1. (StoreInv => Snapshots = History(log, synced))'
  BY SnapshotsAreHistory, PTL
<1> QED  BY <1>1 DEF History, At, LastOf

(* A record appended by a Put or Delete is a Write. *)
LEMMA AppendIsWrite ==
    ASSUME StoreInv, StoreInv', Serving, Serving', NEW k \in Keys, NEW r, r.key = k,
           r.kind \in {"put", "del"}, r.kind = "put" => r.val \in Vals,
           log' = Append(log, r), synced' = synced
    PROVE  Durable!Write
<1> DEFINE v == IF r.kind = "put" THEN r.val ELSE NoVal
<1>1. log \in Seq(Records) /\ synced \in 0 .. Len(log) /\ Len(log) \in Nat
  BY DEF StoreInv, MemoryInv, TypeOK, FileType
<1>2. PICK m : m = log'
  OBVIOUS
<1>3. Snapshots = History(log, synced) /\ Snapshots' = History(m, synced)
  BY <1>2, SnapshotsAreHistory, SnapshotsNext
<1>4. Snapshots' = Append(Snapshots, At(m, Len(log) + 1))
  BY <1>1, <1>2, <1>3, HistoryAppend
<1>5. m[Len(log) + 1] = r /\ \A p \in 1 .. Len(log) : log[p] = m[p]
  BY <1>1, <1>2
<1>6. At(log, Len(log)) = At(m, Len(log))
  BY <1>1, <1>5, AtPrefix
<1>7. At(m, Len(log) + 1) = [At(log, Len(log)) EXCEPT ![k] = v]
  BY <1>1, <1>5, <1>6, AtNext
<1>8. Snapshots[Len(Snapshots)] = At(log, Len(log))
  BY <1>1, <1>3, HistoryEnd
<1>9. v \in Vals \cup {NoVal}
  OBVIOUS
<1> HIDE DEF v
<1>10. Snapshots' = Append(Snapshots, [Snapshots[Len(Snapshots)] EXCEPT ![k] = v])
  BY <1>4, <1>7, <1>8
<1> QED  BY <1>9, <1>10 DEF Durable!Write, Durable!Current

(* The swapped-in log spells the map of the one it replaces. *)
LEMMA CopySpellsSameMap ==
    ASSUME StoreInv, phase = "copy", comp.todo = <<>>
    PROVE  At(comp.log, Len(comp.log)) = At(log, Len(log))
<1>1. Len(log) \in Nat /\ Len(comp.log) \in Nat
  BY DEF StoreInv, MemoryInv, TypeOK, FileType, CompType
<1>2. Replays(log, Len(log), index) /\ Replays(comp.log, Len(comp.log), comp.index)
  BY DEF StoreInv, ReplayOK, Serving
<1>3. ASSUME NEW k \in Keys PROVE At(comp.log, Len(comp.log))[k] = At(log, Len(log))[k]
  <2>1. At(log, Len(log))[k] = IF index[k].pos = 0 THEN NoVal ELSE log[index[k].pos].val
    BY <1>1, <1>2, AtReplays
  <2>2. At(comp.log, Len(comp.log))[k]
        = IF comp.index[k].pos = 0 THEN NoVal ELSE comp.log[comp.index[k].pos].val
    BY <1>1, <1>2, AtReplays
  <2>3. \/ index[k].pos = 0 /\ comp.index[k].pos = 0
        \/ /\ index[k].pos # 0 /\ comp.index[k].pos # 0
           /\ comp.log[comp.index[k].pos].val = log[index[k].pos].val
    BY DEF StoreInv, MemoryInv, CopyOK
  <2> QED  BY <2>1, <2>2, <2>3
<1>4. /\ At(log, Len(log)) = [k \in Keys |-> At(log, Len(log))[k]]
      /\ At(comp.log, Len(comp.log)) = [k \in Keys |-> At(comp.log, Len(comp.log))[k]]
  BY DEF At
<1> QED  BY <1>3, <1>4

(* Each step of the store is one of DurableMap, or shows nothing. *)
LEMMA RefinesStep == NoFaults /\ StoreInv /\ [Next]_vars => [Durable!Next]_(Durable!vars)
<1> SUFFICES ASSUME NoFaults, StoreInv, [Next]_vars PROVE [Durable!Next]_(Durable!vars)
    OBVIOUS
<1>1. StoreInv'
  BY StoreStep
<1>2. Snapshots = History(log, synced) /\ Snapshots' = History(log', synced')
  BY <1>1, SnapshotsAreHistory, SnapshotsNext
<1>3. log \in Seq(Records) /\ Len(log) \in Nat /\ synced \in 0 .. Len(log)
  BY DEF StoreInv, MemoryInv, TypeOK, FileType
<1>4. /\ DOMAIN Snapshots = 1 .. Len(log) - synced + 1
      /\ Snapshots[Len(Snapshots)] = At(log, Len(log))
      /\ Len(Snapshots) = Len(log) - synced + 1
  BY <1>2, <1>3, HistoryEnd
<1>5. ASSUME NEW k \in Keys, NEW w \in Writes, Put(k, w) PROVE Durable!Write
  <2>1. Serving /\ Serving' /\ log' = Append(log, PutRec(k, w)) /\ synced' = synced
    BY <1>5 DEF Put, AppendRecord, Idle, Serving
  <2>2. PutRec(k, w).key = k /\ PutRec(k, w).kind = "put" /\ PutRec(k, w).val \in Vals
    BY DEF PutRec
  <2> QED  BY <1>1, <2>1, <2>2, AppendIsWrite
<1>6. ASSUME NEW k \in Keys, Delete(k) PROVE Durable!Write
  <2>1. Serving /\ Serving' /\ log' = Append(log, Tombstone(k)) /\ synced' = synced
    BY <1>6 DEF Delete, AppendRecord, Idle, Serving
  <2>2. Tombstone(k).key = k /\ Tombstone(k).kind = "del"
    BY DEF Tombstone
  <2> QED  BY <1>1, <2>1, <2>2, AppendIsWrite
<1>7. CASE Sync
  <2>1. Serving /\ Serving' /\ log' = log /\ synced' = Len(log)
    BY <1>7 DEF Sync, Idle, Serving
  <2>2. Snapshots' = <<At(log, Len(log))>>
    BY <1>2, <1>3, <2>1, HistoryOfFlushed
  <2>3. Serving' = Serving
    BY <2>1
  <2> QED  BY <1>4, <2>1, <2>2, <2>3 DEF Durable!Next, Durable!Flush, Durable!Current
<1>8. CASE SwapLogs
  <2>1. /\ phase = "copy" /\ comp.todo = <<>> /\ Serving /\ Serving'
        /\ log' = comp.log /\ synced' = Len(comp.log)
    BY <1>8 DEF SwapLogs, AdoptFile, Serving
  <2>2. Len(comp.log) \in Nat
    BY DEF StoreInv, MemoryInv, TypeOK, CompType
  <2>3. Snapshots' = <<At(log, Len(log))>>
    BY <1>2, <2>1, <2>2, HistoryOfFlushed, CopySpellsSameMap
  <2>4. Serving' = Serving
    BY <2>1
  <2> QED  BY <1>4, <2>1, <2>3, <2>4 DEF Durable!Next, Durable!Flush, Durable!Current
<1>9. ASSUME NEW n \in synced .. Len(log), LeaveFile(SubSeq(log, 1, n)), named, Forget
      PROVE  Durable!Stop
  <2>1. n \in Nat /\ n <= Len(log) /\ n - synced + 1 \in DOMAIN Snapshots
    BY <1>3, <1>4
  <2>2. PICK m : m = SubSeq(log, 1, n)
    OBVIOUS
  <2>3. Len(m) = n /\ \A p \in 1 .. n : m[p] = log[p]
    BY <1>3, <2>1, <2>2
  <2>4. log' = m /\ synced' = n
    BY <1>9, <2>2, <2>3 DEF LeaveFile
  <2>5. Snapshots' = <<At(m, n)>>
    BY <1>2, <2>1, <2>3, <2>4, HistoryOfFlushed
  <2>6. At(m, n) = At(log, n)
    BY <2>1, <2>3, AtPrefix
  <2>7. Snapshots[n - synced + 1] = At(log, n)
    <3>1. n - synced + 1 \in 1 .. Len(log) - synced + 1 /\ synced + (n - synced + 1) - 1 = n
      BY <1>3, <2>1
    <3> QED  BY <1>2, <3>1 DEF History
  <2>8. Serving' = FALSE
    BY <1>9 DEF Forget, Serving
  <2>9. Snapshots' = <<Snapshots[n - synced + 1]>>
    BY <2>5, <2>6, <2>7
  <2> QED  BY <2>1, <2>8, <2>9 DEF Durable!Stop
<1>10. CASE Close
  <2>1. named /\ Len(log) \in synced .. Len(log) /\ log = SubSeq(log, 1, Len(log))
    BY <1>3, <1>10 DEF Close, Idle, StoreInv, NamedOK
  <2> QED  BY <1>9, <1>10, <2>1 DEF Close, Durable!Next
<1>11. CASE Crash
  <2>1. named /\ Forget /\ \E n \in synced .. Len(log) : LeaveFile(SubSeq(log, 1, n))
    BY <1>11 DEF Crash, NoFaults, NoDamage
  <2> QED  BY <1>9, <2>1 DEF Durable!Next
<1>12. CASE Serve \/ Upgrade
  <2>1. ~Serving /\ Serving' /\ log' = log /\ synced' = synced
    BY <1>12 DEF Serve, Upgrade, Recovered, StartCopy, Serving, file
  <2>2. Snapshots' = Snapshots
    BY <1>2, <2>1
  <2>3. Serving' = TRUE
    BY <2>1
  <2> QED  BY <2>1, <2>2, <2>3 DEF Durable!Next, Durable!Start
<1>13. CASE log' = log /\ synced' = synced /\ Serving' = Serving
  BY <1>2, <1>13 DEF Durable!vars
<1>14. ~RecoverFails
  <2>1. ASSUME phase = "recover" PROVE ~Unreadable(scan + 1)
    <3>1. \A p \in DOMAIN log : log[p].kind # "torn" /\ log[p].fmt <= hdr /\ log[p].fmt \in Nat
      <4>1. \A p \in DOMAIN log : log[p] \in Records
        BY <1>3
      <4> QED  BY <4>1 DEF StoreInv, ReplayOK, Whole, Records
    <3>2. hdr \in Nat
      BY DEF StoreInv, MemoryInv, TypeOK, FileType
    <3> QED  BY <3>1, <3>2 DEF Unreadable, Excess
  <2> QED  BY <2>1 DEF RecoverFails
<1>15. ASSUME NEW k \in Keys, GetHit(k) PROVE log' = log /\ synced' = synced /\ Serving' = Serving
  BY <1>15 DEF GetHit, file, Serving
<1>16. ASSUME NEW k \in Keys, NEW r \in Readers, GetMiss(r, k)
       PROVE  log' = log /\ synced' = synced /\ Serving' = Serving
  BY <1>16 DEF GetMiss, file, Serving
<1>17. ASSUME NEW r \in Readers, Fill(r) PROVE log' = log /\ synced' = synced /\ Serving' = Serving
  BY <1>17 DEF Fill, file, Serving
<1>18. CASE SnapshotKeys \/ CompactionTick \/ CopyRecord \/ Open \/ RecoverRecord \/ RecoverStops
            \/ RecoverGarbled \/ UNCHANGED vars
  <2>1. log' = log /\ synced' = synced /\ (phase' = phase \/ (phase = "down" /\ phase' = "recover"))
    BY <1>18 DEF SnapshotKeys, CompactionTick, CopyRecord, Open, RecoverRecord, RecoverStops,
                 RecoverGarbled, vars, file
  <2> QED  BY <1>13, <2>1 DEF Serving
<1>19. CASE Compact \/ CompactFails \/ RenameLog \/ RenameFails
  <2>1. log' = log /\ synced' = synced
        /\ phase \in {"open", "copy", "swap"} /\ phase' \in {"open", "copy", "swap"}
    BY <1>19 DEF Compact, CompactFails, RenameLog, RenameFails, StartCopy, Idle, file
  <2> QED  BY <1>13, <2>1 DEF Serving
<1> QED
  BY <1>5, <1>6, <1>7, <1>8, <1>10, <1>11, <1>12, <1>13, <1>14, <1>15, <1>16, <1>17, <1>18, <1>19
     DEF Next, ClientWrite, Read, Compaction, Lifecycle, Durable!Next

(* What a caller of the store may count on: as long as no record is torn,   *)
(* no older file is left in place and no rename fails or is cut short, it    *)
(* behaves as DurableMap does.  Every write shows at once, compactions and   *)
(* upgrades show nothing, and a stop in any state but the one before the     *)
(* rename, a copy's or a recovery's included, brings back the map of the     *)
(* last flush or of one of the writes after it.                              *)
THEOREM StoreIsDurableMap == NoFaults => (Spec => ImplementsDurableMap)
<1> SUFFICES ASSUME NoFaults PROVE Spec => ImplementsDurableMap
    OBVIOUS
<1>1. NoDamage
  BY DEF NoFaults
<1>2. Init => StoreInv /\ Durable!Init
  BY <1>1, StoreInit, RefinesInit
<1>3. StoreInv /\ [Next]_vars => StoreInv' /\ [Durable!Next]_(Durable!vars)
  BY StoreStep, RefinesStep
<1> QED  BY <1>2, <1>3, PTL DEF Spec, ImplementsDurableMap, Durable!Spec
===============================================================================
