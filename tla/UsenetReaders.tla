----------------------------- MODULE UsenetReaders -----------------------------
(***************************************************************************)
(* The readers that the streams of an NZB file share: Usenet.fs of         *)
(* pkg/usenet, a map of entries with a count of their users.  Stream and   *)
(* PreCache take an entry and give it back, a ticker closes the reader of  *)
(* an entry that is not in use and takes it out of the map, and Close does *)
(* so with all of them.  What a reader does is in SegmentReader.  One file *)
(* is one key of the map, and the keys do not touch each other.            *)
(***************************************************************************)
EXTENDS Integers, FiniteSets

CONSTANTS
    Streams,        \* goroutines in Stream or PreCache
    MaxEntries,     \* bound on the entries that are made for the key
    NoEntry

Entries == 1 .. MaxEntries

ASSUME ReadersAssumption == IsFiniteSet(Streams) /\ MaxEntries \in Nat \ {0} /\ NoEntry \notin Entries

VARIABLES
    mapped,     \* the entry of the key
    entry,      \* refCount, lastAccessed (recent or not), the reader
    made,       \* entries made so far
    failed,     \* failedFiles has the file
    stream,     \* where each goroutine is, and the entry it has
    sweeper,    \* the ticker of cleanupIdleFS, and the entry it has judged
    closing,    \* Usenet.Close: not called, closes the readers, cleared the map
    surprised   \* entries that were taken while they were being closed

readersVars == <<mapped, entry, made, failed, stream, sweeper, closing, surprised>>

Idle == [pc |-> "idle", e |-> NoEntry]

ReadersInit ==
    /\ mapped = NoEntry /\ made = 0 /\ failed = FALSE /\ closing = "no" /\ surprised = {}
    /\ entry = [e \in Entries |-> [refs |-> 0, recent |-> FALSE, reader |-> "none"]]
    /\ stream = [s \in Streams |-> Idle]
    /\ sweeper = Idle

StreamAt(s, pc)     == stream[s].pc = pc
Goes(s, pc, e) == stream' = [stream EXCEPT ![s] = [pc |-> pc, e |-> e]]

-----------------------------------------------------------------------------
(* getOrCreateEntry *)

\* The entry is there: it is counted a moment later.
LookUp(s) ==
    /\ StreamAt(s, "idle")
    /\ IF mapped = NoEntry THEN Goes(s, "create", NoEntry) ELSE Goes(s, "count", mapped)
    /\ UNCHANGED <<mapped, entry, made, failed, sweeper, closing, surprised>>

\* No metadata, no segments, no volumes, or a file that has failed before.
CannotCreate(s) ==
    /\ StreamAt(s, "create")
    /\ Goes(s, "idle", NoEntry)
    /\ UNCHANGED <<mapped, entry, made, failed, sweeper, closing, surprised>>

\* LoadOrStore: the entry of the one who was first is used by all.
Create(s) ==
    /\ StreamAt(s, "create") /\ ~failed
    /\ IF mapped # NoEntry
       THEN /\ Goes(s, "count", mapped)
            /\ UNCHANGED <<mapped, made>>
       ELSE /\ made < MaxEntries
            /\ made' = made + 1 /\ mapped' = made + 1
            /\ Goes(s, "count", made + 1)
    /\ UNCHANGED <<entry, failed, sweeper, closing, surprised>>

\* It is no longer in the map, or the ticker is at it.
Unsafe(e) == mapped # e \/ sweeper.e = e

Count(s) ==
    LET e == stream[s].e
    IN  /\ StreamAt(s, "count")
        /\ entry' = [entry EXCEPT ![e].refs = @ + 1, ![e].recent = TRUE]
        /\ surprised' = IF Unsafe(e) THEN surprised \cup {e} ELSE surprised
        /\ Goes(s, "open", e)
        /\ UNCHANGED <<mapped, made, failed, sweeper, closing>>

\* getOrCreateReader: once for each entry, for better or worse.
Open(s) ==
    LET e == stream[s].e
    IN  /\ StreamAt(s, "open")
        /\ \E r \in {"open", "failed"} :
              entry' = [entry EXCEPT ![e].reader = IF @ = "none" THEN r ELSE @]
        /\ Goes(s, IF entry'[e].reader = "failed" THEN "release" ELSE "read", e)
        /\ UNCHANGED <<mapped, made, failed, sweeper, closing, surprised>>

\* The stream has read what it was asked for, its client is gone, the range
\* is not one of the file, or a segment is not found.
UseEnds(s) ==
    /\ StreamAt(s, "read") \/ StreamAt(s, "open")
    /\ Goes(s, "release", stream[s].e)
    /\ failed' \in IF StreamAt(s, "read") THEN {failed, TRUE} ELSE {failed}
    /\ UNCHANGED <<mapped, entry, made, sweeper, closing, surprised>>

\* Mutant: the entry is given back only after it has been read from.
Release_Read(s) == IF entry[stream[s].e].reader = "open" THEN mapped ELSE NoEntry

\* releaseFS goes by the key, not by the entry.
Release(s) == mapped

GivesBack(s) ==
    /\ StreamAt(s, "release")
    /\ entry' = [e \in Entries |-> IF e = Release(s)
                                   THEN [entry[e] EXCEPT !.refs = @ - 1, !.recent = TRUE] ELSE entry[e]]
    /\ Goes(s, "idle", NoEntry)
    /\ UNCHANGED <<mapped, made, failed, sweeper, closing, surprised>>

-----------------------------------------------------------------------------
(* cleanupIdleFS and Close *)

\* Ten seconds and more go by.
Age ==
    /\ mapped # NoEntry /\ entry[mapped].recent
    /\ entry' = [entry EXCEPT ![mapped].recent = FALSE]
    /\ UNCHANGED <<mapped, made, failed, stream, sweeper, closing, surprised>>

Swept(pc, e) == sweeper' = [pc |-> pc, e |-> e]

\* The count first, then the time.
LooksAt ==
    /\ sweeper.pc = "idle" /\ mapped # NoEntry
    /\ entry[mapped].refs = 0
    /\ Swept("counted", mapped)
    /\ UNCHANGED <<mapped, entry, made, failed, stream, closing, surprised>>

Judges ==
    /\ sweeper.pc = "counted"
    /\ IF entry[sweeper.e].recent THEN Swept("idle", NoEntry) ELSE Swept("judged", sweeper.e)
    /\ UNCHANGED <<mapped, entry, made, failed, stream, closing, surprised>>

CloseReader(e) == [entry EXCEPT ![e].reader = IF @ = "open" THEN "closed" ELSE @]

Cleans ==
    /\ sweeper.pc = "judged"
    /\ entry' = CloseReader(sweeper.e)
    /\ Swept("closed", sweeper.e)
    /\ UNCHANGED <<mapped, made, failed, stream, closing, surprised>>

Drops ==
    /\ sweeper.pc = "closed"
    /\ mapped' = NoEntry
    /\ Swept("idle", NoEntry)
    /\ surprised' = surprised \cup {e \in {sweeper.e} : entry[e].refs # 0}
    /\ UNCHANGED <<entry, made, failed, stream, closing>>

\* Usenet.Close, while streams may be reading.
CloseReaders ==
    /\ closing = "no"
    /\ entry' = IF mapped = NoEntry THEN entry ELSE CloseReader(mapped)
    /\ closing' = "closed"
    /\ surprised' = surprised \cup {e \in Entries : e = mapped /\ entry[e].refs # 0}
    /\ UNCHANGED <<mapped, made, failed, stream, sweeper>>

ClearMap ==
    /\ closing = "closed"
    /\ mapped' = NoEntry
    /\ closing' = "cleared"
    /\ UNCHANGED <<entry, made, failed, stream, sweeper, surprised>>

-----------------------------------------------------------------------------
ReadersNext ==
    \/ \E s \in Streams :
          \/ LookUp(s) \/ CannotCreate(s) \/ Create(s) \/ Count(s) \/ Open(s) \/ UseEnds(s) \/ GivesBack(s)
    \/ Age \/ LooksAt \/ Judges \/ Cleans \/ Drops
    \/ CloseReaders \/ ClearMap

ReadersSpec == ReadersInit /\ [][ReadersNext]_readersVars

-----------------------------------------------------------------------------
Users(e) == {s \in Streams : stream[s].e = e /\ stream[s].pc \in {"open", "read", "release"}}

ReadersTypeOK ==
    /\ mapped \in Entries \cup {NoEntry} /\ made \in 0 .. MaxEntries /\ failed \in BOOLEAN
    /\ \A e \in Entries :
          /\ entry[e].refs \in Int /\ entry[e].recent \in BOOLEAN
          /\ entry[e].reader \in {"none", "open", "closed", "failed"}
    /\ \A s \in Streams :
          /\ stream[s].pc \in {"idle", "create", "count", "open", "read", "release"}
          /\ stream[s].e \in Entries <=> stream[s].pc \notin {"idle", "create"}

\* As long as nobody takes an entry while it is being closed, the count of an
\* entry is that of its users, on every path out of Stream and PreCache, and
\* none of them has its reader closed under it.
UsersAreCounted ==
    closing = "no" /\ surprised = {} =>
        \A e \in Entries :
            /\ entry[e].refs = Cardinality(Users(e))
            /\ entry[e].reader = "closed" => \A s \in Users(e) : ~StreamAt(s, "read")

\* Refuted by TLC.  A stream reads from an open reader: one whose entry the
\* ticker closed before it was counted reads from nil.  A new entry is in the
\* map with a time of zero until it is counted, and so need not even be old.
ReadsAreOpen == \A s \in Streams : closing = "no" /\ StreamAt(s, "read") => entry[stream[s].e].reader = "open"

\* Refuted by TLC.  The count of an entry is not below zero: a stream whose
\* entry was dropped gives back the entry that another has made since, which
\* the ticker then closes while it is in use, or never.
CountsArePositive == \A e \in Entries : entry[e].refs >= 0
=============================================================================
