----------------------------- MODULE SegmentReader -----------------------------
(***************************************************************************)
(* pkg/usenet/fs/reader: ReadAt over a cache of usenet segments in one     *)
(* sparse file.  A read pins its segments, fetches the ones that are not   *)
(* on disk, waits for each and copies it.  Prefetch workers fetch what is  *)
(* likely to be read next, an evictor drops what is not pinned when the    *)
(* disk budget is exceeded, Close ends them all.                           *)
(*                                                                         *)
(* Nothing here holds a lock for more than one variable: the state, the    *)
(* pin count and the on-disk flag of a segment are atomics of their own,   *)
(* and every load, store and compare-and-swap that matters is a step.      *)
(* Lengths are counted in segments; the bytes themselves are left out.     *)
(***************************************************************************)
EXTENDS Integers, Sequences, FiniteSets

CONSTANTS
    Readers,    \* goroutines calling ReadAt
    Workers,    \* prefetch workers
    N,          \* number of segments
    Ahead,      \* Config.PrefetchAhead
    MaxDisk,    \* Config.MaxDisk, in segments
    Slots,      \* Config.MaxConnections
    QueueCap,   \* capacity of prefetchCh
    Faults,     \* which of "missing", "timeout", "close" may happen
    Nobody

Segs   == 1 .. N
Actors == Readers \cup Workers

ASSUME ReaderAssumption ==
    /\ N \in Nat \ {0} /\ Ahead \in Nat /\ MaxDisk \in Nat
    /\ Slots \in Nat \ {0} /\ QueueCap \in Nat \ {0}
    /\ IsFiniteSet(Readers) /\ IsFiniteSet(Workers)
    /\ Readers \cap Workers = {} /\ Nobody \notin Actors

VARIABLES
    st,         \* SegmentCache.states: "empty", "fetching", "disk", "failed"
    error,      \* SegmentCache.errors
    onDisk,     \* SegmentCache.onDisk, as the set of segments
    pins,       \* SegmentCache.pinCounts
    used,       \* SegmentCache.curDisk
    prom,       \* SegmentFetcher.inFlight: the promise of each segment
    queue,      \* SegmentFetcher.prefetchCh
    act,        \* the local variables of each reader and worker
    ev,         \* of evictLoop
    signal,     \* a token in evictSignal
    stage       \* StreamingReader: "open", "cancelled", "shut", "closed"

cache == <<st, error, onDisk, used>>
vars  == <<st, error, onDisk, pins, used, prom, queue, act, ev, signal, stage>>

NoPromise == [owner |-> Nobody, done |-> FALSE, err |-> "ok"]
Resting   == [pc |-> "idle", lo |-> 1, hi |-> 1, i |-> 1, seg |-> 1, back |-> "work", res |-> "ok"]

Init ==
    /\ st = [s \in Segs |-> "empty"] /\ error = [s \in Segs |-> "ok"]
    /\ onDisk = {} /\ pins = [s \in Segs |-> 0] /\ used = 0
    /\ prom = [s \in Segs |-> NoPromise]
    /\ queue = <<>>
    /\ act = [a \in Actors |-> Resting]
    /\ ev = [pc |-> "idle", seg |-> 1] /\ signal = FALSE
    /\ stage = "open"

Cancelled == stage # "open"
At(a, pc) == act[a].pc = pc
Becomes(a, r) == act' = [act EXCEPT ![a] = r]
Goes(a, pc)   == Becomes(a, [act[a] EXCEPT !.pc = pc])
Seg(a)    == act[a].seg

-----------------------------------------------------------------------------
(* What a goroutine does when Fetch returns e. *)

Returned(r, e) ==
    CASE r.back = "work"   -> Resting
      [] r.back = "ensure" -> IF e = "ok" THEN [r EXCEPT !.pc = "ensure", !.i = @ + 1]
                                          ELSE [r EXCEPT !.pc = "unpin", !.res = e]
      [] r.back = "again"  -> IF e = "ok" THEN [r EXCEPT !.pc = "reread"]
                                          ELSE [r EXCEPT !.pc = "unpin", !.res = e]

Returns(a, e) == Becomes(a, Returned(act[a], e))

\* doFetch returns e: the promise is resolved next.
Done(a, e) == Becomes(a, [act[a] EXCEPT !.pc = "resolve", !.res = e])

\* The context of a prefetch has a deadline, the one of a read has none.
GivesUp(a, e) == \/ Cancelled /\ e = "closed"
                 \/ "timeout" \in Faults /\ a \in Workers /\ e = "late"

-----------------------------------------------------------------------------
(* SegmentFetcher.Fetch *)

\* "Fast path: already cached".
FetchFast(a) ==
    /\ At(a, "fetch")
    /\ CASE st[Seg(a)] = "disk"   -> Returns(a, "ok")
         [] st[Seg(a)] = "failed" -> Returns(a, error[Seg(a)])
         [] OTHER                 -> Goes(a, "claim")
    /\ UNCHANGED <<cache, pins, prom, queue, ev, signal, stage>>

Claim_Always(a) ==
    /\ At(a, "claim")
    /\ prom' = [prom EXCEPT ![Seg(a)] = [owner |-> a, done |-> FALSE, err |-> "ok"]]
    /\ Goes(a, "mark")
    /\ UNCHANGED <<cache, pins, queue, ev, signal, stage>>

\* Under inFlightMu: join the promise that is there, or leave one.
Claim(a) ==
    LET p == prom[Seg(a)] IN
    /\ At(a, "claim")
    /\ IF p = NoPromise
       THEN /\ prom' = [prom EXCEPT ![Seg(a)] = [owner |-> a, done |-> FALSE, err |-> "ok"]]
            /\ Goes(a, "mark")
       ELSE /\ IF p.done THEN Returns(a, p.err) ELSE Goes(a, "join")
            /\ UNCHANGED prom
    /\ UNCHANGED <<cache, pins, queue, ev, signal, stage>>

\* The context is done while the goroutine waits, for a promise or (in doFetch)
\* for the state.
JoinGivesUp(a) ==
    /\ act[a].pc \in {"join", "await"}
    /\ \E e \in {"closed", "late"} :
         GivesUp(a, e) /\ (IF At(a, "join") THEN Returns(a, e) ELSE Done(a, e))
    /\ UNCHANGED <<cache, pins, prom, queue, ev, signal, stage>>

\* MarkFetching, a compare-and-swap.
Mark(a) ==
    /\ At(a, "mark")
    /\ IF st[Seg(a)] = "empty"
       THEN st' = [st EXCEPT ![Seg(a)] = "fetching"] /\ Goes(a, "slot")
       ELSE Goes(a, "look") /\ UNCHANGED st
    /\ UNCHANGED <<error, onDisk, used, pins, prom, queue, ev, signal, stage>>

\* It failed, and the state is looked up again: a segment evicted in between
\* falls through to the download without being marked; one that somebody else
\* fetches is waited for (WaitForSegment), until it is there or has failed.
\* OneDownload says that nobody else does: the promise is this goroutine's.
Look(a) ==
    /\ act[a].pc \in {"look", "await"}
    /\ CASE st[Seg(a)] = "disk"     -> Done(a, "ok")
         [] st[Seg(a)] = "failed"   -> Done(a, error[Seg(a)])
         [] st[Seg(a)] = "fetching" -> At(a, "look") /\ Goes(a, "await")
         [] st[Seg(a)] = "empty"    -> At(a, "look") /\ Goes(a, "slot")
    /\ UNCHANGED <<cache, pins, prom, queue, ev, signal, stage>>

Downloading == {a \in Actors : At(a, "down")}

TakeSlot(a) ==
    /\ At(a, "slot") /\ Cardinality(Downloading) < Slots
    /\ Goes(a, "down")
    /\ UNCHANGED <<cache, pins, prom, queue, ev, signal, stage>>

SlotGivesUp_KeepsState(a) ==
    /\ At(a, "slot")
    /\ \E e \in {"closed", "late"} : GivesUp(a, e) /\ Done(a, e)
    /\ UNCHANGED <<cache, pins, prom, queue, ev, signal, stage>>

\* ResetState, so that somebody else may try.
SlotGivesUp(a) ==
    /\ At(a, "slot")
    /\ \E e \in {"closed", "late"} : GivesUp(a, e) /\ Done(a, e)
    /\ st' = [st EXCEPT ![Seg(a)] = "empty"]
    /\ error' = [error EXCEPT ![Seg(a)] = "ok"]
    /\ UNCHANGED <<onDisk, used, pins, prom, queue, ev, signal, stage>>

DownOk_CountsOnce(a) ==
    /\ At(a, "down") /\ stage # "closed"
    /\ onDisk' = onDisk \cup {Seg(a)}
    /\ used' = IF Seg(a) \in onDisk THEN used ELSE used + 1
    /\ st' = [st EXCEPT ![Seg(a)] = "disk"]
    /\ signal' = TRUE
    /\ Done(a, "ok")
    /\ UNCHANGED <<error, pins, prom, queue, ev, stage>>

\* ExecuteWithFailover streamed the article to the file; Finalize.
DownOk(a) ==
    /\ At(a, "down") /\ stage # "closed"
    /\ onDisk' = onDisk \cup {Seg(a)}
    /\ used' = used + 1
    /\ st' = [st EXCEPT ![Seg(a)] = "disk"]
    /\ signal' = TRUE
    /\ Done(a, "ok")
    /\ UNCHANGED <<error, pins, prom, queue, ev, stage>>

\* Missing on every provider, out of time (the download has its own limit), or
\* cancelled: MarkFailed.
DownFails(a) ==
    /\ At(a, "down")
    /\ \E e \in {"missing", "late", "closed"} :
         /\ \/ e = "missing" /\ "missing" \in Faults
            \/ e = "late" /\ "timeout" \in Faults
            \/ e = "closed" /\ Cancelled
         /\ error' = [error EXCEPT ![Seg(a)] = e]
         /\ Done(a, e)
    /\ st' = [st EXCEPT ![Seg(a)] = "failed"]
    /\ UNCHANGED <<onDisk, used, pins, prom, queue, ev, signal, stage>>

\* close(promise.done): everybody who joined returns with its error ...
Resolve(a) ==
    LET s == Seg(a)  e == act[a].res IN
    /\ At(a, "resolve")
    /\ prom' = [prom EXCEPT ![s].done = TRUE, ![s].err = e]
    /\ act' = [b \in Actors |->
                 CASE b = a                       -> [act[a] EXCEPT !.pc = "clear"]
                   [] At(b, "join") /\ Seg(b) = s -> Returned(act[b], e)
                   [] OTHER                       -> act[b]]
    /\ UNCHANGED <<cache, pins, queue, ev, signal, stage>>

\* ... and only then is it taken out of inFlight.
Clear(a) ==
    /\ At(a, "clear")
    /\ prom' = [prom EXCEPT ![Seg(a)] = NoPromise]
    /\ Returns(a, act[a].res)
    /\ UNCHANGED <<cache, pins, queue, ev, signal, stage>>

-----------------------------------------------------------------------------
(* StreamingReader.ReadAt *)

Pinned(s, d) == [x \in Segs |-> IF x \in s THEN pins[x] + d ELSE pins[x]]

ReadBegin(r, lo, hi) ==
    /\ At(r, "idle") /\ ~Cancelled /\ lo <= hi
    /\ pins' = Pinned(lo .. hi, 1)
    /\ Becomes(r, [Resting EXCEPT !.pc = "hint", !.lo = lo, !.hi = hi, !.i = hi + 1, !.back = "ensure"])
    /\ UNCHANGED <<cache, prom, queue, ev, signal, stage>>

\* QueuePrefetch of one segment: dropped when it is there, on its way, or the
\* channel is full.
Hint(r) ==
    LET s == act[r].i IN
    /\ At(r, "hint") /\ s <= act[r].hi + Ahead /\ s <= N
    /\ \/ st[s] \in {"disk", "fetching"} \/ stage = "open" \/ stage = "cancelled"
    /\ queue' = IF st[s] \notin {"disk", "fetching"} /\ Len(queue) < QueueCap
                THEN Append(queue, s) ELSE queue
    /\ Becomes(r, [act[r] EXCEPT !.i = s + 1])
    /\ UNCHANGED <<cache, pins, prom, ev, signal, stage>>

HintPanics_KeepsPins(r) ==
    LET s == act[r].i IN
    /\ At(r, "hint") /\ s <= act[r].hi + Ahead /\ s <= N
    /\ st[s] \notin {"disk", "fetching"} /\ stage \in {"shut", "closed"}
    /\ Becomes(r, [Resting EXCEPT !.res = "panic"])
    /\ UNCHANGED <<cache, pins, prom, queue, ev, signal, stage>>

\* Close has closed the channel: the send panics, and the deferred UnpinRange runs.
HintPanics(r) ==
    LET s == act[r].i IN
    /\ At(r, "hint") /\ s <= act[r].hi + Ahead /\ s <= N
    /\ st[s] \notin {"disk", "fetching"} /\ stage \in {"shut", "closed"}
    /\ Becomes(r, [act[r] EXCEPT !.pc = "unpin", !.res = "panic"])
    /\ UNCHANGED <<cache, pins, prom, queue, ev, signal, stage>>

Hinted(r) ==
    /\ At(r, "hint") /\ (act[r].i > act[r].hi + Ahead \/ act[r].i > N)
    /\ Becomes(r, [act[r] EXCEPT !.pc = "ensure", !.i = act[r].lo])
    /\ UNCHANGED <<cache, pins, prom, queue, ev, signal, stage>>

\* EnsureSegments, one segment.
Ensure(r) ==
    LET s == act[r].i IN
    /\ At(r, "ensure")
    /\ CASE s > act[r].hi -> Becomes(r, [act[r] EXCEPT !.pc = "wait", !.i = act[r].lo])
         [] s <= act[r].hi /\ st[s] = "disk" -> Becomes(r, [act[r] EXCEPT !.i = s + 1])
         [] OTHER -> Becomes(r, [act[r] EXCEPT !.pc = "fetch", !.seg = s, !.back = "ensure"])
    /\ UNCHANGED <<cache, pins, prom, queue, ev, signal, stage>>

\* WaitForSegment, before each segment is copied: it returns when the segment is
\* there, has failed, or the reader is closed.
Wait(r) ==
    LET s == act[r].i IN
    /\ At(r, "wait")
    /\ \/ st[s] = "disk" /\ Goes(r, "read")
       \/ st[s] = "failed" /\ Becomes(r, [act[r] EXCEPT !.pc = "unpin", !.res = "failed"])
       \/ Cancelled /\ Becomes(r, [act[r] EXCEPT !.pc = "unpin", !.res = "closed"])
    /\ UNCHANGED <<cache, pins, prom, queue, ev, signal, stage>>

\* What ReadRangeInto asks for.
Readable(s) == st[s] = "disk" /\ s \in onDisk /\ stage # "closed"

Copied(r) == IF act[r].i = act[r].hi
             THEN [act[r] EXCEPT !.pc = "unpin", !.res = "ok"]
             ELSE [act[r] EXCEPT !.pc = "wait", !.i = @ + 1]

Read(r) ==
    LET s == act[r].i IN
    /\ At(r, "read")
    /\ IF Readable(s) THEN Becomes(r, Copied(r))
       ELSE Becomes(r, [act[r] EXCEPT !.pc = "fetch", !.seg = s, !.back = "again"])
    /\ UNCHANGED <<cache, pins, prom, queue, ev, signal, stage>>

\* After the re-fetch: "still missing" is an error.
Reread(r) ==
    /\ At(r, "reread")
    /\ Becomes(r, IF Readable(act[r].i) THEN Copied(r)
                  ELSE [act[r] EXCEPT !.pc = "unpin", !.res = "lost"])
    /\ UNCHANGED <<cache, pins, prom, queue, ev, signal, stage>>

\* The deferred UnpinRange, on every way out.
Unpin(r) ==
    /\ At(r, "unpin")
    /\ pins' = Pinned(act[r].lo .. act[r].hi, -1)
    /\ Becomes(r, [Resting EXCEPT !.res = act[r].res])
    /\ UNCHANGED <<cache, prom, queue, ev, signal, stage>>

-----------------------------------------------------------------------------
(* prefetchWorker.  A closed channel delivers what is in it and then zeros. *)

Received == IF queue # <<>> THEN Head(queue) ELSE 1

WorkerTakes(w) ==
    /\ At(w, "idle") /\ (queue # <<>> \/ stage \in {"shut", "closed"})
    /\ queue' = IF queue # <<>> THEN Tail(queue) ELSE queue
    /\ IF st[Received] = "disk" THEN UNCHANGED act
       ELSE Becomes(w, [Resting EXCEPT !.pc = "fetch", !.seg = Received])
    /\ UNCHANGED <<cache, pins, prom, ev, signal, stage>>

WorkerStops(w) ==
    /\ At(w, "idle") /\ Cancelled
    /\ Goes(w, "stopped")
    /\ UNCHANGED <<cache, pins, prom, queue, ev, signal, stage>>

-----------------------------------------------------------------------------
(* evictLoop *)

Evictable == {s \in Segs : pins[s] = 0 /\ st[s] = "disk"}

EvictWakes ==
    /\ ev.pc = "idle" /\ signal
    /\ signal' = FALSE /\ ev' = [ev EXCEPT !.pc = "find"]
    /\ UNCHANGED <<cache, pins, prom, queue, act, stage>>

\* findEvictable picks the one downloaded longest ago; which one it is is left open.
EvictFinds ==
    /\ ev.pc = "find"
    /\ IF used > MaxDisk /\ Evictable # {}
       THEN \E s \in Evictable : ev' = [pc |-> "check", seg |-> s]
       ELSE ev' = [ev EXCEPT !.pc = "idle"]
    /\ UNCHANGED <<cache, pins, prom, queue, act, signal, stage>>

\* evictFromDisk: "Recheck pin" ...
EvictChecks ==
    /\ ev.pc = "check"
    /\ ev' = [ev EXCEPT !.pc = IF pins[ev.seg] > 0 THEN "find" ELSE "swap"]
    /\ UNCHANGED <<cache, pins, prom, queue, act, signal, stage>>

\* ... then the compare-and-swap from OnDisk to Empty ...
EvictSwaps ==
    /\ ev.pc = "swap"
    /\ IF st[ev.seg] = "disk"
       THEN st' = [st EXCEPT ![ev.seg] = "empty"] /\ ev' = [ev EXCEPT !.pc = "drop"]
       ELSE ev' = [ev EXCEPT !.pc = "find"] /\ UNCHANGED st
    /\ UNCHANGED <<error, onDisk, used, pins, prom, queue, act, signal, stage>>

\* ... then the flag and the count.
EvictDrops ==
    /\ ev.pc = "drop"
    /\ onDisk' = onDisk \ {ev.seg} /\ used' = used - 1
    /\ ev' = [ev EXCEPT !.pc = "find"]
    /\ UNCHANGED <<st, error, pins, prom, queue, act, signal, stage>>

EvictStops ==
    /\ ev.pc = "idle" /\ Cancelled
    /\ ev' = [ev EXCEPT !.pc = "stopped"]
    /\ UNCHANGED <<cache, pins, prom, queue, act, signal, stage>>

-----------------------------------------------------------------------------
(* StreamingReader.Close: cancel, close the channel, wait for the workers,  *)
(* wait for the evictor and close the file.                                 *)

CloseCancels ==
    /\ "close" \in Faults /\ stage = "open" /\ stage' = "cancelled"
    /\ UNCHANGED <<cache, pins, prom, queue, act, ev, signal>>

CloseChannel ==
    /\ stage = "cancelled" /\ stage' = "shut"
    /\ UNCHANGED <<cache, pins, prom, queue, act, ev, signal>>

CloseFile ==
    /\ stage = "shut" /\ stage' = "closed"
    /\ \A w \in Workers : At(w, "stopped")
    /\ ev.pc = "stopped"
    /\ UNCHANGED <<cache, pins, prom, queue, act, ev, signal>>

-----------------------------------------------------------------------------

FetchStep(a) ==
    \/ FetchFast(a) \/ Claim(a) \/ JoinGivesUp(a) \/ Mark(a) \/ Look(a)
    \/ TakeSlot(a) \/ SlotGivesUp(a) \/ DownOk(a) \/ DownFails(a) \/ Resolve(a) \/ Clear(a)

ReadStep(r) ==
    \/ Hint(r) \/ HintPanics(r) \/ Hinted(r) \/ Ensure(r)
    \/ Wait(r) \/ Read(r) \/ Reread(r) \/ Unpin(r)

EvictStep == EvictWakes \/ EvictFinds \/ EvictChecks \/ EvictSwaps \/ EvictDrops \/ EvictStops
CloseStep == CloseChannel \/ CloseFile

Next ==
    \/ \E a \in Actors : FetchStep(a)
    \/ \E r \in Readers : ReadStep(r) \/ \E lo, hi \in Segs : ReadBegin(r, lo, hi)
    \/ \E w \in Workers : WorkerTakes(w) \/ WorkerStops(w)
    \/ EvictStep
    \/ CloseCancels \/ CloseStep

Spec == Init /\ [][Next]_vars

\* Every goroutine runs on; an article is eventually delivered, refused or out
\* of time.
Fairness ==
    /\ \A a \in Actors : WF_vars(FetchStep(a)) /\ SF_vars(TakeSlot(a))
    /\ \A r \in Readers : WF_vars(ReadStep(r))
    /\ \A w \in Workers : WF_vars(WorkerTakes(w)) /\ WF_vars(WorkerStops(w))
    /\ WF_vars(EvictStep) /\ WF_vars(CloseStep)

FairSpec == Spec /\ Fairness

-----------------------------------------------------------------------------
(* Properties *)

FetchPcs == {"fetch", "claim", "join", "mark", "look", "await", "slot", "down", "resolve", "clear"}

Working(s) == {a \in Actors : act[a].pc \in {"slot", "down"} /\ Seg(a) = s}

\* fetcher.go:87-88: concurrent fetches of a segment share one download, and a
\* segment that says it is being fetched is being fetched: nobody waits for a
\* download that no goroutine is going to make.
OneDownload == \A s \in Segs : /\ Cardinality(Working(s)) <= 1
                               /\ st[s] = "fetching" => Working(s) # {}

\* cache.go:487-488: a segment is pinned by the reads that need it and by nobody
\* else, whichever way they end.
PinsAreReads ==
    \A s \in Segs : pins[s] = Cardinality({r \in Readers : ~At(r, "idle") /\ s \in act[r].lo .. act[r].hi})

\* The count the evictor compares with its budget is what the segments on disk
\* amount to, the one it is dropping included.
DiskCounted ==
    used = Cardinality({s \in Segs : st[s] = "disk"}) + (IF ev.pc = "drop" THEN 1 ELSE 0)

\* A call of Fetch returns, whoever makes the download it waits for.
FetchReturns == \A a \in Actors : act[a].pc \in FetchPcs ~> act[a].pc \notin FetchPcs

\* types.go:222-223, cache.go:19-26: "Blocks until the data is available or an
\* error occurs"; pinned segments are not evicted.
ReadReturns == \A r \in Readers : At(r, "hint") ~> At(r, "idle")
===============================================================================
