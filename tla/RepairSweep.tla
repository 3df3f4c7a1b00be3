------------------------------ MODULE RepairSweep ------------------------------
(***************************************************************************)
(* pkg/manager/repair.go, repair_sweep.go and pkg/storage/repair.go.       *)
(* The repair service probes the files of each entry, keeps a health       *)
(* record per entry and a record per run, re-inserts broken torrents, and  *)
(* on request deletes broken files from the arr that knows them and has    *)
(* it search for a replacement.  A run (sweep, media recheck, fix, clear)  *)
(* holds Repair.activeRunID; a recheck of one entry runs beside it.        *)
(*                                                                         *)
(* A job is the goroutine of a run or of a recheck.  Its probes of         *)
(* several entries run in parallel; a read that is followed at once by the *)
(* write is one step.  Whatever comes from outside counts as an event, at  *)
(* most MaxEvents of them.                                                 *)
(***************************************************************************)
EXTENDS Integers, FiniteSets

CONSTANTS
    Entries, Files, Hashes, Arrs,
    EntryOf,        \* the entry whose folder a file is in
    HashOf,         \* its info hash
    ArrOf,          \* the arr that has imported it, or NoArr
    NoArr,
    TorrentHashes,       \* the info hashes of torrents; the others are NZBs
    Workers,        \* entries probed at a time
    Sources,        \* which of "arr" and "managed" may be configured
    Rechecks,       \* goroutines of RecheckEntry
    MaxRuns, MaxEvents,
    NoHealth

RunIds == 1 .. MaxRuns
Jobs   == RunIds \cup Rechecks

ASSUME RepairAssumption ==
    /\ EntryOf \in [Files -> Entries] /\ HashOf \in [Files -> Hashes]
    /\ ArrOf \in [Files -> Arrs \cup {NoArr}] /\ NoArr \notin Arrs
    /\ TorrentHashes \subseteq Hashes
    /\ \A f, g \in Files : HashOf[f] = HashOf[g] => EntryOf[f] = EntryOf[g]
    /\ Workers \in Nat \ {0} /\ MaxRuns \in Nat /\ MaxEvents \in Nat
    /\ Rechecks \cap Nat = {}
    /\ IsFiniteSet(Files) /\ IsFiniteSet(Entries)

VARIABLES
    gone,       \* files the provider cannot deliver
    listed,     \* files in the items
    hidden,     \* those of them that are flagged Deleted
    health,     \* the store repair_state
    runs,       \* the store repair_runs: the status of each run
    active,     \* Repair.activeRunID, 0 when empty
    cancelRun,  \* the run that Repair.cancelRun cancels, 0 when nil
    cancelled,  \* runs whose context is done
    job,        \* the goroutines
    marker,     \* a MarkEntryDirty between its read and its write
    call,       \* a FixBroken or ClearBroken that has collected and not started
    stopRun,    \* a StopRun under way
    stop,       \* an ApplyConfig under way
    rows,       \* files the arrs have
    sought,     \* deleted files whose replacement an arr was asked for
    events

repairVars == <<gone, listed, hidden, health, runs, active, cancelRun, cancelled,
                job, marker, call, stopRun, stop, rows, sought, events>>

Statuses == {"unknown", "healthy", "broken", "repairing"}
Health   == [status : Statuses, prev : Statuses \cup {""}, active : BOOLEAN,
             dirty : BOOLEAN, broken : SUBSET Files,
             known : SUBSET Files, count : 0 .. Cardinality(Files)]
NewHealth == [status |-> "unknown", prev |-> "", active |-> FALSE, dirty |-> FALSE,
              broken |-> {}, known |-> {}, count |-> 0]

Idle == [kind |-> "none", pc |-> "idle", fix |-> FALSE,
         names  |-> {},                           \* the files of the candidates
         known  |-> {},                           \* those in a contentMap
         todo   |-> {}, busy |-> {},              \* entries not probed, being probed
         res    |-> [f \in Files |-> "-"],
         heal   |-> [h \in Hashes |-> "-"],       \* healCache
         out    |-> [e \in Entries |-> NoHealth],
         arrs   |-> {}, ok |-> {}, need |-> {}, grab |-> {}]

RepairInit ==
    /\ gone \in SUBSET Files /\ listed = Files /\ hidden = {}
    /\ health = [e \in Entries |-> NoHealth]
    /\ runs = [r \in RunIds |-> "none"]
    /\ active = 0 /\ cancelRun = 0 /\ cancelled = {}
    /\ job = [x \in Jobs |-> Idle]
    /\ marker = NoHealth
    /\ call = Idle /\ stopRun = [pc |-> "idle", id |-> 0] /\ stop = [pc |-> "idle", id |-> 0]
    /\ rows = {f \in Files : ArrOf[f] # NoArr} /\ sought = {}
    /\ events = 0

AtJob(x, pc) == job[x].pc = pc
FilesOf(e)   == {f \in Files : EntryOf[f] = e}
ItemOf(e)    == FilesOf(e) \cap listed
ItemExists(e) == ItemOf(e) # {}
Done(x)      == x \in cancelled
Event        == events < MaxEvents /\ events' = events + 1

\* EntryHealth.IsDue, for some recheck interval: a clean and healthy entry is
\* due when the interval has passed.
IsDue(h, passed) == h = NoHealth \/ h.dirty \/ h.status # "healthy" \/ passed

world   == <<gone, listed, hidden, rows, sought>>
control == <<active, cancelRun, cancelled, stopRun, stop>>
calls   == <<marker, call, events>>

-----------------------------------------------------------------------------
(* Starting a run *)

\* Mutant: the second of two starts does not see the first.
Claims_Unchecked(r, j) ==
    /\ runs[r] = "none" /\ job[r].kind = "none"
    /\ \A q \in RunIds : job[q].kind = "none" => r <= q
    /\ active' = r /\ cancelRun' = r
    /\ job' = [job EXCEPT ![r] = j]

\* Under the lock: nothing runs.  The record is written after it.
Claims(r, j) ==
    /\ active = 0
    /\ runs[r] = "none" /\ job[r].kind = "none"
    /\ \A q \in RunIds : job[q].kind = "none" => r <= q
    /\ active' = r /\ cancelRun' = r
    /\ job' = [job EXCEPT ![r] = j]

RunSweep(r) ==
    /\ \E kind \in {"sweep", "media"}, fix \in BOOLEAN :
          Claims(r, [Idle EXCEPT !.kind = kind, !.pc = "save", !.fix = fix])
    /\ UNCHANGED <<world, health, runs, cancelled, stopRun, stop, calls>>

\* collectBrokenHealths, before the lock is taken.
Fixable(h)   == h # NoHealth /\ h.status = "broken" /\ h.known # {}
Clearable(h) == h # NoHealth /\ h.status = "broken"

CollectBroken ==
    /\ Event /\ call = Idle
    /\ \E kind \in {"fix", "clear"}, W \in SUBSET Entries :
          LET S == {e \in W : IF kind = "fix" THEN Fixable(health[e]) ELSE Clearable(health[e])}
          IN  /\ S # {}
              /\ call' = [Idle EXCEPT !.kind = kind, !.pc = "save", !.todo = S,
                            !.out = [e \in Entries |-> IF e \in S THEN health[e] ELSE NoHealth]]
    /\ UNCHANGED <<world, health, runs, control, job, marker>>

StartCollected(r) ==
    /\ call # Idle
    /\ Claims(r, call)
    /\ call' = Idle
    /\ UNCHANGED <<world, health, runs, cancelled, stopRun, stop, marker, events>>

\* "repair already running".
RefuseCollected ==
    /\ call # Idle /\ active # 0
    /\ call' = Idle
    /\ UNCHANGED <<world, health, runs, control, job, marker, events>>

\* SaveRepairRun, and the goroutine begins.
FirstStage(k) == CASE k \in {"sweep", "media"} -> "select" [] k = "fix" -> "arrs" [] k = "clear" -> "clear"

SaveRun(r) ==
    /\ AtJob(r, "save")
    /\ runs' = [runs EXCEPT ![r] = "running"]
    /\ job' = [job EXCEPT ![r].pc = FirstStage(job[r].kind)]
    /\ UNCHANGED <<world, health, control, calls>>

-----------------------------------------------------------------------------
(* The end of a run *)

\* finalizeRun: a cancel that is in the store wins.
FinalStatus(r, s) == IF runs[r] = "cancelled" THEN "cancelled" ELSE s

Finalizes(r, s) ==
    /\ runs' = [runs EXCEPT ![r] = FinalStatus(r, s)]
    /\ job' = [job EXCEPT ![r] = [Idle EXCEPT !.kind = "over", !.pc = "leave"]]

\* The deferred reset, if the run is still the active one.
Leave(r) ==
    /\ AtJob(r, "leave")
    /\ active' = (IF active = r THEN 0 ELSE active)
    /\ cancelRun' = (IF active = r THEN 0 ELSE cancelRun)
    /\ job' = [job EXCEPT ![r].pc = "idle"]
    /\ UNCHANGED <<world, health, runs, cancelled, stopRun, stop, calls>>

-----------------------------------------------------------------------------
(* Selection and probing *)

\* enumerateManagedCandidates: every item; enumerateArrCandidates: those the
\* arrs have a file of, with what they know of them.
Candidates(src) == {e \in Entries : ItemExists(e) /\ (src = "managed" \/ FilesOf(e) \cap rows # {})}
ContentMap(src) == IF src = "managed" THEN {} ELSE rows

Select(r) ==
    /\ AtJob(r, "select")
    /\ \E src \in Sources, passed \in SUBSET Entries :
          LET all == Candidates(IF job[r].kind = "media" THEN "arr" ELSE src)
              S   == {e \in all : job[r].kind = "media" \/ IsDue(health[e], e \in passed)}
          IN  job' = [job EXCEPT ![r].pc = "probe", ![r].todo = S, ![r].names = listed \ hidden,
                                 ![r].known = ContentMap(IF job[r].kind = "media" THEN "arr" ELSE src)]
    /\ ~Done(r)
    /\ UNCHANGED <<world, health, runs, control, calls>>

SelectEnds(r) ==
    /\ AtJob(r, "select")
    /\ \/ Done(r) /\ Finalizes(r, "cancelled")
       \/ Finalizes(r, "failed")
    /\ UNCHANGED <<world, health, control, calls>>

NamesOf(x, e)  == job[x].names \cap FilesOf(e)
Probed(x, e)  == \A f \in NamesOf(x, e) : job[x].res[f] # "-"

\* probeEntry, first half: the record says repairing, its status is kept aside.
ProbeStart(x, e) ==
    /\ AtJob(x, "probe") /\ e \in job[x].todo /\ ~Done(x)
    /\ Cardinality(job[x].busy) < Workers
    /\ LET h == IF health[e] = NoHealth THEN [NewHealth EXCEPT !.status = "unknown"] ELSE health[e]
       IN  health' = [health EXCEPT ![e] = [h EXCEPT !.status = "repairing", !.active = TRUE,
                        !.prev = IF health[e] = NoHealth THEN "" ELSE h.status]]
    /\ job' = [job EXCEPT ![x].todo = @ \ {e}, ![x].busy = @ \cup {e}]
    /\ UNCHANGED <<world, runs, control, calls>>

\* A file that its entry has lost, an error, a client that cannot check and a
\* cancelled context all leave the question open.
Outcomes(x, f) ==
    {"unknown"} \cup (IF f \notin listed \/ Done(x) THEN {}
                      ELSE IF f \in gone THEN {"broken"} ELSE {"healthy"})

ProbeFiles(x, e) ==
    /\ e \in job[x].busy /\ ~Probed(x, e)
    /\ \E R \in [NamesOf(x, e) -> {"unknown", "broken", "healthy"}] :
          /\ \A f \in NamesOf(x, e) : R[f] \in Outcomes(x, f)
          /\ job' = [job EXCEPT ![x].res = [f \in Files |-> IF f \in NamesOf(x, e) THEN R[f] ELSE @[f]]]
    /\ UNCHANGED <<world, health, runs, control, calls>>

BrokenIn(x, e) == {f \in NamesOf(x, e) : job[x].res[f] = "broken"}
Healing(x, e) == {h \in TorrentHashes : \E f \in BrokenIn(x, e) : HashOf[f] = h}
Exists(h)     == \E f \in listed : HashOf[f] = h

\* autoHealResults: one re-insertion for each info hash in a run.
Heal(x, e, h) ==
    /\ e \in job[x].busy /\ Probed(x, e)
    /\ h \in Healing(x, e) /\ Exists(h) /\ job[x].heal[h] = "-"
    /\ \/ /\ ~Done(x)
          /\ gone' = gone \ {f \in Files : HashOf[f] = h}
          /\ job' = [job EXCEPT ![x].heal[h] = "healed"]
       \/ /\ job' = [job EXCEPT ![x].heal[h] = "failed"]
          /\ UNCHANGED gone
    /\ UNCHANGED <<listed, hidden, rows, sought, health, runs, control, calls>>

StillBroken(x, e) == {f \in BrokenIn(x, e) : job[x].heal[HashOf[f]] # "healed"}
Repaired(x, e)    == BrokenIn(x, e) \ StillBroken(x, e)

\* rollupStatus: one broken file fails the entry; healthy wins over unknown.
Rollup(x, e) ==
    IF StillBroken(x, e) # {} THEN "broken"
    ELSE IF \E f \in NamesOf(x, e) : job[x].res[f] = "healthy" \/ f \in Repaired(x, e) THEN "healthy"
    ELSE "unknown"

Verdict(x, e) ==
    [status |-> Rollup(x, e), prev |-> "", active |-> FALSE, dirty |-> FALSE,
     broken |-> StillBroken(x, e), known |-> StillBroken(x, e) \cap job[x].known,
     count  |-> Cardinality(NamesOf(x, e))]

\* probeEntry, second half; a run saves its own record too.
ProbeEnd(x, e) ==
    /\ e \in job[x].busy /\ Probed(x, e)
    /\ \A h \in Healing(x, e) : Exists(h) => job[x].heal[h] # "-"
    /\ health' = [health EXCEPT ![e] = Verdict(x, e)]
    /\ job' = [job EXCEPT ![x].busy = @ \ {e}, ![x].out[e] = Verdict(x, e)]
    /\ runs' = IF x \in RunIds THEN [runs EXCEPT ![x] = "running"] ELSE runs
    /\ UNCHANGED <<world, control, calls>>

\* The group waits for the probes under way; the others see the context.
ProbingOver(x) == AtJob(x, "probe") /\ job[x].busy = {} /\ (job[x].todo = {} \/ Done(x))

ToRepair(x) == job' = [job EXCEPT ![x].pc = "arrs", ![x].todo = {e \in Entries :
                          job[x].out[e] # NoHealth /\ Fixable(job[x].out[e])}]

\* Mutant: a run that is stopped while it probes ends without a record.
AfterProbing_Silent(r) ==
    /\ r \in RunIds /\ ProbingOver(r)
    /\ \/ /\ Done(r) /\ UNCHANGED runs
          /\ job' = [job EXCEPT ![r] = [Idle EXCEPT !.kind = "over", !.pc = "leave"]]
       \/ ~Done(r) /\ job[r].fix /\ ToRepair(r) /\ runs' = [runs EXCEPT ![r] = "running"]
       \/ ~Done(r) /\ ~job[r].fix /\ Finalizes(r, "completed")
    /\ UNCHANGED <<world, health, control, calls>>

AfterProbing(r) ==
    /\ r \in RunIds /\ ProbingOver(r)
    /\ \/ Done(r) /\ Finalizes(r, "cancelled")
       \/ ~Done(r) /\ job[r].fix /\ ToRepair(r) /\ runs' = [runs EXCEPT ![r] = "running"]
       \/ ~Done(r) /\ ~job[r].fix /\ Finalizes(r, "completed")
    /\ UNCHANGED <<world, health, control, calls>>

-----------------------------------------------------------------------------
(* repairBroken *)

ToDelete(x)  == UNION {job[x].out[e].known : e \in job[x].todo}
ArrsOf(x)    == {ArrOf[f] : f \in ToDelete(x)}
OfArr(x, a)  == {f \in ToDelete(x) : ArrOf[f] = a}

\* The grab of each file is looked up, then the rows are deleted.  A done
\* context returns at once; a failed deletion goes on to the next arr.
DeleteFiles(x, a) ==
    /\ AtJob(x, "arrs") /\ a \in ArrsOf(x) \ job[x].arrs
    /\ ~Done(x)
    /\ \/ \E G \in SUBSET OfArr(x, a) :
             /\ rows' = rows \ OfArr(x, a)
             /\ sought' = sought \ OfArr(x, a)
             /\ job' = [job EXCEPT ![x].pc = "grabs", ![x].arrs = @ \cup {a},
                                   ![x].grab = G, ![x].need = OfArr(x, a) \ G, ![x].ok = @ \cup {a}]
             /\ UNCHANGED runs
       \/ /\ job' = [job EXCEPT ![x].arrs = @ \cup {a}]
          /\ runs' = IF x \in RunIds THEN [runs EXCEPT ![x] = "running"] ELSE runs
          /\ UNCHANGED <<rows, sought>>
    /\ UNCHANGED <<gone, listed, hidden, health, control, calls>>

\* MarkHistoryFailed for each grab; one that fails is logged.
MarkGrabs(x) ==
    /\ AtJob(x, "grabs") /\ ~(Done(x) /\ job[x].grab # {})
    /\ \E M \in SUBSET job[x].grab : sought' = sought \cup M
    /\ job' = [job EXCEPT ![x].pc = "search"]
    /\ UNCHANGED <<gone, listed, hidden, rows, health, runs, control, calls>>

\* SearchMissing, only for the files without a grab; an error is logged.
SearchMissing(x) ==
    /\ AtJob(x, "search")
    /\ \E ok \in BOOLEAN : sought' = IF ok THEN sought \cup job[x].need ELSE sought
    /\ job' = [job EXCEPT ![x].pc = "arrs"]
    /\ runs' = IF x \in RunIds THEN [runs EXCEPT ![x] = "running"] ELSE runs
    /\ UNCHANGED <<gone, listed, hidden, rows, health, control, calls>>

\* Returning early, with the context done.
RepairReturns(x) ==
    /\ Done(x)
    /\ \/ AtJob(x, "arrs") /\ ArrsOf(x) \ job[x].arrs # {}
       \/ AtJob(x, "grabs") /\ job[x].grab # {}
    /\ job' = [job EXCEPT ![x].pc = "after"]
    /\ UNCHANGED <<world, health, runs, control, calls>>

ArrsOver(x) ==
    /\ AtJob(x, "arrs") /\ ArrsOf(x) \subseteq job[x].arrs
    /\ job' = [job EXCEPT ![x].pc = "entries"]
    /\ UNCHANGED <<world, health, runs, control, calls>>

\* An entry is deleted when the record, read again, says that all its files
\* are broken and the arrs of all of them have dealt with them.
Deletable(x, h) ==
    /\ h.broken # {} /\ Cardinality(h.broken) = h.count
    /\ \A f \in h.broken : f \in h.known /\ ArrOf[f] \in job[x].ok

\* Storage.Delete: the item loses the files, and the record goes with it.
\* What is left of an item makes its entry dirty.
Dirtied(h) == [(IF h = NoHealth THEN NewHealth ELSE h) EXCEPT !.dirty = TRUE]
DeleteEntries(H) ==
    LET F == {f \in listed : HashOf[f] \in H}
        L == listed \ F
    IN  /\ listed' = L /\ hidden' = hidden \cap L
        /\ health' = [e \in Entries |->
             IF FilesOf(e) \cap F = {} THEN health[e]
             ELSE IF FilesOf(e) \cap L = {} THEN NoHealth ELSE Dirtied(health[e])]

RepairEntry(x, e) ==
    /\ AtJob(x, "entries") /\ e \in job[x].todo
    /\ job' = [job EXCEPT ![x].todo = @ \ {e}]
    /\ IF health[e] # NoHealth /\ Deletable(x, health[e])
       THEN DeleteEntries({HashOf[f] : f \in health[e].broken})
       ELSE UNCHANGED <<health, listed, hidden>>
    /\ UNCHANGED <<gone, rows, sought, runs, control, calls>>

EntriesOver(x) ==
    /\ AtJob(x, "entries") /\ job[x].todo = {}
    /\ job' = [job EXCEPT ![x].pc = "after"]
    /\ UNCHANGED <<world, health, runs, control, calls>>

AfterRepair(r) ==
    /\ r \in RunIds /\ AtJob(r, "after")
    /\ Finalizes(r, IF Done(r) THEN "cancelled" ELSE "completed")
    /\ UNCHANGED <<world, health, control, calls>>

-----------------------------------------------------------------------------
(* clearBroken *)

\* RemoveTorrentFile of the files in the snapshot, then the record of the
\* snapshot is written; the last file of an item takes the entry with it.
\* A file that cannot be removed stays in the record.
ClearEntry(r, e) ==
    /\ AtJob(r, "clear") /\ e \in job[r].todo /\ ~Done(r)
    /\ \E kept \in SUBSET job[r].out[e].broken :
          LET h   == job[r].out[e]
              cut == (h.broken \ kept) \cap (listed \ hidden)
              old == [h EXCEPT !.broken = kept, !.known = @ \cap kept]
          IN  \E L \in IF cut # {} /\ ItemOf(e) \subseteq hidden \cup cut
                       THEN {{f \in listed : HashOf[f] # HashOf[c]} : c \in cut} ELSE {listed} :
                 /\ listed' = L /\ hidden' = (hidden \cup cut) \cap L
                 /\ health' = [health EXCEPT ![e] =
                      IF kept # {} THEN old
                      ELSE IF FilesOf(e) \cap L = {} THEN NoHealth
                      ELSE [old EXCEPT !.status = "unknown", !.dirty = FALSE]]
    /\ job' = [job EXCEPT ![r].todo = @ \ {e}]
    /\ runs' = [runs EXCEPT ![r] = "running"]
    /\ UNCHANGED <<gone, rows, sought, control, calls>>

ClearOver(r) ==
    /\ AtJob(r, "clear") /\ (job[r].todo = {} \/ Done(r))
    /\ Finalizes(r, IF Done(r) THEN "cancelled" ELSE "completed")
    /\ UNCHANGED <<world, health, control, calls>>

-----------------------------------------------------------------------------
(* RecheckEntry: not under the lock of the runs *)

RecheckEntry(c, e) ==
    /\ Event /\ job[c] = Idle
    /\ ItemExists(e) /\ (health[e] # NoHealth => ~health[e].active)
    /\ \E fix \in BOOLEAN :
          job' = [job EXCEPT ![c] = [Idle EXCEPT !.kind = "recheck", !.pc = "probe", !.fix = fix,
                    !.todo = {e}, !.names = listed \ hidden, !.known = IF fix THEN rows ELSE {}]]
    /\ UNCHANGED <<world, health, runs, control, marker, call>>

AfterRecheck(c) ==
    /\ c \in Rechecks
    /\ \/ ProbingOver(c) /\ (IF job[c].fix /\ \E e \in Entries : job[c].out[e] # NoHealth /\ Fixable(job[c].out[e])
                             THEN ToRepair(c) ELSE job' = [job EXCEPT ![c] = Idle])
       \/ AtJob(c, "after") /\ job' = [job EXCEPT ![c] = Idle]
    /\ UNCHANGED <<world, health, runs, control, calls>>

-----------------------------------------------------------------------------
(* Stopping *)

StopRunCaptures ==
    /\ Event /\ stopRun.pc = "idle" /\ cancelRun # 0
    /\ stopRun' = [pc |-> "save", id |-> cancelRun]
    /\ UNCHANGED <<world, health, runs, active, cancelRun, cancelled, stop, job, marker, call>>

\* The record is flipped at once; the context is cancelled after that.
StopRunSaves ==
    /\ stopRun.pc = "save"
    /\ runs' = IF runs[stopRun.id] = "running" THEN [runs EXCEPT ![stopRun.id] = "cancelled"] ELSE runs
    /\ stopRun' = [stopRun EXCEPT !.pc = "cancel"]
    /\ UNCHANGED <<world, health, active, cancelRun, cancelled, stop, job, calls>>

StopRunCancels ==
    /\ stopRun.pc = "cancel"
    /\ cancelled' = cancelled \cup {stopRun.id}
    /\ stopRun' = [pc |-> "idle", id |-> 0]
    /\ UNCHANGED <<world, health, runs, active, cancelRun, stop, job, calls>>

\* Mutant: the id is emptied and the cancel function stays.
StopLocks_KeepsCancel ==
    /\ Event /\ stop.pc = "idle"
    /\ stop' = [pc |-> "cancel", id |-> cancelRun]
    /\ active' = 0 /\ UNCHANGED cancelRun
    /\ UNCHANGED <<world, health, runs, cancelled, stopRun, job, marker, call>>

\* ApplyConfig: Stop gives the lock up before it cancels, then waits for the
\* goroutines, or 30 s; Start reconciles.
StopLocks ==
    /\ Event /\ stop.pc = "idle"
    /\ stop' = [pc |-> "cancel", id |-> cancelRun]
    /\ active' = 0 /\ cancelRun' = 0
    /\ UNCHANGED <<world, health, runs, cancelled, stopRun, job, marker, call>>

StopCancels ==
    /\ stop.pc = "cancel"
    /\ cancelled' = IF stop.id # 0 THEN cancelled \cup {stop.id} ELSE cancelled
    /\ stop' = [stop EXCEPT !.pc = "drain"]
    /\ UNCHANGED <<world, health, runs, active, cancelRun, stopRun, job, calls>>

\* reconcileOrphans.
Reconciled(h) ==
    IF h = NoHealth \/ ~h.active THEN h
    ELSE [h EXCEPT !.status = IF h.prev # "" THEN h.prev ELSE "unknown", !.active = FALSE, !.prev = ""]
\* Mutant: the records of the runs are not looked at.
Reconcile_HealthOnly ==
    /\ UNCHANGED runs
    /\ health' = [e \in Entries |-> Reconciled(health[e])]
Reconcile ==
    /\ runs' = [r \in RunIds |-> IF runs[r] = "running" THEN "cancelled" ELSE runs[r]]
    /\ health' = [e \in Entries |-> Reconciled(health[e])]

Start ==
    /\ stop.pc = "drain"
    /\ Reconcile
    /\ stop' = [pc |-> "idle", id |-> 0]
    /\ UNCHANGED <<world, active, cancelRun, cancelled, stopRun, job, calls>>

\* The process dies and is started again.
Restart ==
    /\ Event
    /\ Reconcile
    /\ active' = 0 /\ cancelRun' = 0
    /\ job' = [x \in Jobs |-> IF job[x].kind = "none" \/ x \in Rechecks THEN Idle ELSE [Idle EXCEPT !.kind = "over"]]
    /\ marker' = NoHealth /\ call' = Idle
    /\ stopRun' = [pc |-> "idle", id |-> 0] /\ stop' = [pc |-> "idle", id |-> 0]
    /\ UNCHANGED <<world, cancelled>>

-----------------------------------------------------------------------------
(* What happens around the repair service *)

\* MarkEntryDirty, when the files of an item change.
MarkReads(e) ==
    /\ Event /\ marker = NoHealth /\ ItemExists(e)
    /\ marker' = [e |-> e, h |-> Dirtied(health[e])]
    /\ UNCHANGED <<world, health, runs, control, job, call>>

MarkSaves ==
    /\ marker # NoHealth
    /\ health' = [health EXCEPT ![marker.e] = marker.h]
    /\ marker' = NoHealth
    /\ UNCHANGED <<world, runs, control, job, call, events>>

\* ClearStates: refused while a run is active.
ClearStates ==
    /\ Event /\ active = 0
    /\ \E S \in {{"broken"}, {"healthy", "unknown"}} :
          health' = [e \in Entries |-> IF health[e] # NoHealth /\ health[e].status \in S THEN NoHealth ELSE health[e]]
    /\ UNCHANGED <<world, runs, control, job, marker, call>>

\* A provider loses a file.
Lose(f) ==
    /\ Event /\ f \notin gone
    /\ gone' = gone \cup {f}
    /\ UNCHANGED <<listed, hidden, rows, sought, health, runs, control, job, marker, call>>

-----------------------------------------------------------------------------
RunStep(r) ==
    \/ SaveRun(r) \/ Select(r) \/ SelectEnds(r) \/ AfterProbing(r)
    \/ AfterRepair(r) \/ ClearOver(r) \/ Leave(r)
    \/ \E e \in Entries : ClearEntry(r, e)

JobStep(x) ==
    \/ \E e \in Entries : ProbeStart(x, e) \/ ProbeFiles(x, e) \/ ProbeEnd(x, e) \/ RepairEntry(x, e)
    \/ \E e \in Entries, h \in Hashes : Heal(x, e, h)
    \/ \E a \in Arrs : DeleteFiles(x, a)
    \/ MarkGrabs(x) \/ SearchMissing(x) \/ RepairReturns(x) \/ ArrsOver(x) \/ EntriesOver(x)

AdminStep == StopRunSaves \/ StopRunCancels \/ StopCancels \/ Start \/ MarkSaves \/ RefuseCollected

RepairNext ==
    \/ \E r \in RunIds : RunSweep(r) \/ StartCollected(r) \/ RunStep(r)
    \/ \E x \in Jobs : JobStep(x)
    \/ \E c \in Rechecks, e \in Entries : RecheckEntry(c, e)
    \/ \E c \in Rechecks : AfterRecheck(c)
    \/ CollectBroken \/ ClearStates
    \/ StopRunCaptures \/ StopLocks \/ Restart
    \/ AdminStep
    \/ \E e \in Entries : MarkReads(e)
    \/ \E f \in Files : Lose(f)

\* Goroutines run on; probes and requests to the arrs end.
RepairFairness ==
    /\ \A r \in RunIds : WF_repairVars(RunStep(r))
    /\ \A x \in Jobs : WF_repairVars(JobStep(x))
    /\ WF_repairVars(AdminStep)

RepairSpec     == RepairInit /\ [][RepairNext]_repairVars
FairRepairSpec == RepairSpec /\ RepairFairness

-----------------------------------------------------------------------------
RepairTypeOK ==
    /\ gone \subseteq Files /\ listed \subseteq Files /\ hidden \subseteq listed
    /\ rows \subseteq Files /\ sought \subseteq Files \ rows
    /\ health \in [Entries -> Health \cup {NoHealth}]
    /\ runs \in [RunIds -> {"none", "running", "completed", "failed", "cancelled"}]
    /\ active \in 0 .. MaxRuns /\ cancelRun \in {0, active} /\ cancelled \subseteq RunIds
    /\ \A x \in Jobs :
          /\ job[x].todo \cup job[x].busy \subseteq Entries /\ job[x].names \subseteq Files
          /\ job[x].out \in [Entries -> Health \cup {NoHealth}]
          /\ job[x].grab \cap job[x].need = {} /\ job[x].ok \subseteq job[x].arrs
    /\ marker = NoHealth \/ marker \in [e : Entries, h : Health]
    /\ events \in 0 .. MaxEvents

AtWork(r) == job[r].pc \notin {"idle", "leave"}

\* At most one run is at work and not on its way out, whatever is started,
\* stopped and reconfigured meanwhile (Repair.activeRunID and Stop, which
\* empties it before it cancels the run).
OneRun ==
    \A q, r \in RunIds :
        q # r /\ AtWork(q) /\ AtWork(r) =>
            \/ q \in cancelled \/ r \in cancelled
            \/ stop.pc = "cancel" /\ stop.id \in {q, r}

\* Progress is saved by several goroutines and by StopRun: a run whose
\* goroutine is over is never "running" in the store.
EndedIsFinal == \A r \in RunIds : job[r].kind = "over" => runs[r] # "running"

\* Every run that was recorded ends in a final status, also when it is
\* stopped, the configuration is applied or the process restarts (finalizeRun,
\* reconcileOrphans).
RunsEnd == \A r \in RunIds : runs[r] = "running" ~> runs[r] \notin {"none", "running"}

\* Refuted by TLC.  repairBroken deletes an entry only when "every broken file was
\* successfully handled (Arr-deleted + re-searched)".
DeletedWereSought ==
    [][\A x \in Jobs, e \in Entries :
          RepairEntry(x, e) => \A f \in listed \ listed' : f \in sought \ rows]_repairVars

\* Refuted by TLC.  "so the next sweep will re-probe it": a mark is not lost to a probe that
\* read the files before.
DirtySurvives ==
    [][\A x \in Jobs, e \in Entries :
          ProbeEnd(x, e) /\ health[e] # NoHealth => ~health[e].dirty \/ health'[e].dirty]_repairVars

\* Refuted by TLC.  A cancel that landed in the store is not clobbered.
CancelSticks == [][\A r \in RunIds : runs[r] = "cancelled" => runs'[r] = "cancelled"]_repairVars

=============================================================================
