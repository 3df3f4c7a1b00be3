----------------------------- MODULE ManagerProofs -----------------------------
(***************************************************************************)
(* Proofs about the repair service (RepairSweep): for any entries, files,  *)
(* arrs, runs and rechecks, one run is at work at a time and a run that    *)
(* has ended is never recorded as running again; about what a start does   *)
(* to the store (StoreMigration): for any cache, entries and crashes, a    *)
(* start that serves has brought in everything, unless something failed;   *)
(* and about the refresh of the torrent lists (TorrentEntries): for any    *)
(* debrids and torrents, the store ends up with the list of a debrid whose *)
(* placements nobody else writes any more.                                 *)
(***************************************************************************)
EXTENDS Manager,
        SequenceTheorems, FiniteSetTheorems, WellFoundedInduction, TLAPS

Kinds    == {"none", "sweep", "media", "fix", "clear", "recheck", "over"}
Places   == {"idle", "save", "select", "probe", "arrs", "grabs", "search", "entries",
             "after", "clear", "leave"}
Healths  == Health \cup {NoHealth}
RunStates == {"none", "running", "completed", "failed", "cancelled"}
JobRecords ==
    [kind : Kinds, pc : Places, fix : BOOLEAN, names : SUBSET Files, known : SUBSET Files,
     todo : SUBSET Entries, busy : SUBSET Entries,
     res : [Files -> {"-", "unknown", "broken", "healthy"}],
     heal : [Hashes -> {"-", "healed", "failed"}],
     out : [Entries -> Healths],
     arrs : SUBSET Arrs, ok : SUBSET Arrs, need : SUBSET Files, grab : SUBSET Files]

WorldTyped ==
    /\ gone \subseteq Files /\ listed \subseteq Files /\ hidden \subseteq listed
    /\ rows \subseteq Files /\ sought \subseteq Files \ rows

\* The goroutine starts where its kind says; what it deletes or clears are
\* entries with a record.
RepairPlaces == {"arrs", "grabs", "search", "clear"}
Gathered(j) ==
    /\ j.pc = "save"   => j.kind \in {"sweep", "media", "fix", "clear"}
    /\ j.pc = "select" => j.kind \in {"sweep", "media"}
    /\ j.kind \in {"fix", "clear"} \/ j.pc \in RepairPlaces => \A e \in j.todo : j.out[e] \in Health

CallTyped ==
    /\ call \in JobRecords /\ call.kind # "over" /\ call.grab = {} /\ call.need = {} /\ call.ok = {}
    /\ Gathered(call) /\ (call # Idle => call.pc = "save")
JobsTyped == job \in [Jobs -> JobRecords] /\ CallTyped

\* The lists of an arr's files are apart, and of rows that are deleted.
Sorted(j) == j.grab \cap j.need = {} /\ (j.grab \cup j.need) \cap rows = {} /\ j.ok \subseteq j.arrs

\* A goroutine that is over has nothing left but to leave.
Over(j) == j.kind = "over" => j.pc \in {"leave", "idle"} /\ j.busy = {}

ControlTyped ==
    /\ health \in [Entries -> Healths]
    /\ runs \in [RunIds -> RunStates]
    /\ active \in 0 .. MaxRuns /\ cancelRun = active /\ cancelled \subseteq RunIds
    /\ stopRun \in [pc : {"idle", "save", "cancel"}, id : 0 .. MaxRuns]
    /\ stopRun.pc # "idle" => stopRun.id # 0
    /\ stop \in [pc : {"idle", "cancel", "drain"}, id : 0 .. MaxRuns]
    /\ marker = NoHealth \/ marker \in [e : Entries, h : Health]
    /\ events \in 0 .. MaxEvents

\* A run is at work as the active one, or it is cancelled, or a Stop that has
\* emptied activeRunID is about to cancel it.
Held(r) == r = active \/ r \in cancelled \/ (stop.pc = "cancel" /\ stop.id = r)
WorkIsHeld == \A r \in RunIds : AtWork(r) => Held(r)

SweepInv ==
    /\ WorldTyped /\ JobsTyped /\ ControlTyped
    /\ \A x \in Jobs : Sorted(job[x]) /\ Over(job[x]) /\ Gathered(job[x])
    /\ WorkIsHeld /\ EndedIsFinal

-----------------------------------------------------------------------------
(* Records *)

LEMMA IdleTyped == Idle \in JobRecords /\ Idle.kind = "none" /\ Idle.pc = "idle" /\ Idle.busy = {}
                   /\ Idle.grab = {} /\ Idle.need = {} /\ Idle.ok = {} /\ Idle.arrs = {}
  BY DEF Idle, JobRecords, Kinds, Places, Healths

\* One goroutine's record is replaced, the others stay.
LEMMA JobUpdate ==
    ASSUME job \in [Jobs -> JobRecords], NEW x \in Jobs, NEW j \in JobRecords,
           job' = [job EXCEPT ![x] = j]
    PROVE  /\ job' \in [Jobs -> JobRecords] /\ job'[x] = j
           /\ \A y \in Jobs : y # x => job'[y] = job[y]
  OBVIOUS

LEMMA NewHealthTyped == NewHealth \in Health
  BY FS_EmptySet, RepairAssumption, FS_CardinalityType DEF NewHealth, Health, Statuses

LEMMA DirtiedTyped == ASSUME NEW h \in Healths PROVE Dirtied(h) \in Health
<1>1. CASE h = NoHealth
  <2>1. [NewHealth EXCEPT !.dirty = TRUE] \in Health BY NewHealthTyped DEF Health
  <2> QED BY <1>1, <2>1 DEF Dirtied
<1>2. CASE h # NoHealth
  <2>1. h \in Health BY <1>2 DEF Healths
  <2>2. [h EXCEPT !.dirty = TRUE] \in Health BY <2>1 DEF Health
  <2> QED BY <1>2, <2>2 DEF Dirtied
<1> QED BY <1>1, <1>2

LEMMA ReconciledTyped == ASSUME NEW h \in Healths PROVE Reconciled(h) \in Healths
<1>1. CASE h = NoHealth \/ ~h.active BY <1>1 DEF Reconciled
<1>2. CASE ~(h = NoHealth \/ ~h.active)
  <2>1. h \in Health BY <1>2 DEF Healths
  <2>2. (IF h.prev # "" THEN h.prev ELSE "unknown") \in Statuses BY <2>1 DEF Health, Statuses
  <2>3. \A s \in Statuses : [h EXCEPT !.status = s, !.active = FALSE, !.prev = ""] \in Health
    BY <2>1 DEF Health
  <2>4. Reconciled(h) = [h EXCEPT !.status = IF h.prev # "" THEN h.prev ELSE "unknown",
                                  !.active = FALSE, !.prev = ""]
    BY <1>2 DEF Reconciled
  <2> QED BY <2>2, <2>3, <2>4 DEF Healths
<1> QED BY <1>1, <1>2

LEMMA VerdictTyped == ASSUME JobsTyped, NEW x \in Jobs, NEW e PROVE Verdict(x, e) \in Health
<1>1. job[x] \in JobRecords BY DEF JobsTyped
<1>2. job[x].names \subseteq Files /\ job[x].known \subseteq Files BY <1>1 DEF JobRecords
<1>3. StillBroken(x, e) \subseteq Files BY <1>2 DEF StillBroken, BrokenIn, NamesOf
<1>4. Rollup(x, e) \in Statuses BY DEF Rollup, Statuses
<1>5. Cardinality(NamesOf(x, e)) \in 0 .. Cardinality(Files)
  <2>1. NamesOf(x, e) \subseteq Files BY <1>2 DEF NamesOf
  <2>2. IsFiniteSet(Files) BY RepairAssumption
  <2>3. IsFiniteSet(NamesOf(x, e)) /\ Cardinality(NamesOf(x, e)) <= Cardinality(Files)
    BY <2>1, <2>2, FS_Subset
  <2> QED BY <2>2, <2>3, FS_CardinalityType
<1> QED BY <1>3, <1>4, <1>5 DEF Verdict, Health

-----------------------------------------------------------------------------
(* Steps of a goroutine *)

\* The goroutine of x has moved on, and is not over.
MovedOn(x) ==
    /\ job' \in [Jobs -> JobRecords] /\ \A y \in Jobs : y # x => job'[y] = job[y]
    /\ job[x].kind # "over" /\ job'[x].kind = job[x].kind
    /\ job'[x].pc = job[x].pc \/ job[x].pc \notin {"idle", "leave"}

\* The lists of x's files are as they were, and it has no more to do.
SameLists(x) ==
    /\ job'[x].grab = job[x].grab /\ job'[x].need = job[x].need
    /\ job'[x].ok = job[x].ok /\ job'[x].arrs = job[x].arrs
Onwards(x) ==
    /\ job'[x].todo \subseteq job[x].todo
    /\ \A d \in Entries : job'[x].out[d] \in {job[x].out[d]} \cup Health
    /\ \/ job'[x].pc = job[x].pc
       \/ job'[x].pc \notin {"save", "select"} \cup RepairPlaces
       \/ job'[x].pc \in RepairPlaces /\ job[x].pc \in RepairPlaces

\* What a goroutine does to everything else.
Around(x) ==
    /\ WorldTyped' /\ rows' \subseteq rows
    /\ health' \in [Entries -> Healths]
    /\ runs' = runs \/ (x \in RunIds /\ runs' = [runs EXCEPT ![x] = "running"])
    /\ UNCHANGED <<control, calls>>

Keeps(x) == MovedOn(x) /\ Sorted(job[x])' /\ Gathered(job'[x]) /\ Around(x)

LEMMA NotOver ==
    ASSUME SweepInv, NEW x \in Jobs,
           job[x].busy # {} \/ job[x].pc \notin {"idle", "leave"}
    PROVE  job[x].kind # "over" /\ job[x] \in JobRecords
  BY DEF SweepInv, JobsTyped, Over

LEMMA SortedStays ==
    ASSUME SweepInv, NEW x \in Jobs, SameLists(x), rows' \subseteq rows
    PROVE  Sorted(job[x])'
  BY DEF SweepInv, Sorted, SameLists

LEMMA GatheredStays ==
    ASSUME SweepInv, NEW x \in Jobs, MovedOn(x), Onwards(x)
    PROVE  Gathered(job'[x])
<1>1. Gathered(job[x]) /\ job[x].todo \subseteq Entries
  BY DEF SweepInv, JobsTyped, JobRecords
<1> QED BY <1>1 DEF Gathered, Onwards, MovedOn, RepairPlaces

LEMMA ProbeStartKeeps == ASSUME SweepInv, NEW x \in Jobs, NEW e \in Entries, ProbeStart(x, e) PROVE Keeps(x)
<1> DEFINE j == [job[x] EXCEPT !.todo = @ \ {e}, !.busy = @ \cup {e}]
<1>1. job[x].kind # "over" /\ job[x] \in JobRecords /\ job[x].pc = "probe" BY NotOver DEF ProbeStart, AtJob
<1>2. j \in JobRecords /\ j.kind = job[x].kind /\ j.pc = job[x].pc
      /\ j.grab = job[x].grab /\ j.need = job[x].need /\ j.ok = job[x].ok /\ j.arrs = job[x].arrs
      /\ j.todo \subseteq job[x].todo /\ (\A d \in Entries : j.out[d] \in {job[x].out[d]} \cup Health)
  BY <1>1 DEF JobRecords
<1>3. job \in [Jobs -> JobRecords] BY DEF SweepInv, JobsTyped
<1>4. job' = [job EXCEPT ![x] = j] BY <1>3 DEF ProbeStart
<1> HIDE DEF j
<1>5. MovedOn(x) /\ SameLists(x) /\ Onwards(x) BY <1>1, <1>2, <1>3, <1>4, JobUpdate DEF MovedOn, SameLists, Onwards
<1>6. health' \in [Entries -> Healths]
  <2> DEFINE h == IF health[e] = NoHealth THEN [NewHealth EXCEPT !.status = "unknown"] ELSE health[e]
             n == [h EXCEPT !.status = "repairing", !.active = TRUE,
                            !.prev = IF health[e] = NoHealth THEN "" ELSE h.status]
  <2>1. h \in Health
    <3>1. [NewHealth EXCEPT !.status = "unknown"] \in Health BY NewHealthTyped DEF Health, Statuses
    <3>2. health[e] \in Healths BY DEF SweepInv, ControlTyped
    <3> QED BY <3>1, <3>2 DEF Healths
  <2> HIDE DEF h
  <2>2. (IF health[e] = NoHealth THEN "" ELSE h.status) \in Statuses \cup {""} BY <2>1 DEF Health
  <2>3. n \in Health
    <3>1. \A p \in Statuses \cup {""} : [h EXCEPT !.status = "repairing", !.active = TRUE, !.prev = p] \in Health
      BY <2>1 DEF Health, Statuses
    <3> QED BY <2>2, <3>1
  <2>4. health' = [health EXCEPT ![e] = n] BY DEF ProbeStart, h
  <2> HIDE DEF n
  <2> QED BY <2>3, <2>4 DEF SweepInv, ControlTyped, Healths
<1>7. WorldTyped' /\ rows' = rows BY DEF SweepInv, WorldTyped, ProbeStart, world
<1>8. runs' = runs /\ UNCHANGED <<control, calls>> BY DEF ProbeStart
<1> QED BY <1>5, <1>6, <1>7, <1>8, SortedStays, GatheredStays DEF Keeps, Around

LEMMA ProbeFilesKeeps == ASSUME SweepInv, NEW x \in Jobs, NEW e \in Entries, ProbeFiles(x, e) PROVE Keeps(x)
<1>1. job[x].kind # "over" /\ job[x] \in JobRecords BY NotOver DEF ProbeFiles
<1>2. PICK R \in [NamesOf(x, e) -> {"unknown", "broken", "healthy"}] :
        job' = [job EXCEPT ![x].res = [f \in Files |-> IF f \in NamesOf(x, e) THEN R[f] ELSE @[f]]]
  BY DEF ProbeFiles
<1> DEFINE res == [f \in Files |-> IF f \in NamesOf(x, e) THEN R[f] ELSE job[x].res[f]]
           j   == [job[x] EXCEPT !.res = res]
<1>3. res \in [Files -> {"-", "unknown", "broken", "healthy"}]
  <2>1. job[x].res \in [Files -> {"-", "unknown", "broken", "healthy"}] BY <1>1 DEF JobRecords
  <2> QED BY <2>1
<1>4. job \in [Jobs -> JobRecords] BY DEF SweepInv, JobsTyped
<1>5. job' = [job EXCEPT ![x] = j] BY <1>2, <1>4
<1> HIDE DEF res
<1>6. j \in JobRecords /\ j.kind = job[x].kind /\ j.pc = job[x].pc
      /\ j.grab = job[x].grab /\ j.need = job[x].need /\ j.ok = job[x].ok /\ j.arrs = job[x].arrs
      /\ j.todo \subseteq job[x].todo /\ (\A d \in Entries : j.out[d] \in {job[x].out[d]} \cup Health)
  BY <1>1, <1>3 DEF JobRecords
<1> HIDE DEF j
<1>7. MovedOn(x) /\ SameLists(x) /\ Onwards(x) BY <1>1, <1>4, <1>5, <1>6, JobUpdate DEF MovedOn, SameLists, Onwards
<1>8. WorldTyped' /\ rows' = rows /\ health' \in [Entries -> Healths]
  BY DEF SweepInv, WorldTyped, ControlTyped, ProbeFiles, world
<1>9. runs' = runs /\ UNCHANGED <<control, calls>> BY DEF ProbeFiles
<1> QED BY <1>7, <1>8, <1>9, SortedStays, GatheredStays DEF Keeps, Around

LEMMA HealKeeps ==
    ASSUME SweepInv, NEW x \in Jobs, NEW e \in Entries, NEW h \in Hashes, Heal(x, e, h) PROVE Keeps(x)
<1>1. job[x].kind # "over" /\ job[x] \in JobRecords BY NotOver DEF Heal
<1>2. PICK w \in {"healed", "failed"} : job' = [job EXCEPT ![x].heal[h] = w] BY DEF Heal
<1> DEFINE j == [job[x] EXCEPT !.heal[h] = w]
<1>3. job \in [Jobs -> JobRecords] BY DEF SweepInv, JobsTyped
<1>4. job' = [job EXCEPT ![x] = j] BY <1>2, <1>3
<1>5. j \in JobRecords /\ j.kind = job[x].kind /\ j.pc = job[x].pc
      /\ j.grab = job[x].grab /\ j.need = job[x].need /\ j.ok = job[x].ok /\ j.arrs = job[x].arrs
      /\ j.todo \subseteq job[x].todo /\ (\A d \in Entries : j.out[d] \in {job[x].out[d]} \cup Health)
  <2>1. [job[x].heal EXCEPT ![h] = w] \in [Hashes -> {"-", "healed", "failed"}] BY <1>1 DEF JobRecords
  <2>2. j = [job[x] EXCEPT !.heal = [job[x].heal EXCEPT ![h] = w]] OBVIOUS
  <2> QED BY <1>1, <2>1, <2>2 DEF JobRecords
<1> HIDE DEF j
<1>6. MovedOn(x) /\ SameLists(x) /\ Onwards(x) BY <1>1, <1>3, <1>4, <1>5, JobUpdate DEF MovedOn, SameLists, Onwards
<1>7. WorldTyped' /\ rows' = rows /\ health' \in [Entries -> Healths]
  BY DEF SweepInv, WorldTyped, ControlTyped, Heal
<1>8. runs' = runs /\ UNCHANGED <<control, calls>> BY DEF Heal
<1> QED BY <1>6, <1>7, <1>8, SortedStays, GatheredStays DEF Keeps, Around

LEMMA ProbeEndKeeps == ASSUME SweepInv, NEW x \in Jobs, NEW e \in Entries, ProbeEnd(x, e) PROVE Keeps(x)
<1>1. job[x].kind # "over" /\ job[x] \in JobRecords BY NotOver DEF ProbeEnd
<1> DEFINE v == Verdict(x, e)
           j == [job[x] EXCEPT !.busy = @ \ {e}, !.out[e] = v]
<1>2. v \in Health BY VerdictTyped DEF SweepInv
<1> HIDE DEF v
<1>3. job \in [Jobs -> JobRecords] BY DEF SweepInv, JobsTyped
<1>4. job' = [job EXCEPT ![x] = j] BY <1>3 DEF ProbeEnd, v
<1>5. j \in JobRecords /\ j.kind = job[x].kind /\ j.pc = job[x].pc
      /\ j.grab = job[x].grab /\ j.need = job[x].need /\ j.ok = job[x].ok /\ j.arrs = job[x].arrs
      /\ j.todo \subseteq job[x].todo /\ (\A d \in Entries : j.out[d] \in {job[x].out[d]} \cup Health)
  <2>1. [job[x].out EXCEPT ![e] = v] \in [Entries -> Healths] BY <1>1, <1>2 DEF JobRecords, Healths
  <2>2. j = [job[x] EXCEPT !.busy = @ \ {e}, !.out = [job[x].out EXCEPT ![e] = v]] BY <1>1 DEF JobRecords
  <2>3. \A d \in Entries : [job[x].out EXCEPT ![e] = v][d] \in {job[x].out[d]} \cup Health
    BY <1>1, <1>2 DEF JobRecords
  <2>4. /\ j \in JobRecords /\ j.kind = job[x].kind /\ j.pc = job[x].pc /\ j.todo = job[x].todo
        /\ j.grab = job[x].grab /\ j.need = job[x].need /\ j.ok = job[x].ok /\ j.arrs = job[x].arrs
        /\ j.out = [job[x].out EXCEPT ![e] = v]
    BY <1>1, <2>1, <2>2 DEF JobRecords
  <2> HIDE DEF j
  <2> QED BY <2>3, <2>4
<1> HIDE DEF j
<1>6. MovedOn(x) /\ SameLists(x) /\ Onwards(x) BY <1>1, <1>3, <1>4, <1>5, JobUpdate DEF MovedOn, SameLists, Onwards
<1>7. WorldTyped' /\ rows' = rows /\ health' \in [Entries -> Healths]
  BY <1>2 DEF SweepInv, WorldTyped, ControlTyped, ProbeEnd, world, v, Healths
<1>8. (runs' = runs \/ (x \in RunIds /\ runs' = [runs EXCEPT ![x] = "running"])) /\ UNCHANGED <<control, calls>>
  BY DEF ProbeEnd
<1> QED BY <1>6, <1>7, <1>8, SortedStays, GatheredStays DEF Keeps, Around

\* A step that changes only where x is.
LEMMA PlaceKeeps ==
    ASSUME SweepInv, NEW x \in Jobs, NEW pc \in Places, job[x].pc \notin {"idle", "leave"},
           pc \notin {"save", "select"}, pc \in RepairPlaces => job[x].pc \in RepairPlaces,
           job' = [job EXCEPT ![x].pc = pc], Around(x)
    PROVE  Keeps(x)
<1> DEFINE j == [job[x] EXCEPT !.pc = pc]
<1>1. job[x].kind # "over" /\ job[x] \in JobRecords BY NotOver
<1>2. job \in [Jobs -> JobRecords] BY DEF SweepInv, JobsTyped
<1>3. job' = [job EXCEPT ![x] = j] BY <1>2
<1>4. j \in JobRecords /\ j.kind = job[x].kind /\ j.pc = pc
      /\ j.grab = job[x].grab /\ j.need = job[x].need /\ j.ok = job[x].ok /\ j.arrs = job[x].arrs
      /\ j.todo \subseteq job[x].todo /\ (\A d \in Entries : j.out[d] \in {job[x].out[d]} \cup Health)
  BY <1>1 DEF JobRecords
<1> HIDE DEF j
<1>5. MovedOn(x) /\ SameLists(x) /\ Onwards(x) BY <1>1, <1>2, <1>3, <1>4, JobUpdate DEF MovedOn, SameLists, Onwards
<1> QED BY <1>5, SortedStays, GatheredStays DEF Keeps, Around

LEMMA DeleteFilesKeeps == ASSUME SweepInv, NEW x \in Jobs, NEW a \in Arrs, DeleteFiles(x, a) PROVE Keeps(x)
<1>1. job[x].kind # "over" /\ job[x] \in JobRecords /\ job[x].pc = "arrs" BY NotOver DEF DeleteFiles, AtJob
<1>2. job \in [Jobs -> JobRecords] BY DEF SweepInv, JobsTyped
<1>3. health' \in [Entries -> Healths] /\ UNCHANGED <<gone, listed, hidden, control, calls>>
  BY DEF SweepInv, ControlTyped, DeleteFiles
<1>4. WorldTyped /\ Sorted(job[x]) BY DEF SweepInv
<1>5. CASE \E G \in SUBSET OfArr(x, a) :
             /\ rows' = rows \ OfArr(x, a)
             /\ sought' = sought \ OfArr(x, a)
             /\ job' = [job EXCEPT ![x].pc = "grabs", ![x].arrs = @ \cup {a},
                                   ![x].grab = G, ![x].need = OfArr(x, a) \ G, ![x].ok = @ \cup {a}]
             /\ UNCHANGED runs
  <2>1. PICK G \in SUBSET OfArr(x, a) :
             /\ rows' = rows \ OfArr(x, a)
             /\ sought' = sought \ OfArr(x, a)
             /\ job' = [job EXCEPT ![x].pc = "grabs", ![x].arrs = @ \cup {a},
                                   ![x].grab = G, ![x].need = OfArr(x, a) \ G, ![x].ok = @ \cup {a}]
             /\ UNCHANGED runs
    BY <1>5
  <2> DEFINE need == OfArr(x, a) \ G
             j == [job[x] EXCEPT !.pc = "grabs", !.arrs = @ \cup {a}, !.grab = G, !.need = need,
                                 !.ok = @ \cup {a}]
  <2>2. OfArr(x, a) \subseteq Files
    <3>1. \A e \in job[x].todo : job[x].out[e] \in Health
      BY <1>1 DEF SweepInv, Gathered, RepairPlaces
    <3>2. \A e \in job[x].todo : job[x].out[e].known \subseteq Files BY <3>1 DEF Health
    <3> QED BY <3>2 DEF OfArr, ToDelete
  <2>3. job' = [job EXCEPT ![x] = j] BY <1>2, <2>1
  <2>4. G \subseteq Files /\ need \subseteq Files BY <2>2
  <2>5. G \cap need = {} /\ (G \cup need) \cap rows' = {} BY <2>1
  <2> HIDE DEF need
  <2>6. j \in JobRecords /\ j.kind = job[x].kind /\ j.grab = G /\ j.need = need
        /\ j.ok = job[x].ok \cup {a} /\ j.arrs = job[x].arrs \cup {a}
        /\ j.todo = job[x].todo /\ j.out = job[x].out /\ j.pc = "grabs"
    BY <1>1, <2>4 DEF JobRecords, Places
  <2> HIDE DEF j
  <2>7. MovedOn(x) /\ Onwards(x) /\ job'[x] = j
    BY <1>1, <1>2, <2>3, <2>6, JobUpdate DEF MovedOn, Onwards, RepairPlaces
  <2>8. Sorted(job[x])' BY <1>4, <2>5, <2>6, <2>7 DEF Sorted
  <2>9. WorldTyped' /\ rows' \subseteq rows BY <1>3, <1>4, <2>1 DEF WorldTyped
  <2> QED BY <1>3, <2>1, <2>7, <2>8, <2>9, GatheredStays DEF Keeps, Around
<1>6. CASE /\ job' = [job EXCEPT ![x].arrs = @ \cup {a}]
           /\ runs' = IF x \in RunIds THEN [runs EXCEPT ![x] = "running"] ELSE runs
           /\ UNCHANGED <<rows, sought>>
  <2> DEFINE j == [job[x] EXCEPT !.arrs = @ \cup {a}]
  <2>1. job' = [job EXCEPT ![x] = j] BY <1>2, <1>6
  <2>2. j \in JobRecords /\ j.kind = job[x].kind /\ j.pc = job[x].pc /\ j.grab = job[x].grab /\ j.need = job[x].need
        /\ j.ok = job[x].ok /\ j.arrs = job[x].arrs \cup {a}
        /\ j.todo = job[x].todo /\ j.out = job[x].out
    BY <1>1 DEF JobRecords
  <2> HIDE DEF j
  <2>3. MovedOn(x) /\ Onwards(x) /\ job'[x] = j BY <1>1, <1>2, <2>1, <2>2, JobUpdate DEF MovedOn, Onwards
  <2>4. Sorted(job[x])' BY <1>4, <1>6, <2>2, <2>3 DEF Sorted
  <2>5. WorldTyped' /\ rows' \subseteq rows BY <1>3, <1>4, <1>6 DEF WorldTyped
  <2>6. runs' = runs \/ (x \in RunIds /\ runs' = [runs EXCEPT ![x] = "running"]) BY <1>6
  <2> QED BY <1>3, <2>3, <2>4, <2>5, <2>6, GatheredStays DEF Keeps, Around
<1> QED BY <1>5, <1>6 DEF DeleteFiles

LEMMA MarkGrabsKeeps == ASSUME SweepInv, NEW x \in Jobs, MarkGrabs(x) PROVE Keeps(x)
<1>1. job[x].pc = "grabs" /\ job' = [job EXCEPT ![x].pc = "search"] BY DEF MarkGrabs, AtJob
<1>2. job[x] \in JobRecords /\ Sorted(job[x]) BY <1>1, NotOver DEF SweepInv
<1>3. WorldTyped' /\ rows' = rows
  <2>1. job[x].grab \subseteq Files /\ job[x].grab \cap rows = {} BY <1>2 DEF JobRecords, Sorted
  <2>2. sought' \subseteq sought \cup job[x].grab BY DEF MarkGrabs
  <2> QED BY <2>1, <2>2 DEF MarkGrabs, SweepInv, WorldTyped
<1>4. Around(x) BY <1>3 DEF Around, MarkGrabs, SweepInv, ControlTyped
<1> QED BY <1>1, <1>4, PlaceKeeps DEF Places, RepairPlaces

LEMMA SearchMissingKeeps == ASSUME SweepInv, NEW x \in Jobs, SearchMissing(x) PROVE Keeps(x)
<1>1. job[x].pc = "search" /\ job' = [job EXCEPT ![x].pc = "arrs"] BY DEF SearchMissing, AtJob
<1>2. job[x] \in JobRecords /\ Sorted(job[x]) BY <1>1, NotOver DEF SweepInv
<1>3. WorldTyped' /\ rows' = rows
  <2>1. job[x].need \subseteq Files /\ job[x].need \cap rows = {} BY <1>2 DEF JobRecords, Sorted
  <2>2. sought' \subseteq sought \cup job[x].need BY DEF SearchMissing
  <2> QED BY <2>1, <2>2 DEF SearchMissing, SweepInv, WorldTyped
<1>4. Around(x) BY <1>3 DEF Around, SearchMissing, SweepInv, ControlTyped
<1> QED BY <1>1, <1>4, PlaceKeeps DEF Places, RepairPlaces

LEMMA RepairReturnsKeeps == ASSUME SweepInv, NEW x \in Jobs, RepairReturns(x) PROVE Keeps(x)
<1>1. job[x].pc \in {"arrs", "grabs"} /\ job' = [job EXCEPT ![x].pc = "after"] BY DEF RepairReturns, AtJob
<1>2. Around(x) BY DEF Around, RepairReturns, SweepInv, ControlTyped, WorldTyped, world
<1> QED BY <1>1, <1>2, PlaceKeeps DEF Places, RepairPlaces

LEMMA ArrsOverKeeps == ASSUME SweepInv, NEW x \in Jobs, ArrsOver(x) PROVE Keeps(x)
<1>1. job[x].pc = "arrs" /\ job' = [job EXCEPT ![x].pc = "entries"] BY DEF ArrsOver, AtJob
<1>2. Around(x) BY DEF Around, ArrsOver, SweepInv, ControlTyped, WorldTyped, world
<1> QED BY <1>1, <1>2, PlaceKeeps DEF Places, RepairPlaces

LEMMA EntriesOverKeeps == ASSUME SweepInv, NEW x \in Jobs, EntriesOver(x) PROVE Keeps(x)
<1>1. job[x].pc = "entries" /\ job' = [job EXCEPT ![x].pc = "after"] BY DEF EntriesOver, AtJob
<1>2. Around(x) BY DEF Around, EntriesOver, SweepInv, ControlTyped, WorldTyped, world
<1> QED BY <1>1, <1>2, PlaceKeeps DEF Places, RepairPlaces

LEMMA RepairEntryKeeps == ASSUME SweepInv, NEW x \in Jobs, NEW e \in Entries, RepairEntry(x, e) PROVE Keeps(x)
<1>1. job[x].kind # "over" /\ job[x] \in JobRecords /\ job[x].pc = "entries" BY NotOver DEF RepairEntry, AtJob
<1> DEFINE j == [job[x] EXCEPT !.todo = @ \ {e}]
<1>2. job \in [Jobs -> JobRecords] BY DEF SweepInv, JobsTyped
<1>3. job' = [job EXCEPT ![x] = j] BY <1>2 DEF RepairEntry
<1>4. j \in JobRecords /\ j.kind = job[x].kind /\ j.pc = job[x].pc
      /\ j.grab = job[x].grab /\ j.need = job[x].need /\ j.ok = job[x].ok /\ j.arrs = job[x].arrs
      /\ j.todo \subseteq job[x].todo /\ (\A d \in Entries : j.out[d] \in {job[x].out[d]} \cup Health)
  BY <1>1 DEF JobRecords
<1> HIDE DEF j
<1>5. MovedOn(x) /\ SameLists(x) /\ Onwards(x) BY <1>1, <1>2, <1>3, <1>4, JobUpdate DEF MovedOn, SameLists, Onwards
<1>6. gone' = gone /\ rows' = rows /\ sought' = sought /\ runs' = runs /\ UNCHANGED <<control, calls>>
  BY DEF RepairEntry
<1>7. listed' \subseteq listed /\ hidden' \subseteq listed' /\ health' \in [Entries -> Healths]
  <2>1. CASE UNCHANGED <<health, listed, hidden>> BY <2>1 DEF SweepInv, WorldTyped, ControlTyped
  <2>2. CASE \E H : DeleteEntries(H)
    <3>1. PICK H : DeleteEntries(H) BY <2>2
    <3>2. \A d \in Entries : Dirtied(health[d]) \in Healths
      BY DirtiedTyped DEF SweepInv, ControlTyped, Healths
    <3>3. health \in [Entries -> Healths] /\ NoHealth \in Healths BY DEF SweepInv, ControlTyped, Healths
    <3>4. health' \in [Entries -> Healths] BY <3>1, <3>2, <3>3 DEF DeleteEntries
    <3>5. listed' \subseteq listed /\ hidden' \subseteq listed' BY <3>1 DEF DeleteEntries
    <3> QED BY <3>4, <3>5
  <2> QED BY <2>1, <2>2 DEF RepairEntry
<1>8. Around(x) BY <1>6, <1>7 DEF Around, SweepInv, WorldTyped
<1> QED BY <1>5, <1>8, SortedStays, GatheredStays DEF Keeps, Around

LEMMA JobKeeps == ASSUME SweepInv, NEW x \in Jobs, JobStep(x) PROVE Keeps(x)
  BY ProbeStartKeeps, ProbeFilesKeeps, HealKeeps, ProbeEndKeeps, DeleteFilesKeeps, MarkGrabsKeeps,
     SearchMissingKeeps, RepairReturnsKeeps, ArrsOverKeeps, EntriesOverKeeps, RepairEntryKeeps
  DEF JobStep

LEMMA JobStepKeeps == ASSUME SweepInv, NEW x \in Jobs, JobStep(x) PROVE SweepInv'
<1>1. Keeps(x) BY JobKeeps
<1>2. WorldTyped' /\ job' \in [Jobs -> JobRecords] /\ UNCHANGED <<control, calls>>
  BY <1>1 DEF Keeps, MovedOn, Around
<1>3. JobsTyped' BY <1>2 DEF SweepInv, JobsTyped, CallTyped, calls, Idle, Gathered
<1>4. ControlTyped' BY <1>1 DEF SweepInv, ControlTyped, Keeps, Around, control, calls, RunStates
<1>5. \A y \in Jobs : Sorted(job[y])' /\ Over(job[y])' /\ Gathered(job[y])'
  <2>1. Sorted(job[x])' /\ Gathered(job[x])' /\ Over(job[x])' BY <1>1 DEF Keeps, MovedOn, Over, Gathered
  <2>2. ASSUME NEW y \in Jobs, y # x PROVE Sorted(job[y])' /\ Over(job[y])' /\ Gathered(job[y])'
    BY <1>1, <2>2 DEF Keeps, MovedOn, Around, SweepInv, Sorted, Over, Gathered
  <2> QED BY <2>1, <2>2
<1>6. WorkIsHeld'
  <2> SUFFICES ASSUME NEW r \in RunIds, AtWork(r)' PROVE Held(r)' BY DEF WorkIsHeld
  <2>1. AtWork(r) BY <1>1 DEF Keeps, MovedOn, AtWork, Jobs
  <2> QED BY <1>2, <2>1 DEF SweepInv, WorkIsHeld, Held, control
<1>7. EndedIsFinal'
  <2> SUFFICES ASSUME NEW r \in RunIds, job'[r].kind = "over" PROVE runs'[r] # "running" BY DEF EndedIsFinal
  <2>1. r # x BY <1>1 DEF Keeps, MovedOn
  <2>2. job[r].kind = "over" BY <1>1, <2>1 DEF Keeps, MovedOn, Jobs
  <2> QED BY <1>1, <2>1, <2>2 DEF SweepInv, EndedIsFinal, ControlTyped, Keeps, Around
<1> QED BY <1>2, <1>3, <1>4, <1>5, <1>6, <1>7 DEF SweepInv

-----------------------------------------------------------------------------
(* Steps of a run *)

LEMMA JobReplaced ==
    ASSUME SweepInv, NEW x \in Jobs, NEW j \in JobRecords, job' = [job EXCEPT ![x] = j], rows' = rows,
           Sorted(j), Over(j), Gathered(j)
    PROVE  /\ job' \in [Jobs -> JobRecords] /\ job'[x] = j /\ \A y \in Jobs : y # x => job'[y] = job[y]
           /\ \A y \in Jobs : Sorted(job[y])' /\ Over(job[y])' /\ Gathered(job[y])'
<1>1. job' \in [Jobs -> JobRecords] /\ job'[x] = j /\ \A y \in Jobs : y # x => job'[y] = job[y]
  BY JobUpdate DEF SweepInv, JobsTyped
<1>2. Sorted(job[x])' /\ Over(job[x])' /\ Gathered(job[x])' BY <1>1 DEF Sorted, Over, Gathered
<1>3. ASSUME NEW y \in Jobs, y # x PROVE Sorted(job[y])' /\ Over(job[y])' /\ Gathered(job[y])'
  BY <1>1, <1>3 DEF SweepInv, Sorted, Over, Gathered
<1> QED BY <1>1, <1>2, <1>3

LEMMA RunIsJob == RunIds \subseteq Jobs /\ RunIds = 1 .. MaxRuns /\ RunIds \cap Rechecks = {} /\ 0 \notin RunIds
  BY RepairAssumption DEF RunIds, Jobs

\* A run that was at work writes down that it is, and stays at work.
LEMMA WorkGoesOn ==
    ASSUME SweepInv, NEW r \in RunIds, NEW j \in JobRecords, job' = [job EXCEPT ![r] = j],
           AtWork(r), j.kind # "over", Sorted(j), Gathered(j),
           runs' = runs \/ runs' = [runs EXCEPT ![r] = "running"],
           WorldTyped', rows' = rows, health' \in [Entries -> Healths], UNCHANGED <<control, calls>>
    PROVE  SweepInv'
<1>1. Over(j) BY DEF Over
<1>2. /\ job' \in [Jobs -> JobRecords] /\ job'[r] = j /\ \A y \in Jobs : y # r => job'[y] = job[y]
      /\ \A y \in Jobs : Sorted(job[y])' /\ Over(job[y])' /\ Gathered(job[y])'
  BY <1>1, JobReplaced, RunIsJob
<1>3. JobsTyped' BY <1>2 DEF SweepInv, JobsTyped, CallTyped, calls, Idle, Gathered
<1>4. ControlTyped' BY DEF SweepInv, ControlTyped, control, calls, RunStates
<1>5. WorkIsHeld'
  <2> SUFFICES ASSUME NEW q \in RunIds, AtWork(q)' PROVE Held(q)' BY DEF WorkIsHeld
  <2>1. AtWork(q) BY <1>2, RunIsJob DEF AtWork
  <2> QED BY <2>1 DEF SweepInv, WorkIsHeld, Held, control
<1>6. EndedIsFinal' BY ZenonT(60), <1>2, RunIsJob DEF EndedIsFinal, SweepInv, ControlTyped
<1> QED BY <1>2, <1>3, <1>4, <1>5, <1>6 DEF SweepInv

\* The last record of a run.
LEMMA FinalizesKeeps ==
    ASSUME SweepInv, NEW r \in RunIds, NEW s \in {"completed", "failed", "cancelled"},
           Finalizes(r, s), UNCHANGED <<world, health, control, calls>>
    PROVE  SweepInv'
<1> DEFINE j == [Idle EXCEPT !.kind = "over", !.pc = "leave"]
<1>1. j \in JobRecords /\ j.kind = "over" /\ j.pc = "leave" /\ j.busy = {} /\ j.grab = {} /\ j.need = {}
      /\ j.ok = {} /\ j.arrs = {}
  BY IdleTyped DEF JobRecords, Kinds, Places
<1>2. job' = [job EXCEPT ![r] = j] BY DEF Finalizes
<1> HIDE DEF j
<1>3. Sorted(j) /\ Over(j) /\ Gathered(j) BY <1>1 DEF Sorted, Over, Gathered, RepairPlaces
<1>4. rows' = rows BY DEF world
<1>5. /\ job' \in [Jobs -> JobRecords] /\ job'[r] = j /\ \A y \in Jobs : y # r => job'[y] = job[y]
      /\ \A y \in Jobs : Sorted(job[y])' /\ Over(job[y])' /\ Gathered(job[y])'
  BY <1>1, <1>2, <1>3, <1>4, JobReplaced, RunIsJob
<1>6. runs' \in [RunIds -> RunStates] /\ runs'[r] # "running" /\ \A q \in RunIds : q # r => runs'[q] = runs[q]
  BY DEF SweepInv, ControlTyped, Finalizes, FinalStatus, RunStates
<1>7. JobsTyped' BY <1>5 DEF SweepInv, JobsTyped, CallTyped, calls, Idle, Gathered
<1>8. WorldTyped' /\ ControlTyped' BY <1>6 DEF SweepInv, WorldTyped, ControlTyped, world, control, calls
<1>9. WorkIsHeld'
  <2> SUFFICES ASSUME NEW q \in RunIds, AtWork(q)' PROVE Held(q)' BY DEF WorkIsHeld
  <2>1. q # r BY <1>1, <1>5 DEF AtWork
  <2>2. AtWork(q) BY <1>5, <2>1, RunIsJob DEF AtWork
  <2> QED BY <2>2 DEF SweepInv, WorkIsHeld, Held, control
<1>10. EndedIsFinal' BY <1>5, <1>6, RunIsJob DEF EndedIsFinal, SweepInv
<1> QED BY <1>5, <1>7, <1>8, <1>9, <1>10 DEF SweepInv

LEMMA SaveRunKeeps == ASSUME SweepInv, NEW r \in RunIds, SaveRun(r) PROVE SweepInv'
<1> DEFINE pc == FirstStage(job[r].kind)
           j  == [job[r] EXCEPT !.pc = pc]
<1>1. job[r].pc = "save" /\ job[r] \in JobRecords BY RunIsJob DEF SaveRun, AtJob, SweepInv, JobsTyped
<1>2. Sorted(job[r]) /\ Over(job[r]) /\ Gathered(job[r]) BY RunIsJob DEF SweepInv
<1>3. job[r].kind \in {"sweep", "media", "fix", "clear"} BY <1>1, <1>2 DEF Gathered
<1>4. /\ pc = "select" \/ pc \in {"arrs", "clear"}
      /\ pc = "select" <=> job[r].kind \in {"sweep", "media"}
  BY <1>3 DEF FirstStage
<1>5. job' = [job EXCEPT ![r] = j] BY RunIsJob DEF SaveRun, SweepInv, JobsTyped
<1> HIDE DEF pc
<1>6. j \in JobRecords /\ j.kind = job[r].kind /\ j.pc = pc /\ j.todo = job[r].todo /\ j.out = job[r].out
      /\ j.grab = job[r].grab /\ j.need = job[r].need /\ j.ok = job[r].ok /\ j.arrs = job[r].arrs
  BY <1>1, <1>4 DEF JobRecords, Places
<1> HIDE DEF j
<1>7. Sorted(j) /\ Gathered(j) BY <1>2, <1>3, <1>4, <1>6 DEF Sorted, Gathered, RepairPlaces
<1>8. /\ WorldTyped' /\ rows' = rows /\ health' \in [Entries -> Healths]
      /\ runs' = [runs EXCEPT ![r] = "running"] /\ UNCHANGED <<control, calls>>
  BY DEF SaveRun, SweepInv, WorldTyped, ControlTyped, world
<1> QED BY <1>1, <1>3, <1>5, <1>6, <1>7, <1>8, WorkGoesOn DEF AtWork

LEMMA SelectKeeps == ASSUME SweepInv, NEW r \in RunIds, Select(r) PROVE SweepInv'
<1>1. job[r].pc = "select" /\ job[r] \in JobRecords BY RunIsJob DEF Select, AtJob, SweepInv, JobsTyped
<1>2. Sorted(job[r]) /\ Over(job[r]) /\ Gathered(job[r]) BY RunIsJob DEF SweepInv
<1>3. job[r].kind \in {"sweep", "media"} BY <1>1, <1>2 DEF Gathered
<1>4. PICK S \in SUBSET Entries, known \in SUBSET Files :
        job' = [job EXCEPT ![r].pc = "probe", ![r].todo = S, ![r].names = listed \ hidden, ![r].known = known]
  <2>1. \A src : Candidates(src) \subseteq Entries /\ ContentMap(src) \subseteq Files
    BY DEF Candidates, ContentMap, SweepInv, WorldTyped
  <2> QED BY <2>1 DEF Select
<1> DEFINE names == listed \ hidden
           j == [job[r] EXCEPT !.pc = "probe", !.todo = S, !.names = names, !.known = known]
<1>5. job' = [job EXCEPT ![r] = j] BY <1>4, RunIsJob DEF SweepInv, JobsTyped
<1>6. names \subseteq Files BY DEF SweepInv, WorldTyped
<1> HIDE DEF names
<1>7. j \in JobRecords /\ j.kind = job[r].kind /\ j.pc = "probe"
      /\ j.grab = job[r].grab /\ j.need = job[r].need /\ j.ok = job[r].ok /\ j.arrs = job[r].arrs
  BY <1>1, <1>6 DEF JobRecords, Places
<1> HIDE DEF j
<1>8. Sorted(j) /\ Gathered(j) BY <1>2, <1>3, <1>7 DEF Sorted, Gathered, RepairPlaces
<1>9. /\ WorldTyped' /\ rows' = rows /\ health' \in [Entries -> Healths]
      /\ runs' = runs /\ UNCHANGED <<control, calls>>
  BY DEF Select, SweepInv, WorldTyped, ControlTyped, world
<1> QED BY <1>1, <1>3, <1>5, <1>7, <1>8, <1>9, WorkGoesOn DEF AtWork

LEMMA AfterProbingKeeps == ASSUME SweepInv, NEW r \in RunIds, AfterProbing(r) PROVE SweepInv'
<1>1. UNCHANGED <<world, health, control, calls>> BY DEF AfterProbing
<1>2. CASE Finalizes(r, "cancelled") \/ Finalizes(r, "completed") BY <1>1, <1>2, FinalizesKeeps
<1>3. CASE ToRepair(r) /\ runs' = [runs EXCEPT ![r] = "running"]
  <2>1. job[r].pc = "probe" /\ job[r] \in JobRecords
    BY RunIsJob DEF AfterProbing, ProbingOver, AtJob, SweepInv, JobsTyped
  <2>2. Sorted(job[r]) /\ Over(job[r]) /\ Gathered(job[r]) BY RunIsJob DEF SweepInv
  <2> DEFINE T == {e \in Entries : job[r].out[e] # NoHealth /\ Fixable(job[r].out[e])}
             j == [job[r] EXCEPT !.pc = "arrs", !.todo = T]
  <2>3. job' = [job EXCEPT ![r] = j] BY <1>3, RunIsJob DEF ToRepair, SweepInv, JobsTyped
  <2>4. \A e \in T : job[r].out[e] \in Health BY <2>1 DEF JobRecords, Healths
  <2>5. j \in JobRecords /\ j.kind = job[r].kind /\ j.pc = "arrs" /\ j.todo = T /\ j.out = job[r].out
        /\ j.grab = job[r].grab /\ j.need = job[r].need /\ j.ok = job[r].ok /\ j.arrs = job[r].arrs
    BY <2>1 DEF JobRecords, Places
  <2> HIDE DEF j, T
  <2>6. Sorted(j) /\ Gathered(j) BY <2>2, <2>4, <2>5 DEF Sorted, Gathered
  <2>7. job[r].kind # "over" BY <2>1, <2>2 DEF Over
  <2>8. WorldTyped' /\ rows' = rows /\ health' \in [Entries -> Healths]
    BY <1>1 DEF SweepInv, WorldTyped, ControlTyped, world
  <2> QED BY <1>1, <1>3, <2>1, <2>3, <2>5, <2>6, <2>7, <2>8, WorkGoesOn DEF AtWork
<1> QED BY <1>2, <1>3 DEF AfterProbing

LEMMA ClearEntryKeeps == ASSUME SweepInv, NEW r \in RunIds, NEW e \in Entries, ClearEntry(r, e) PROVE SweepInv'
<1>1. job[r].pc = "clear" /\ job[r] \in JobRecords /\ e \in job[r].todo
  BY RunIsJob DEF ClearEntry, AtJob, SweepInv, JobsTyped
<1>2. Sorted(job[r]) /\ Over(job[r]) /\ Gathered(job[r]) BY RunIsJob DEF SweepInv
<1>3. job[r].out[e] \in Health BY <1>1, <1>2 DEF Gathered, RepairPlaces
<1> DEFINE h == job[r].out[e]
           old(kept) == [h EXCEPT !.broken = kept, !.known = @ \cap kept]
           j == [job[r] EXCEPT !.todo = @ \ {e}]
<1>4. job' = [job EXCEPT ![r] = j] BY RunIsJob DEF ClearEntry, SweepInv, JobsTyped
<1>5. j \in JobRecords /\ j.kind = job[r].kind /\ j.pc = "clear" /\ j.todo \subseteq job[r].todo /\ j.out = job[r].out
      /\ j.grab = job[r].grab /\ j.need = job[r].need /\ j.ok = job[r].ok /\ j.arrs = job[r].arrs
  BY <1>1 DEF JobRecords
<1>6. listed' \subseteq listed /\ hidden' \subseteq listed' /\ health' \in [Entries -> Healths]
  <2>1. PICK kept \in SUBSET h.broken, L \in SUBSET listed :
          /\ listed' = L /\ hidden' \subseteq L
          /\ health' = [health EXCEPT ![e] =
               IF kept # {} THEN old(kept)
               ELSE IF FilesOf(e) \cap L = {} THEN NoHealth
               ELSE [old(kept) EXCEPT !.status = "unknown", !.dirty = FALSE]]
    <3> DEFINE shorn(kept) == (h.broken \ kept) \cap (listed \ hidden)
               new(kept, L) == IF kept # {} THEN old(kept)
                               ELSE IF FilesOf(e) \cap L = {} THEN NoHealth
                               ELSE [old(kept) EXCEPT !.status = "unknown", !.dirty = FALSE]
               left(kept) == IF shorn(kept) # {} /\ ItemOf(e) \subseteq hidden \cup shorn(kept)
                             THEN {{f \in listed : HashOf[f] # HashOf[c]} : c \in shorn(kept)} ELSE {listed}
    <3>1. PICK kept \in SUBSET h.broken :
            \E L \in left(kept) :
                 /\ listed' = L /\ hidden' = (hidden \cup shorn(kept)) \cap L
                 /\ health' = [health EXCEPT ![e] = new(kept, L)]
      BY DEF ClearEntry
    <3>2. left(kept) \subseteq SUBSET listed OBVIOUS
    <3> HIDE DEF left, shorn
    <3>3. PICK L \in SUBSET listed :
                 /\ listed' = L /\ hidden' = (hidden \cup shorn(kept)) \cap L
                 /\ health' = [health EXCEPT ![e] = new(kept, L)]
      BY <3>1, <3>2
    <3>4. hidden' \subseteq L BY <3>3
    <3> HIDE DEF old
    <3> QED BY <3>3, <3>4
  <2>2. old(kept) \in Health BY <1>3, <2>1 DEF Health
  <2> HIDE DEF old
  <2>3. [old(kept) EXCEPT !.status = "unknown", !.dirty = FALSE] \in Health BY <2>2 DEF Health, Statuses
  <2> QED BY <2>1, <2>2, <2>3 DEF SweepInv, ControlTyped, Healths
<1> HIDE DEF j
<1>7. Sorted(j) /\ Gathered(j) BY <1>1, <1>2, <1>5 DEF Sorted, Gathered, RepairPlaces
<1>8. job[r].kind # "over" BY <1>1, <1>2 DEF Over
<1>9. /\ WorldTyped' /\ rows' = rows /\ runs' = [runs EXCEPT ![r] = "running"] /\ UNCHANGED <<control, calls>>
  BY <1>6 DEF ClearEntry, SweepInv, WorldTyped
<1> QED BY <1>1, <1>4, <1>5, <1>6, <1>7, <1>8, <1>9, WorkGoesOn DEF AtWork

\* The run empties activeRunID only if it is its own.
LEMMA LeaveKeeps == ASSUME SweepInv, NEW r \in RunIds, Leave(r) PROVE SweepInv'
<1>1. job[r].pc = "leave" /\ job[r] \in JobRecords BY RunIsJob DEF Leave, AtJob, SweepInv, JobsTyped
<1>2. Sorted(job[r]) /\ Over(job[r]) /\ Gathered(job[r]) BY RunIsJob DEF SweepInv
<1> DEFINE j == [job[r] EXCEPT !.pc = "idle"]
<1>3. job' = [job EXCEPT ![r] = j] BY RunIsJob DEF Leave, SweepInv, JobsTyped
<1>4. j \in JobRecords /\ j.kind = job[r].kind /\ j.pc = "idle" /\ j.todo = job[r].todo /\ j.out = job[r].out
      /\ j.busy = job[r].busy
      /\ j.grab = job[r].grab /\ j.need = job[r].need /\ j.ok = job[r].ok /\ j.arrs = job[r].arrs
  BY <1>1 DEF JobRecords, Places
<1> HIDE DEF j
<1>5. Sorted(j) /\ Over(j) /\ Gathered(j) BY <1>1, <1>2, <1>4 DEF Sorted, Over, Gathered, RepairPlaces
<1>6. rows' = rows /\ UNCHANGED <<world, health, runs, cancelled, stopRun, stop, calls>> BY DEF Leave, world
<1>7. /\ job' \in [Jobs -> JobRecords] /\ job'[r] = j /\ \A y \in Jobs : y # r => job'[y] = job[y]
      /\ \A y \in Jobs : Sorted(job[y])' /\ Over(job[y])' /\ Gathered(job[y])'
  BY <1>3, <1>4, <1>5, <1>6, JobReplaced, RunIsJob
<1>8. active' \in 0 .. MaxRuns /\ cancelRun' = active' /\ (active' = active \/ active = r)
  BY RepairAssumption DEF Leave, SweepInv, ControlTyped
<1>9. JobsTyped' BY <1>6, <1>7 DEF SweepInv, JobsTyped, CallTyped, calls, Idle, Gathered
<1>10. WorldTyped' /\ ControlTyped' BY <1>6, <1>8 DEF SweepInv, WorldTyped, ControlTyped, world, calls
<1>11. WorkIsHeld'
  <2> SUFFICES ASSUME NEW q \in RunIds, AtWork(q)' PROVE Held(q)' BY DEF WorkIsHeld
  <2>1. q # r BY <1>4, <1>7 DEF AtWork
  <2>2. AtWork(q) BY <1>7, <2>1, RunIsJob DEF AtWork
  <2>3. Held(q) BY <2>2 DEF SweepInv, WorkIsHeld
  <2> QED BY <1>6, <1>8, <2>1, <2>3 DEF Held
<1>12. EndedIsFinal' BY <1>4, <1>6, <1>7, RunIsJob DEF EndedIsFinal, SweepInv
<1> QED BY <1>7, <1>9, <1>10, <1>11, <1>12 DEF SweepInv

\* The claim: activeRunID is empty, so whatever is still at work is cancelled.
LEMMA ClaimsKeeps ==
    ASSUME SweepInv, NEW r \in RunIds, NEW j \in JobRecords, Claims(r, j),
           j.kind # "over", Sorted(j), Gathered(j), CallTyped',
           UNCHANGED <<world, health, runs, cancelled, stopRun, stop, marker, events>>
    PROVE  SweepInv'
<1>1. job' = [job EXCEPT ![r] = j] /\ active = 0 /\ active' = r /\ cancelRun' = r /\ runs[r] = "none"
  BY DEF Claims
<1>2. Over(j) BY DEF Over
<1>3. rows' = rows BY DEF world
<1>4. /\ job' \in [Jobs -> JobRecords] /\ job'[r] = j /\ \A y \in Jobs : y # r => job'[y] = job[y]
      /\ \A y \in Jobs : Sorted(job[y])' /\ Over(job[y])' /\ Gathered(job[y])'
  BY <1>1, <1>2, <1>3, JobReplaced, RunIsJob
<1>5. JobsTyped' BY <1>4 DEF SweepInv, JobsTyped
<1>6. WorldTyped' /\ ControlTyped'
  BY <1>1, RunIsJob, RepairAssumption DEF SweepInv, WorldTyped, ControlTyped, world
<1>7. WorkIsHeld'
  <2> SUFFICES ASSUME NEW q \in RunIds, AtWork(q)' PROVE Held(q)' BY DEF WorkIsHeld
  <2>1. CASE q = r BY <1>1, <2>1 DEF Held
  <2>2. CASE q # r
    <3>1. AtWork(q) BY <1>4, <2>2, RunIsJob DEF AtWork
    <3>2. Held(q) BY <3>1 DEF SweepInv, WorkIsHeld
    <3> QED BY <1>1, <3>2, RunIsJob DEF Held
  <2> QED BY <2>1, <2>2
<1>8. EndedIsFinal' BY <1>1, <1>4, RunIsJob DEF EndedIsFinal, SweepInv
<1> QED BY <1>4, <1>5, <1>6, <1>7, <1>8 DEF SweepInv

LEMMA RunSweepKeeps == ASSUME SweepInv, NEW r \in RunIds, RunSweep(r) PROVE SweepInv'
<1>1. PICK kind \in {"sweep", "media"}, fix \in BOOLEAN :
        Claims(r, [Idle EXCEPT !.kind = kind, !.pc = "save", !.fix = fix])
  BY DEF RunSweep
<1> DEFINE j == [Idle EXCEPT !.kind = kind, !.pc = "save", !.fix = fix]
<1>2. j \in JobRecords /\ j.kind = kind /\ j.pc = "save" /\ j.grab = {} /\ j.need = {} /\ j.ok = {} /\ j.arrs = {}
  BY IdleTyped DEF JobRecords, Kinds, Places
<1> HIDE DEF j
<1>3. Claims(r, j) BY <1>1 DEF j
<1>4. Sorted(j) /\ Gathered(j) BY <1>2 DEF Sorted, Gathered, RepairPlaces
<1>5. call' = call /\ UNCHANGED <<world, health, runs, cancelled, stopRun, stop, marker, events>>
  BY DEF RunSweep, calls
<1>6. CallTyped' BY <1>5 DEF SweepInv, JobsTyped, CallTyped, Gathered, Idle
<1> QED BY <1>2, <1>3, <1>4, <1>5, <1>6, ClaimsKeeps

LEMMA IdleCall == Gathered(Idle) /\ Sorted(Idle) /\ Over(Idle)
  BY IdleTyped DEF Gathered, Sorted, Over, RepairPlaces

LEMMA StartCollectedKeeps == ASSUME SweepInv, NEW r \in RunIds, StartCollected(r) PROVE SweepInv'
<1>1. Claims(r, call) /\ call' = Idle /\ UNCHANGED <<world, health, runs, cancelled, stopRun, stop, marker, events>>
  BY DEF StartCollected
<1>2. call \in JobRecords /\ call.kind # "over" /\ Gathered(call) /\ Sorted(call)
  BY DEF SweepInv, JobsTyped, CallTyped, Sorted, JobRecords
<1>3. CallTyped'
  <2>1. Idle' = Idle BY DEF Idle
  <2> QED BY <1>1, <2>1, IdleTyped, IdleCall DEF CallTyped, Gathered
<1> QED BY <1>1, <1>2, <1>3, ClaimsKeeps

LEMMA RunStepKeeps == ASSUME SweepInv, NEW r \in RunIds, RunStep(r) PROVE SweepInv'
<1>1. CASE SelectEnds(r) BY <1>1, FinalizesKeeps DEF SelectEnds
<1>2. CASE AfterRepair(r)
  <2>1. PICK s \in {"completed", "failed", "cancelled"} : Finalizes(r, s) BY <1>2 DEF AfterRepair
  <2> QED BY <1>2, <2>1, FinalizesKeeps DEF AfterRepair
<1>3. CASE ClearOver(r)
  <2>1. PICK s \in {"completed", "failed", "cancelled"} : Finalizes(r, s) BY <1>3 DEF ClearOver
  <2> QED BY <1>3, <2>1, FinalizesKeeps DEF ClearOver
<1> QED BY <1>1, <1>2, <1>3, SaveRunKeeps, SelectKeeps, AfterProbingKeeps, LeaveKeeps, ClearEntryKeeps
        DEF RunStep

-----------------------------------------------------------------------------
(* Rechecks, calls and stops *)

\* A recheck runs beside the runs: what it does to its own record is no run's.
LEMMA BesideKeeps ==
    ASSUME SweepInv, NEW c \in Rechecks, NEW j \in JobRecords, job' = [job EXCEPT ![c] = j],
           Sorted(j), Over(j), Gathered(j), events' \in 0 .. MaxEvents,
           UNCHANGED <<world, health, runs, control, marker, call>>
    PROVE  SweepInv'
<1>1. c \in Jobs /\ c \notin RunIds BY RunIsJob DEF Jobs
<1>2. /\ job' \in [Jobs -> JobRecords] /\ \A y \in Jobs : y # c => job'[y] = job[y]
      /\ \A y \in Jobs : Sorted(job[y])' /\ Over(job[y])' /\ Gathered(job[y])'
  BY <1>1, JobReplaced DEF world
<1>3. JobsTyped' BY <1>2 DEF SweepInv, JobsTyped, CallTyped, Idle, Gathered
<1>4. WorldTyped' /\ ControlTyped' BY DEF SweepInv, WorldTyped, ControlTyped, world, control
<1>5. \A r \in RunIds : job'[r] = job[r] BY <1>1, <1>2, RunIsJob
<1>6. WorkIsHeld' BY <1>5 DEF SweepInv, WorkIsHeld, AtWork, Held, control
<1>7. EndedIsFinal' BY <1>5 DEF SweepInv, EndedIsFinal
<1> QED BY <1>2, <1>3, <1>4, <1>6, <1>7 DEF SweepInv

LEMMA RecheckKeeps == ASSUME SweepInv, NEW c \in Rechecks, NEW e \in Entries, RecheckEntry(c, e) PROVE SweepInv'
<1>1. PICK fix \in BOOLEAN :
        job' = [job EXCEPT ![c] = [Idle EXCEPT !.kind = "recheck", !.pc = "probe", !.fix = fix,
                    !.todo = {e}, !.names = listed \ hidden, !.known = IF fix THEN rows ELSE {}]]
  BY DEF RecheckEntry
<1> DEFINE names == listed \ hidden
           known == IF fix THEN rows ELSE {}
           j == [Idle EXCEPT !.kind = "recheck", !.pc = "probe", !.fix = fix,
                    !.todo = {e}, !.names = names, !.known = known]
<1>2. names \subseteq Files /\ known \subseteq Files BY DEF SweepInv, WorldTyped
<1>3. job' = [job EXCEPT ![c] = j] BY <1>1
<1> HIDE DEF names, known
<1>4. j \in JobRecords /\ j.kind = "recheck" /\ j.pc = "probe" /\ j.grab = {} /\ j.need = {} /\ j.ok = {} /\ j.arrs = {}
  BY <1>2, IdleTyped DEF JobRecords, Kinds, Places
<1> HIDE DEF j
<1>5. Sorted(j) /\ Over(j) /\ Gathered(j) BY <1>4 DEF Sorted, Over, Gathered, RepairPlaces
<1>6. events' \in 0 .. MaxEvents BY RepairAssumption DEF RecheckEntry, Event, SweepInv, ControlTyped
<1>7. UNCHANGED <<world, health, runs, control, marker, call>> BY DEF RecheckEntry
<1> QED BY <1>3, <1>4, <1>5, <1>6, <1>7, BesideKeeps

LEMMA AfterRecheckKeeps == ASSUME SweepInv, NEW c \in Rechecks, AfterRecheck(c) PROVE SweepInv'
<1>1. c \in Jobs BY DEF Jobs
<1>2. events' \in 0 .. MaxEvents /\ UNCHANGED <<world, health, runs, control, marker, call>>
  BY DEF AfterRecheck, calls, SweepInv, ControlTyped
<1>3. CASE job' = [job EXCEPT ![c] = Idle] BY <1>2, <1>3, IdleTyped, IdleCall, BesideKeeps
<1>4. CASE ToRepair(c) /\ job[c].pc = "probe"
  <2>1. job[c] \in JobRecords /\ Sorted(job[c]) /\ Over(job[c]) BY <1>1 DEF SweepInv, JobsTyped
  <2> DEFINE T == {e \in Entries : job[c].out[e] # NoHealth /\ Fixable(job[c].out[e])}
             j == [job[c] EXCEPT !.pc = "arrs", !.todo = T]
  <2>2. job' = [job EXCEPT ![c] = j] BY <1>1, <1>4 DEF ToRepair, SweepInv, JobsTyped
  <2>3. \A e \in T : job[c].out[e] \in Health BY <2>1 DEF JobRecords, Healths
  <2>4. j \in JobRecords /\ j.kind = job[c].kind /\ j.pc = "arrs" /\ j.todo = T /\ j.out = job[c].out
        /\ j.grab = job[c].grab /\ j.need = job[c].need /\ j.ok = job[c].ok /\ j.arrs = job[c].arrs
    BY <2>1 DEF JobRecords, Places
  <2> HIDE DEF j, T
  <2>5. job[c].kind # "over" BY <1>4, <2>1 DEF Over
  <2>6. Sorted(j) /\ Over(j) /\ Gathered(j) BY <2>1, <2>3, <2>4, <2>5 DEF Sorted, Over, Gathered
  <2> QED BY <1>2, <2>2, <2>4, <2>6, BesideKeeps
<1> QED BY <1>3, <1>4 DEF AfterRecheck, ProbingOver, AtJob

LEMMA CollectBrokenKeeps == ASSUME SweepInv, CollectBroken PROVE SweepInv'
<1>1. PICK kind \in {"fix", "clear"}, S \in SUBSET Entries :
        /\ \A e \in S : health[e] # NoHealth
        /\ call' = [Idle EXCEPT !.kind = kind, !.pc = "save", !.todo = S,
                            !.out = [e \in Entries |-> IF e \in S THEN health[e] ELSE NoHealth]]
  <2>1. PICK kind \in {"fix", "clear"}, W \in SUBSET Entries :
          LET S == {e \in W : IF kind = "fix" THEN Fixable(health[e]) ELSE Clearable(health[e])}
          IN  call' = [Idle EXCEPT !.kind = kind, !.pc = "save", !.todo = S,
                            !.out = [e \in Entries |-> IF e \in S THEN health[e] ELSE NoHealth]]
    BY DEF CollectBroken
  <2> DEFINE S == {e \in W : IF kind = "fix" THEN Fixable(health[e]) ELSE Clearable(health[e])}
  <2>2. \A e \in S : health[e] # NoHealth BY DEF Fixable, Clearable
  <2>3. S \in SUBSET Entries OBVIOUS
  <2> QED BY <2>1, <2>2, <2>3
<1> DEFINE out == [e \in Entries |-> IF e \in S THEN health[e] ELSE NoHealth]
<1>2. out \in [Entries -> Healths] /\ \A e \in S : out[e] \in Health
  BY <1>1 DEF SweepInv, ControlTyped, Healths
<1> HIDE DEF out
<1>3. call' = [Idle EXCEPT !.kind = kind, !.pc = "save", !.todo = S, !.out = out] BY <1>1 DEF out
<1>4. call' \in JobRecords /\ call'.kind = kind /\ call'.pc = "save" /\ call'.todo = S /\ call'.out = out
      /\ call'.grab = {} /\ call'.need = {} /\ call'.ok = {}
  BY <1>2, <1>3, IdleTyped DEF JobRecords, Kinds, Places
<1>5. CallTyped' BY <1>2, <1>4 DEF CallTyped, Gathered, RepairPlaces
<1>6. events' \in 0 .. MaxEvents BY RepairAssumption DEF CollectBroken, Event, SweepInv, ControlTyped
<1>7. UNCHANGED <<world, health, runs, control, job, marker>> BY DEF CollectBroken
<1>8. WorldTyped' /\ JobsTyped' /\ ControlTyped'
  BY <1>5, <1>6, <1>7 DEF SweepInv, WorldTyped, JobsTyped, ControlTyped, world, control
<1>9. \A y \in Jobs : Sorted(job[y])' /\ Over(job[y])' /\ Gathered(job[y])'
  BY <1>7 DEF SweepInv, Sorted, Over, Gathered, world
<1> QED BY <1>7, <1>8, <1>9 DEF SweepInv, WorkIsHeld, AtWork, Held, EndedIsFinal, control

\* A step that leaves the goroutines, their calls and the files alone, and
\* holds every run that was held.
LEMMA AsideKeeps ==
    ASSUME SweepInv, UNCHANGED <<listed, hidden, rows, sought, job>>, gone' \subseteq Files,
           CallTyped', ControlTyped',
           \A r \in RunIds : Held(r) => Held(r)',
           \A r \in RunIds : runs'[r] = "running" => runs[r] = "running"
    PROVE  SweepInv'
<1>1. WorldTyped' /\ JobsTyped' BY DEF SweepInv, WorldTyped, JobsTyped
<1>2. \A y \in Jobs : Sorted(job[y])' /\ Over(job[y])' /\ Gathered(job[y])'
  BY DEF SweepInv, Sorted, Over, Gathered
<1>3. WorkIsHeld' BY DEF SweepInv, WorkIsHeld, AtWork
<1>4. EndedIsFinal' BY DEF SweepInv, EndedIsFinal
<1> QED BY <1>1, <1>2, <1>3, <1>4 DEF SweepInv

LEMMA SameCall == ASSUME CallTyped, call' = call PROVE CallTyped'
  BY DEF CallTyped, Gathered, Idle

LEMMA EventCounts == ASSUME SweepInv, Event PROVE events' \in 0 .. MaxEvents
  BY RepairAssumption DEF Event, SweepInv, ControlTyped

LEMMA StopsKeep ==
    ASSUME SweepInv, StopRunCaptures \/ StopRunSaves \/ StopRunCancels \/ StopLocks \/ StopCancels
    PROVE  SweepInv'
<1> USE RepairAssumption
<1>0. CallTyped' /\ UNCHANGED <<listed, hidden, rows, sought, job>> /\ gone' \subseteq Files
  BY SameCall DEF SweepInv, JobsTyped, WorldTyped, StopRunCaptures, StopRunSaves, StopRunCancels, StopLocks,
                  StopCancels, world, calls
<1>1. CASE StopRunCaptures
  <2>1. stopRun' \in [pc : {"idle", "save", "cancel"}, id : 0 .. MaxRuns] /\ stopRun'.id # 0
    BY <1>1 DEF StopRunCaptures, SweepInv, ControlTyped
  <2>2. ControlTyped' BY <1>1, <2>1, EventCounts DEF StopRunCaptures, SweepInv, ControlTyped
  <2> QED BY <1>0, <1>1, <2>2, AsideKeeps DEF StopRunCaptures, Held
<1>2. CASE StopRunSaves
  <2>1. stopRun' \in [pc : {"idle", "save", "cancel"}, id : 0 .. MaxRuns] /\ stopRun'.id # 0
    BY <1>2 DEF StopRunSaves, SweepInv, ControlTyped
  <2>2. runs' \in [RunIds -> RunStates] /\ \A r \in RunIds : runs'[r] = "running" => runs[r] = "running"
    BY <1>2 DEF StopRunSaves, SweepInv, ControlTyped, RunStates
  <2>3. ControlTyped' BY <1>2, <2>1, <2>2 DEF StopRunSaves, SweepInv, ControlTyped, calls
  <2> QED BY <1>0, <1>2, <2>2, <2>3, AsideKeeps DEF StopRunSaves, Held
<1>3. CASE StopRunCancels
  <2>1. stopRun.id \in RunIds BY <1>3 DEF StopRunCancels, SweepInv, ControlTyped, RunIds
  <2>2. stopRun' \in [pc : {"idle", "save", "cancel"}, id : 0 .. MaxRuns] /\ stopRun'.pc = "idle"
    BY <1>3 DEF StopRunCancels
  <2>3. ControlTyped' BY <1>3, <2>1, <2>2 DEF StopRunCancels, SweepInv, ControlTyped, calls
  <2> QED BY <1>0, <1>3, <2>3, AsideKeeps DEF StopRunCancels, Held
<1>4. CASE StopLocks
  <2>1. stop' \in [pc : {"idle", "cancel", "drain"}, id : 0 .. MaxRuns] /\ stop'.pc = "cancel" /\ stop'.id = active
    BY <1>4 DEF StopLocks, SweepInv, ControlTyped
  <2>2. ControlTyped' BY <1>4, <2>1, EventCounts DEF StopLocks, SweepInv, ControlTyped
  <2>3. \A r \in RunIds : Held(r) => Held(r)' BY <1>4, <2>1 DEF StopLocks, Held
  <2> QED BY <1>0, <1>4, <2>2, <2>3, AsideKeeps DEF StopLocks
<1>5. CASE StopCancels
  <2>1. stop' \in [pc : {"idle", "cancel", "drain"}, id : 0 .. MaxRuns] BY <1>5 DEF StopCancels, SweepInv, ControlTyped
  <2>2. stop.id # 0 => stop.id \in RunIds BY DEF SweepInv, ControlTyped, RunIds
  <2>3. ControlTyped' BY <1>5, <2>1, <2>2 DEF StopCancels, SweepInv, ControlTyped, calls
  <2>4. \A r \in RunIds : Held(r) => Held(r)' BY <1>5, RunIsJob DEF StopCancels, Held
  <2> QED BY <1>0, <1>5, <2>3, <2>4, AsideKeeps DEF StopCancels
<1> QED BY <1>1, <1>2, <1>3, <1>4, <1>5

LEMMA ReconcileTyped ==
    ASSUME SweepInv, Reconcile
    PROVE  /\ runs' \in [RunIds -> RunStates] /\ \A r \in RunIds : runs'[r] # "running"
           /\ health' \in [Entries -> Healths]
<1>1. \A e \in Entries : Reconciled(health[e]) \in Healths BY ReconciledTyped DEF SweepInv, ControlTyped
<1> QED BY <1>1 DEF Reconcile, SweepInv, ControlTyped, RunStates

LEMMA StartKeeps == ASSUME SweepInv, Start PROVE SweepInv'
<1>1. CallTyped' /\ UNCHANGED <<listed, hidden, rows, sought, job>> /\ gone' \subseteq Files
  BY SameCall DEF SweepInv, JobsTyped, WorldTyped, Start, world, calls
<1>2. stop' \in [pc : {"idle", "cancel", "drain"}, id : 0 .. MaxRuns] BY RepairAssumption DEF Start
<1>3. ControlTyped' BY <1>2, ReconcileTyped DEF Start, SweepInv, ControlTyped, calls
<1>4. \A r \in RunIds : Held(r) => Held(r)' BY DEF Start, Held
<1>5. \A r \in RunIds : runs'[r] = "running" => runs[r] = "running" BY ReconcileTyped DEF Start
<1> QED BY <1>1, <1>3, <1>4, <1>5, AsideKeeps

\* Nothing is at work after a restart, and nothing is recorded as running.
LEMMA RestartKeeps == ASSUME SweepInv, Restart PROVE SweepInv'
<1> DEFINE gone_over == [Idle EXCEPT !.kind = "over"]
<1>1. gone_over \in JobRecords /\ gone_over.kind = "over" /\ gone_over.pc = "idle" /\ gone_over.busy = {}
      /\ gone_over.grab = {} /\ gone_over.need = {} /\ gone_over.ok = {} /\ gone_over.arrs = {}
  BY IdleTyped DEF JobRecords, Kinds
<1>2. job' = [x \in Jobs |-> IF job[x].kind = "none" \/ x \in Rechecks THEN Idle ELSE gone_over]
  BY DEF Restart
<1> HIDE DEF gone_over
<1>3. job' \in [Jobs -> JobRecords] /\ \A x \in Jobs : job'[x].pc = "idle" BY <1>1, <1>2, IdleTyped
<1>4. \A x \in Jobs : Sorted(job[x])' /\ Over(job[x])' /\ Gathered(job[x])'
  BY <1>1, <1>2, IdleTyped DEF Sorted, Over, Gathered, RepairPlaces
<1>5. Idle' = Idle BY DEF Idle
<1>6. CallTyped' BY <1>5, IdleTyped, IdleCall DEF Restart, CallTyped, Gathered
<1>7. WorldTyped' BY DEF Restart, SweepInv, WorldTyped, world
<1>8. /\ stop' \in [pc : {"idle", "cancel", "drain"}, id : 0 .. MaxRuns]
      /\ stopRun' \in [pc : {"idle", "save", "cancel"}, id : 0 .. MaxRuns] /\ stopRun'.pc = "idle"
  BY RepairAssumption DEF Restart
<1>9. ControlTyped' BY <1>8, ReconcileTyped, EventCounts, RepairAssumption DEF Restart, SweepInv, ControlTyped
<1>10. WorkIsHeld' BY <1>3, RunIsJob DEF WorkIsHeld, AtWork
<1>11. EndedIsFinal' BY ReconcileTyped DEF Restart, EndedIsFinal
<1> QED BY <1>3, <1>4, <1>6, <1>7, <1>9, <1>10, <1>11 DEF SweepInv, JobsTyped

LEMMA SurroundingsKeep ==
    ASSUME SweepInv,
           \/ RefuseCollected \/ ClearStates \/ MarkSaves
           \/ \E e \in Entries : MarkReads(e)
           \/ \E f \in Files : Lose(f)
    PROVE  SweepInv'
<1>1. CASE RefuseCollected
  <2>1. Idle' = Idle BY DEF Idle
  <2>2. CallTyped' BY <1>1, <2>1, IdleTyped, IdleCall DEF RefuseCollected, CallTyped, Gathered
  <2>3. UNCHANGED <<listed, hidden, rows, sought, job, runs>> /\ gone' \subseteq Files
    BY <1>1 DEF RefuseCollected, world, SweepInv, WorldTyped
  <2>4. ControlTyped' BY <1>1 DEF RefuseCollected, SweepInv, ControlTyped, control
  <2>5. \A r \in RunIds : Held(r) => Held(r)' BY <1>1 DEF RefuseCollected, Held, control
  <2> QED BY <2>2, <2>3, <2>4, <2>5, AsideKeeps
<1>2. CASE ClearStates
  <2>1. CallTyped' BY <1>2, SameCall DEF ClearStates, SweepInv, JobsTyped
  <2>2. UNCHANGED <<listed, hidden, rows, sought, job, runs>> /\ gone' \subseteq Files
    BY <1>2 DEF ClearStates, world, SweepInv, WorldTyped
  <2>3. health' \in [Entries -> Healths] BY <1>2 DEF ClearStates, SweepInv, ControlTyped, Healths
  <2>4. ControlTyped' BY <1>2, <2>3, EventCounts DEF ClearStates, SweepInv, ControlTyped, control
  <2>5. \A r \in RunIds : Held(r) => Held(r)' BY <1>2 DEF ClearStates, Held, control
  <2> QED BY <2>1, <2>2, <2>4, <2>5, AsideKeeps
<1>3. CASE MarkSaves
  <2>1. CallTyped' BY <1>3, SameCall DEF MarkSaves, SweepInv, JobsTyped
  <2>2. UNCHANGED <<listed, hidden, rows, sought, job, runs>> /\ gone' \subseteq Files
    BY <1>3 DEF MarkSaves, world, SweepInv, WorldTyped
  <2>3. health' \in [Entries -> Healths]
    <3>1. marker.h \in Healths BY <1>3 DEF MarkSaves, SweepInv, ControlTyped, Healths
    <3> QED BY <1>3, <3>1 DEF MarkSaves, SweepInv, ControlTyped
  <2>4. ControlTyped' BY <1>3, <2>3 DEF MarkSaves, SweepInv, ControlTyped, control
  <2>5. \A r \in RunIds : Held(r) => Held(r)' BY <1>3 DEF MarkSaves, Held, control
  <2> QED BY <2>1, <2>2, <2>4, <2>5, AsideKeeps
<1>4. ASSUME NEW e \in Entries, MarkReads(e) PROVE SweepInv'
  <2>1. CallTyped' BY <1>4, SameCall DEF MarkReads, SweepInv, JobsTyped
  <2>2. UNCHANGED <<listed, hidden, rows, sought, job, runs>> /\ gone' \subseteq Files
    BY <1>4 DEF MarkReads, world, SweepInv, WorldTyped
  <2>3. marker' \in [e : Entries, h : Health]
    <3>1. Dirtied(health[e]) \in Health BY DirtiedTyped DEF SweepInv, ControlTyped
    <3> QED BY <1>4, <3>1 DEF MarkReads
  <2>4. ControlTyped' BY <1>4, <2>3, EventCounts DEF MarkReads, SweepInv, ControlTyped, control
  <2>5. \A r \in RunIds : Held(r) => Held(r)' BY <1>4 DEF MarkReads, Held, control
  <2> QED BY <2>1, <2>2, <2>4, <2>5, AsideKeeps
<1>5. ASSUME NEW f \in Files, Lose(f) PROVE SweepInv'
  <2>1. CallTyped' BY <1>5, SameCall DEF Lose, SweepInv, JobsTyped
  <2>2. UNCHANGED <<listed, hidden, rows, sought, job, runs>> /\ gone' \subseteq Files
    BY <1>5 DEF Lose, SweepInv, WorldTyped
  <2>3. ControlTyped' BY <1>5, EventCounts DEF Lose, SweepInv, ControlTyped, control
  <2>4. \A r \in RunIds : Held(r) => Held(r)' BY <1>5 DEF Lose, Held, control
  <2> QED BY <2>1, <2>2, <2>3, <2>4, AsideKeeps
<1> QED BY <1>1, <1>2, <1>3, <1>4, <1>5

-----------------------------------------------------------------------------
LEMMA SweepInvInit == RepairInit => SweepInv
<1> SUFFICES ASSUME RepairInit PROVE SweepInv OBVIOUS
<1>1. WorldTyped BY DEF RepairInit, WorldTyped
<1>2. JobsTyped BY IdleTyped, IdleCall DEF RepairInit, JobsTyped, CallTyped
<1>3. ControlTyped BY RepairAssumption DEF RepairInit, ControlTyped, RunStates, Healths
<1>4. \A x \in Jobs : Sorted(job[x]) /\ Over(job[x]) /\ Gathered(job[x])
  BY IdleCall DEF RepairInit, Sorted, Over, Gathered
<1>5. WorkIsHeld /\ EndedIsFinal BY IdleTyped, RunIsJob DEF RepairInit, WorkIsHeld, AtWork, EndedIsFinal
<1> QED BY <1>1, <1>2, <1>3, <1>4, <1>5 DEF SweepInv

LEMMA SweepInvStep == SweepInv /\ [RepairNext]_repairVars => SweepInv'
<1> SUFFICES ASSUME SweepInv, [RepairNext]_repairVars PROVE SweepInv' OBVIOUS
<1>1. CASE UNCHANGED repairVars
  <2>1. CallTyped' BY <1>1, SameCall DEF repairVars, SweepInv, JobsTyped
  <2>2. ControlTyped' BY <1>1 DEF repairVars, SweepInv, ControlTyped
  <2>3. UNCHANGED <<listed, hidden, rows, sought, job>> /\ gone' \subseteq Files /\ runs' = runs
    BY <1>1 DEF repairVars, SweepInv, WorldTyped
  <2>4. \A r \in RunIds : Held(r) => Held(r)' BY <1>1 DEF repairVars, Held
  <2> QED BY <2>1, <2>2, <2>3, <2>4, AsideKeeps
<1> QED BY <1>1, RunSweepKeeps, StartCollectedKeeps, RunStepKeeps, JobStepKeeps, RecheckKeeps, AfterRecheckKeeps,
           CollectBrokenKeeps, StopsKeep, RestartKeeps, StartKeeps, SurroundingsKeep
        DEF RepairNext, AdminStep

THEOREM RepairInv == RepairSpec => []SweepInv
  BY SweepInvInit, SweepInvStep, PTL DEF RepairSpec

\* Every record, snapshot and list of the repair service has its type; the files an
\* arr was asked to replace are no rows of its any more (repair_sweep.go).
THEOREM RepairTypes == RepairSpec => []RepairTypeOK
<1>1. SweepInv => RepairTypeOK
  <2> SUFFICES ASSUME SweepInv PROVE RepairTypeOK OBVIOUS
  <2>1. \A x \in Jobs : job[x] \in JobRecords /\ Sorted(job[x]) BY DEF SweepInv, JobsTyped
  <2>2. \A x \in Jobs :
          /\ job[x].todo \cup job[x].busy \subseteq Entries /\ job[x].names \subseteq Files
          /\ job[x].out \in [Entries -> Health \cup {NoHealth}]
          /\ job[x].grab \cap job[x].need = {} /\ job[x].ok \subseteq job[x].arrs
    BY <2>1 DEF JobRecords, Sorted, Healths
  <2> QED BY <2>2 DEF SweepInv, WorldTyped, ControlTyped, RepairTypeOK, RunStates, Healths
<1> QED BY <1>1, RepairInv, PTL

\* At most one run is at work that is neither cancelled nor about to be, however
\* starts, stops and new configurations interleave (Repair.activeRunID, Stop).
THEOREM OneRunAlways == RepairSpec => []OneRun
<1>1. SweepInv => OneRun BY RunIsJob DEF SweepInv, WorkIsHeld, Held, OneRun
<1> QED BY <1>1, RepairInv, PTL

\* A run whose goroutine is over is never "running" in the store, however its
\* last records, a stop and a restart interleave (finalizeRun, reconcileOrphans).
THEOREM EndedStaysFinal == RepairSpec => []EndedIsFinal
<1>1. SweepInv => EndedIsFinal BY DEF SweepInv
<1> QED BY <1>1, RepairInv, PTL

-----------------------------------------------------------------------------
(* StoreMigration *)

\* A set of natural numbers has a first element, one that is bounded a last.
LEMMA FirstExists ==
    ASSUME NEW S \in SUBSET Nat, S # {}
    PROVE  \E i \in S : \A j \in S : i <= j
<1>1. \E i \in S : \A j \in S : ~(<<j, i>> \in OpToRel(<, Nat))
  BY WFMin, NatLessThanWellFounded
<1>2. \A i, j \in Nat : <<j, i>> \in OpToRel(<, Nat) <=> j < i
  BY DEF OpToRel
<1>3. PICK i \in S : \A j \in S : ~(<<j, i>> \in OpToRel(<, Nat)) BY <1>1
<1>4. \A j \in S : ~(j < i) BY <1>2, <1>3
<1>5. \A j \in S : i <= j BY <1>4
<1> QED BY <1>5

LEMMA LastExists ==
    ASSUME NEW n \in Nat, NEW S \in SUBSET (1 .. n), S # {}
    PROVE  \E i \in S : \A j \in S : j <= i
<1> DEFINE T == {t \in Nat : \E i \in S : t = n - i}
<1>1. T \subseteq Nat /\ T # {}
  <2>1. PICK i \in S : TRUE OBVIOUS
  <2>2. i \in 1 .. n OBVIOUS
  <2>3. n - i \in Nat BY <2>2
  <2>4. n - i \in T BY <2>3
  <2> QED BY <2>4
<1>2. PICK t \in T : \A u \in T : t <= u BY <1>1, FirstExists
<1>3. PICK i \in S : t = n - i BY <1>2
<1>4. ASSUME NEW j \in S PROVE j <= i
  <2>1. j \in 1 .. n /\ i \in 1 .. n BY <1>3
  <2>2. n - j \in T BY <2>1
  <2>3. n - i <= n - j BY <1>2, <1>3, <2>2
  <2> QED BY <2>1, <2>3
<1> QED BY <1>3, <1>4

LEMMA FirstIsFirst ==
    ASSUME NEW S \in SUBSET Nat, S # {}
    PROVE  First(S) \in S /\ \A j \in S : First(S) <= j
  BY FirstExists DEF First

-----------------------------------------------------------------------------
(* The invariant *)

CacheDebrids == {CacheDir[i].debrid : i \in DOMAIN CacheDir}
FileNames    == LET names == UNION {CacheDir[i].files : i \in DOMAIN CacheDir}
                IN  names \cup {PathOf[n] : n \in names}
KnownHashes  == CachedHashes \cup OldEntries
EntryRecords == [debrids : SUBSET CacheDebrids, files : SUBSET FileNames,
                 active : CacheDebrids \cup {Absent}, meta : BOOLEAN]
StatusRecords == [running : BOOLEAN, total : {Cardinality(H) : H \in SUBSET CachedHashes},
                  completed : Nat, errors : Nat]
LogRecords == [key : {StatusKey} \cup KnownHashes, value : EntryRecords \cup StatusRecords \cup {Absent}]

\* The debrids whose file of the torrent had an id.
Placed(h) == {CacheDir[i].debrid : i \in {j \in CachedFor(h) : CacheDir[j].id}}

LogTyped ==
    /\ journal \in Seq(LogRecords)
    /\ \A i \in DOMAIN journal : journal[i].key \in KnownHashes => journal[i].value \in EntryRecords \cup {Absent}
    /\ durable \in 0 .. Len(journal)
StartTyped ==
    /\ boot \in {"off", "meta", "load", "run", "save", "serve"}
    /\ migration.loaded \subseteq DOMAIN CacheDir /\ migration.todo \subseteq KnownHashes
    /\ migration = [loaded |-> migration.loaded, todo |-> migration.todo, status |-> migration.status]
    /\ mishaps \in Nat
    /\ boot = "meta" => \A h \in migration.todo : Stored(h)
    /\ boot \in {"run", "save"} =>
          /\ migration.status \in StatusRecords
          /\ migration.todo \subseteq {CacheDir[i].hash : i \in migration.loaded}

\* What a crash leaves of the log is its beginning, so what a record says has
\* to be in the records before it: a migration that is over has brought in
\* everything, ...
OverMeansAll == \A i \in DOMAIN journal :
    journal[i].key = StatusKey /\ Finished(journal[i].value) =>
        \A h \in CachedHashes : \E j \in DOMAIN journal : j < i /\ journal[j].key = h
\* ... and an entry that was not there before has its debrids from the first.
WholeEntries == \A i \in DOMAIN journal :
    journal[i].key \in KnownHashes /\ journal[i].value # Absent =>
        \/ journal[i].key \in OldEntries
        \/ journal[i].value.meta /\ Placed(journal[i].key) \subseteq journal[i].value.debrids

\* How far a start has come.
MetaPhase == boot = "meta" => \A h \in KnownHashes : Stored(h) => Newest(journal, h).meta \/ h \in migration.todo
MetaDone  == boot \in {"load", "run", "save", "serve"} => \A h \in KnownHashes : Stored(h) => Newest(journal, h).meta
InLog(h)  == \E i \in DOMAIN journal : journal[i].key = h
RunPhase  == boot \in {"run", "save"} =>
    /\ migration.loaded = DOMAIN CacheDir /\ migration.status.running
    /\ \A h \in CachedHashes : h \in migration.todo \/ InLog(h)
ServeAll  == boot = "serve" => \A h \in CachedHashes : InLog(h)

StartInv ==
    /\ LogTyped /\ StartTyped
    /\ mishaps = 0 => OverMeansAll /\ WholeEntries /\ MetaPhase /\ MetaDone /\ RunPhase /\ ServeAll

-----------------------------------------------------------------------------
(* The log *)

LEMMA NewestIsThere ==
    ASSUME LogTyped, NEW k, Newest(journal, k) # Absent
    PROVE  \E i \in DOMAIN journal : journal[i].key = k /\ journal[i].value = Newest(journal, k)
<1> DEFINE at == {i \in DOMAIN journal : journal[i].key = k}
<1>1. Len(journal) \in Nat /\ DOMAIN journal = 1 .. Len(journal) BY LenProperties DEF LogTyped
<1>2. at \in SUBSET (1 .. Len(journal)) /\ at # {} BY <1>1 DEF Newest
<1>3. \E i \in at : \A j \in at : j <= i BY <1>1, <1>2, LastExists
<1>4. Newest(journal, k) = journal[CHOOSE i \in at : \A j \in at : j <= i].value BY <1>2 DEF Newest
<1>5. (CHOOSE i \in at : \A j \in at : j <= i) \in at BY <1>3
<1> QED BY <1>4, <1>5

LEMMA NewestTyped == ASSUME LogTyped, NEW h \in KnownHashes, Stored(h) PROVE Newest(journal, h) \in EntryRecords
<1>1. PICK i \in DOMAIN journal : journal[i].key = h /\ journal[i].value = Newest(journal, h)
  BY NewestIsThere DEF Stored
<1> QED BY <1>1 DEF LogTyped, Stored

LEMMA PutAppends ==
    ASSUME LogTyped, NEW k \in {StatusKey} \cup KnownHashes, NEW v \in EntryRecords \cup StatusRecords \cup {Absent},
           Put(k, v)
    PROVE  /\ journal' \in Seq(LogRecords) /\ Len(journal) \in Nat /\ Len(journal') = Len(journal) + 1
           /\ DOMAIN journal = 1 .. Len(journal) /\ DOMAIN journal' = 1 .. (Len(journal) + 1)
           /\ \A i \in DOMAIN journal : journal'[i] = journal[i]
           /\ journal'[Len(journal) + 1].key = k /\ journal'[Len(journal) + 1].value = v
<1> DEFINE r == [key |-> k, value |-> v]
<1>1. r \in LogRecords BY DEF LogRecords
<1>2. journal' = Append(journal, r) BY DEF Put
<1> HIDE DEF r
<1>3. /\ journal' \in Seq(LogRecords) /\ Len(journal') = Len(journal) + 1
      /\ \A i \in 1 .. Len(journal) : journal'[i] = journal[i]
      /\ journal'[Len(journal) + 1] = r
  BY <1>1, <1>2, AppendProperties DEF LogTyped
<1>4. Len(journal) \in Nat /\ DOMAIN journal = 1 .. Len(journal) /\ DOMAIN journal' = 1 .. Len(journal')
  BY <1>3, LenProperties DEF LogTyped
<1> QED BY <1>3, <1>4 DEF r

LEMMA PutNewest ==
    ASSUME LogTyped, NEW k \in {StatusKey} \cup KnownHashes, NEW v \in EntryRecords \cup StatusRecords \cup {Absent},
           Put(k, v)
    PROVE  /\ Newest(journal', k) = v
           /\ \A h : h # k => Newest(journal', h) = Newest(journal, h)
<1> DEFINE n == Len(journal)
<1>1. /\ n \in Nat /\ DOMAIN journal = 1 .. n /\ DOMAIN journal' = 1 .. (n + 1)
      /\ \A i \in 1 .. n : journal'[i] = journal[i]
      /\ journal'[n + 1].key = k /\ journal'[n + 1].value = v
  BY PutAppends
<1> HIDE DEF n
<1>2. Newest(journal', k) = v
  <2> DEFINE at == {i \in DOMAIN journal' : journal'[i].key = k}
  <2>1. n + 1 \in at /\ \A j \in at : j <= n + 1 BY <1>1
  <2>2. \A i \in at : (\A j \in at : j <= i) => i = n + 1
    <3> SUFFICES ASSUME NEW i \in at, \A j \in at : j <= i PROVE i = n + 1 OBVIOUS
    <3>1. n + 1 <= i /\ i \in 1 .. (n + 1) BY <1>1, <2>1
    <3> QED BY <1>1, <3>1
  <2>3. (CHOOSE i \in at : \A j \in at : j <= i) = n + 1 BY <2>1, <2>2
  <2>4. Newest(journal', k) = journal'[CHOOSE i \in at : \A j \in at : j <= i].value BY <2>1 DEF Newest
  <2> HIDE DEF at
  <2> QED BY <1>1, <2>3, <2>4
<1>3. ASSUME NEW h, h # k PROVE Newest(journal', h) = Newest(journal, h)
  <2> DEFINE old == {i \in DOMAIN journal : journal[i].key = h}
             new == {i \in DOMAIN journal' : journal'[i].key = h}
             last == CHOOSE i \in old : \A j \in old : j <= i
  <2>1. new = old
    <3>1. \A i \in 1 .. (n + 1) : i \in 1 .. n \/ i = n + 1 BY <1>1
    <3>2. 1 .. n \subseteq 1 .. (n + 1) BY <1>1
    <3> QED BY <1>1, <1>3, <3>1, <3>2
  <2>2. CASE old = {} BY <2>1, <2>2 DEF Newest
  <2>3. CASE old # {}
    <3>1. old \in SUBSET (1 .. n) BY <1>1
    <3>2. \E i \in old : \A j \in old : j <= i BY <1>1, <2>3, <3>1, LastExists
    <3>3. last \in old BY <3>2
    <3>4. Newest(journal, h) = journal[last].value BY <2>3 DEF Newest
    <3>5. Newest(journal', h) = journal'[last].value BY <2>1, <2>3 DEF Newest
    <3> QED BY <1>1, <3>1, <3>3, <3>4, <3>5
  <2> QED BY <2>2, <2>3
<1> QED BY <1>2, <1>3

LEMMA StatusKeyApart == StatusKey \notin KnownHashes
  BY MigrationAssumption DEF KnownHashes

-----------------------------------------------------------------------------
(* The merge of the files of one torrent *)

LEMMA MergedWell ==
    ASSUME NEW S \in SUBSET DOMAIN CacheDir, S # {}, NEW e \in MergeResults(S)
    PROVE  /\ e \in EntryRecords /\ e.meta
           /\ \A i \in S : CacheDir[i].id => CacheDir[i].debrid \in e.debrids
<1> DEFINE base == First(S)
           own  == MergedOfBase(base).own
           others == {i \in S \ {base} :
                      /\ \A j \in own : CacheDir[j].debrid # CacheDir[i].debrid
                      /\ \A j \in S \ {base} : j < i => CacheDir[j].debrid # CacheDir[i].debrid}
           done == {CacheDir[i].debrid : i \in {j \in own : CacheDir[j].done} \cup {j \in others : ~CacheDir[j].bad}}
<1>1. DOMAIN CacheDir \subseteq Nat BY MigrationAssumption
<1>2. base \in S BY <1>1, FirstIsFirst
<1>3. own = IF CacheDir[base].id THEN {base} ELSE {} BY DEF MergedOfBase
<1>4. /\ e.debrids = {CacheDir[i].debrid : i \in own \cup others}
      /\ e.files = MergedOfBase(base).files \cup UNION {CacheDir[i].files : i \in others}
      /\ e.active \in IF done = {} THEN {CacheDir[base].debrid} ELSE done
      /\ e.meta = TRUE
      /\ e = [debrids |-> e.debrids, files |-> e.files, active |-> e.active, meta |-> e.meta]
  BY DEF MergeResults
<1>5. own \subseteq S /\ others \subseteq S BY <1>2, <1>3
<1>6. e.debrids \in SUBSET CacheDebrids
  <2> HIDE DEF own, others
  <2> QED BY <1>4, <1>5 DEF CacheDebrids
<1>7. e.active \in CacheDebrids
  <2> HIDE DEF own, others, base
  <2>1. done \subseteq CacheDebrids BY <1>5 DEF CacheDebrids
  <2>2. CacheDir[base].debrid \in CacheDebrids BY <1>2 DEF CacheDebrids
  <2> HIDE DEF done
  <2> QED BY <1>4, <2>1, <2>2
<1>8. e.files \in SUBSET FileNames
  <2> HIDE DEF own, others, base
  <2>1. MergedOfBase(base).files = {PathOf[n] : n \in CacheDir[base].files} BY DEF MergedOfBase
  <2>2. MergedOfBase(base).files \subseteq FileNames BY <1>2, <2>1 DEF FileNames
  <2>3. UNION {CacheDir[i].files : i \in others} \subseteq FileNames BY <1>5 DEF FileNames
  <2> QED BY <1>4, <2>2, <2>3
<1>9. ASSUME NEW i \in S, CacheDir[i].id PROVE CacheDir[i].debrid \in e.debrids
  <2>1. CASE i = base BY <1>3, <1>4, <1>9, <2>1
  <2>2. CASE i # base /\ \E j \in own : CacheDir[j].debrid = CacheDir[i].debrid
    <3> HIDE DEF own, others
    <3> QED BY <1>4, <2>2
  <2>3. CASE i # base /\ \A j \in own : CacheDir[j].debrid # CacheDir[i].debrid
    <3> DEFINE T == {j \in S \ {base} : CacheDir[j].debrid = CacheDir[i].debrid}
    <3>1. T \in SUBSET Nat /\ T # {} BY <1>1, <2>3
    <3>2. PICK k \in T : \A j \in T : k <= j BY <3>1, FirstExists
    <3>3. \A j \in S \ {base} : j < k => CacheDir[j].debrid # CacheDir[k].debrid
      <4> SUFFICES ASSUME NEW j \in S \ {base}, j < k, CacheDir[j].debrid = CacheDir[k].debrid PROVE FALSE
        OBVIOUS
      <4>1. j \in T BY <3>2
      <4>2. k <= j /\ j \in Nat /\ k \in Nat BY <3>1, <3>2, <4>1
      <4> QED BY <4>2
    <3>4. k \in others BY <2>3, <3>2, <3>3
    <3>5. CacheDir[k].debrid = CacheDir[i].debrid BY <3>2
    <3> HIDE DEF own, others, T
    <3> QED BY <1>4, <3>4, <3>5
  <2> QED BY <2>1, <2>2, <2>3
<1>10. e \in EntryRecords
  <2> HIDE DEF own, others, base, done
  <2> QED BY <1>4, <1>6, <1>7, <1>8 DEF EntryRecords
<1> QED BY <1>4, <1>9, <1>10

-----------------------------------------------------------------------------
(* The steps *)

\* A record is written.
LEMMA PutKeeps ==
    ASSUME StartInv, NEW k \in {StatusKey} \cup KnownHashes, NEW v \in EntryRecords \cup StatusRecords \cup {Absent},
           Put(k, v), durable' = durable, k \in KnownHashes => v \in EntryRecords \cup {Absent}
    PROVE  /\ LogTyped' /\ Newest(journal', k) = v /\ \A h : h # k => Newest(journal', h) = Newest(journal, h)
           /\ \A h : InLog(h) \/ h = k => InLog(h)'
           /\ OverMeansAll /\ (k = StatusKey /\ Finished(v) => \A h \in CachedHashes : InLog(h)) => OverMeansAll'
           /\ WholeEntries /\ (k \in KnownHashes \ OldEntries /\ v # Absent => v.meta /\ Placed(k) \subseteq v.debrids)
                => WholeEntries'
<1> DEFINE n == Len(journal)
<1>1. /\ journal' \in Seq(LogRecords) /\ n \in Nat /\ Len(journal') = n + 1
      /\ DOMAIN journal = 1 .. n /\ DOMAIN journal' = 1 .. (n + 1)
      /\ \A i \in 1 .. n : journal'[i] = journal[i]
      /\ journal'[n + 1].key = k /\ journal'[n + 1].value = v
  BY PutAppends DEF StartInv
<1>2. Newest(journal', k) = v /\ \A h : h # k => Newest(journal', h) = Newest(journal, h)
  BY PutNewest DEF StartInv
<1>3. durable' \in 0 .. Len(journal') BY <1>1 DEF StartInv, LogTyped
<1> HIDE DEF n
<1>4. \A i \in 1 .. (n + 1) : i \in 1 .. n \/ i = n + 1 BY <1>1
<1>5. n + 1 \in 1 .. (n + 1) /\ \A i \in 1 .. n : i \in 1 .. (n + 1) /\ i < n + 1 BY <1>1
<1>6. LogTyped'
  <2>1. \A i \in DOMAIN journal : journal[i].key \in KnownHashes => journal[i].value \in EntryRecords \cup {Absent}
    BY DEF StartInv, LogTyped
  <2>2. \A i \in DOMAIN journal' : journal'[i].key \in KnownHashes => journal'[i].value \in EntryRecords \cup {Absent}
    BY <1>1, <1>4, <2>1
  <2> QED BY <1>1, <1>3, <2>2 DEF LogTyped
<1>7. \A h : InLog(h) \/ h = k => InLog(h)' BY <1>1, <1>5 DEF InLog
<1>8. ASSUME OverMeansAll, k = StatusKey /\ Finished(v) => \A h \in CachedHashes : InLog(h) PROVE OverMeansAll'
  <2> SUFFICES ASSUME NEW i \in 1 .. (n + 1), journal'[i].key = StatusKey, Finished(journal'[i].value),
                      NEW h \in CachedHashes
               PROVE  \E j \in 1 .. (n + 1) : j < i /\ journal'[j].key = h
    BY <1>1 DEF OverMeansAll, Finished
  <2>1. CASE i \in 1 .. n
    <3>1. \E j \in 1 .. n : j < i /\ journal[j].key = h BY <1>1, <1>8, <2>1 DEF OverMeansAll
    <3> QED BY <1>1, <1>5, <3>1
  <2>2. CASE i = n + 1
    <3>1. \E j \in 1 .. n : journal[j].key = h BY <1>1, <1>8, <2>2 DEF InLog
    <3> QED BY <1>1, <1>5, <2>2, <3>1
  <2> QED BY <1>4, <2>1, <2>2
<1>9. ASSUME WholeEntries, k \in KnownHashes \ OldEntries /\ v # Absent => v.meta /\ Placed(k) \subseteq v.debrids
      PROVE  WholeEntries'
  BY <1>1, <1>4, <1>9 DEF WholeEntries
<1> QED BY <1>2, <1>6, <1>7, <1>8, <1>9

LEMMA MishapCounts == ASSUME StartInv, Mishap PROVE mishaps' \in Nat /\ mishaps' # 0
  BY DEF StartInv, StartTyped, Mishap

LEMMA StartInvInit == MigrationInit => StartInv
<1> SUFFICES ASSUME MigrationInit PROVE StartInv OBVIOUS
<1> DEFINE n == Cardinality(OldEntries)
<1>1. n \in Nat BY FS_CardinalityType, MigrationAssumption
<1> HIDE DEF n
<1>2. OldEntry \in EntryRecords BY DEF OldEntry, EntryRecords
<1>3. PICK log \in [1 .. n -> OldEntries] :
        journal = [i \in DOMAIN log |-> [key |-> log[i], value |-> OldEntry]]
  BY DEF MigrationInit, n
<1>4. journal = [i \in 1 .. n |-> [key |-> log[i], value |-> OldEntry]] BY <1>3
<1>5. \A i \in 1 .. n : journal[i] \in LogRecords /\ journal[i].key \in OldEntries /\ journal[i].value = OldEntry
  BY <1>2, <1>3, <1>4 DEF LogRecords, KnownHashes
<1>6. journal \in Seq(LogRecords) /\ DOMAIN journal = 1 .. n /\ Len(journal) = n
  <2>1. journal \in [1 .. n -> LogRecords] BY <1>4, <1>5
  <2>2. journal \in Seq(LogRecords) BY <1>1, <2>1, SeqDef
  <2>3. DOMAIN journal = 1 .. n BY <1>4
  <2>4. Len(journal) \in Nat /\ DOMAIN journal = 1 .. Len(journal) BY <2>2, LenProperties
  <2>5. Len(journal) = n BY <1>1, <2>3, <2>4
  <2> QED BY <2>2, <2>3, <2>5
<1>7. LogTyped
  <2>1. durable = Len(journal) BY DEF MigrationInit
  <2>2. durable \in 0 .. Len(journal) BY <1>1, <1>6, <2>1
  <2>3. \A i \in DOMAIN journal : journal[i].value \in EntryRecords \cup {Absent} BY <1>2, <1>5, <1>6
  <2> QED BY <1>6, <2>2, <2>3 DEF LogTyped
<1>8. StartTyped BY DEF StartTyped, MigrationInit
<1>9. OverMeansAll /\ WholeEntries BY <1>5, <1>6, StatusKeyApart DEF OverMeansAll, WholeEntries, KnownHashes
<1> QED BY <1>7, <1>8, <1>9 DEF StartInv, MetaPhase, MetaDone, RunPhase, ServeAll, MigrationInit

\* Steps that leave the log alone.
LEMMA LogStays ==
    ASSUME StartInv, journal' = journal, durable' = durable
    PROVE  /\ LogTyped' /\ (OverMeansAll => OverMeansAll') /\ (WholeEntries => WholeEntries')
           /\ \A h : (Stored(h)' <=> Stored(h)) /\ (InLog(h)' <=> InLog(h)) /\ Newest(journal', h) = Newest(journal, h)
  BY DEF StartInv, LogTyped, OverMeansAll, WholeEntries, Stored, InLog, Newest, Finished

LEMMA OpenStoreKeeps == ASSUME StartInv, OpenStore PROVE StartInv'
<1>1. boot = "off" /\ boot' = "meta" /\ mishaps' = mishaps /\ journal' = journal /\ durable' = durable
  BY DEF OpenStore
<1>2. migration' = [migration EXCEPT !.todo = {h \in KnownHashes : Stored(h) /\ ~Newest(journal, h).meta}]
  BY DEF OpenStore, KnownHashes
<1> DEFINE T == {h \in KnownHashes : Stored(h) /\ ~Newest(journal, h).meta}
<1> HIDE DEF T
<1>3. /\ migration' = [loaded |-> migration.loaded, todo |-> T, status |-> migration.status]
      /\ migration'.loaded = migration.loaded /\ migration'.todo = T /\ migration'.status = migration.status
  BY <1>2 DEF StartInv, StartTyped, T
<1>4. \A h \in T : h \in KnownHashes /\ Stored(h) BY DEF T
<1>5. StartTyped' BY <1>1, <1>3, <1>4, LogStays DEF StartInv, StartTyped
<1>6. MetaPhase' BY <1>1, <1>3, LogStays DEF MetaPhase, T
<1>7. MetaDone' /\ RunPhase' /\ ServeAll' BY <1>1 DEF MetaDone, RunPhase, ServeAll
<1> QED BY <1>1, <1>5, <1>6, <1>7, LogStays DEF StartInv

LEMMA ResaveEntryKeeps == ASSUME StartInv, NEW h \in OldEntries, ResaveEntry(h) PROVE StartInv'
<1> DEFINE T == migration.todo \ {h}
           v == [Newest(journal, h) EXCEPT !.meta = TRUE]
<1>1. boot = "meta" /\ boot' = "meta" /\ durable' = durable /\ h \in migration.todo
  BY DEF ResaveEntry
<1>2. h \in KnownHashes /\ Newest(journal, h) \in EntryRecords
  <2>1. Stored(h) BY <1>1 DEF StartInv, StartTyped
  <2> QED BY <2>1, NewestTyped DEF StartInv, KnownHashes
<1>3. v \in EntryRecords /\ v.meta = TRUE BY <1>2 DEF EntryRecords
<1> HIDE DEF v
<1>4. /\ migration' = [loaded |-> migration.loaded, todo |-> T, status |-> migration.status]
      /\ migration'.loaded = migration.loaded /\ migration'.todo = T /\ migration'.status = migration.status
  BY DEF StartInv, StartTyped, ResaveEntry
<1> HIDE DEF T
<1>5. T \subseteq migration.todo /\ h \notin T BY DEF T
<1>6. MetaDone' /\ RunPhase' /\ ServeAll' BY <1>1 DEF MetaDone, RunPhase, ServeAll
<1>7. CASE Put(h, v) /\ Smooth
  <2>1. /\ LogTyped' /\ Newest(journal', h) = v /\ \A g : g # h => Newest(journal', g) = Newest(journal, g)
        /\ OverMeansAll => OverMeansAll'
        /\ WholeEntries => WholeEntries'
    BY <1>1, <1>2, <1>3, <1>7, PutKeeps, StatusKeyApart
  <2>2. \A g \in T : Stored(g)' BY <1>1, <1>5, <2>1 DEF StartInv, StartTyped, Stored
  <2>3. StartTyped' BY <1>1, <1>4, <1>5, <1>7, <2>2 DEF StartInv, StartTyped, Smooth
  <2>4. MetaPhase => MetaPhase' BY <1>1, <1>3, <1>4, <2>1 DEF MetaPhase, Stored, T
  <2> QED BY <1>6, <1>7, <2>1, <2>3, <2>4 DEF StartInv, Smooth
<1>8. CASE Mishap /\ UNCHANGED journal
  <2>1. StartTyped' BY <1>1, <1>4, <1>5, <1>8, LogStays, MishapCounts DEF StartInv, StartTyped
  <2> QED BY <1>1, <1>8, <2>1, LogStays, MishapCounts DEF StartInv
<1> QED BY <1>7, <1>8 DEF ResaveEntry, v

LEMMA DecideKeeps == ASSUME StartInv, DecideMigration PROVE StartInv'
<1>1. /\ boot = "meta" /\ migration.todo = {} /\ journal' = journal /\ durable' = durable /\ migration' = migration
      /\ boot' \in {"load", "serve"}
  BY DEF DecideMigration
<1>2. mishaps' \in Nat /\ (mishaps' = 0 => mishaps = 0)
  BY MishapCounts DEF DecideMigration, Smooth, StartInv, StartTyped
<1>3. StartTyped' BY <1>1, <1>2 DEF StartInv, StartTyped
<1>4. ASSUME mishaps' = 0 PROVE MetaPhase' /\ MetaDone' /\ RunPhase' /\ ServeAll'
  <2>1. OverMeansAll /\ MetaPhase BY <1>2, <1>4 DEF StartInv
  <2>2. MetaDone' BY <1>1, <2>1, LogStays DEF MetaPhase, MetaDone
  <2>3. ServeAll'
    <3> SUFFICES ASSUME boot' = "serve", NEW h \in CachedHashes PROVE InLog(h)' BY DEF ServeAll
    <3>1. Finished(Newest(journal, StatusKey)) \/ CacheDir = <<>>
      BY <1>4, MishapCounts DEF DecideMigration
    <3>2. CacheDir # <<>>
      <4> SUFFICES ASSUME CacheDir = <<>> PROVE FALSE OBVIOUS
      <4>1. DOMAIN CacheDir = {} OBVIOUS
      <4> QED BY <4>1 DEF CachedHashes
    <3>3. PICK i \in DOMAIN journal : journal[i].key = StatusKey /\ journal[i].value = Newest(journal, StatusKey)
      BY <3>1, <3>2, NewestIsThere DEF Finished, StartInv
    <3>4. InLog(h) BY <2>1, <3>1, <3>2, <3>3 DEF OverMeansAll, InLog
    <3> QED BY <1>1, <3>4, LogStays
  <2> QED BY <1>1, <2>2, <2>3 DEF MetaPhase, RunPhase
<1> QED BY <1>1, <1>2, <1>3, <1>4, LogStays DEF StartInv

LEMMA StartMigrationKeeps == ASSUME StartInv, StartMigration PROVE StartInv'
<1>1. boot = "load" /\ boot' = "run" /\ durable' = durable BY DEF StartMigration
<1>2. PICK R \in SUBSET DOMAIN CacheDir :
        /\ IF R = DOMAIN CacheDir THEN Smooth ELSE Mishap
        /\ Put(StatusKey, Begun(Cardinality({CacheDir[i].hash : i \in R})))
        /\ migration' = [loaded |-> R, todo |-> {CacheDir[i].hash : i \in R},
                         status |-> Begun(Cardinality({CacheDir[i].hash : i \in R}))]
  BY DEF StartMigration
<1> DEFINE H == {CacheDir[i].hash : i \in R}
           s == Begun(Cardinality(H))
<1>3. H \subseteq CachedHashes BY DEF CachedHashes
<1>4. R = DOMAIN CacheDir => H = CachedHashes BY DEF CachedHashes
<1>5. s \in StatusRecords /\ s.running = TRUE BY <1>3 DEF Begun, StatusRecords
<1>6. Put(StatusKey, s) /\ migration' = [loaded |-> R, todo |-> H, status |-> s] BY <1>2
<1> HIDE DEF s
<1>7. /\ LogTyped' /\ \A h : h # StatusKey => Newest(journal', h) = Newest(journal, h)
      /\ OverMeansAll => OverMeansAll'
      /\ WholeEntries => WholeEntries'
  BY <1>1, <1>5, <1>6, PutKeeps, StatusKeyApart DEF Finished
<1>8. mishaps' \in Nat /\ (mishaps' = 0 => mishaps = 0 /\ R = DOMAIN CacheDir)
  BY <1>2, MishapCounts DEF Smooth, StartInv, StartTyped
<1>9. StartTyped'
  <2>1. migration'.loaded = R /\ migration'.todo = H /\ migration'.status = s BY <1>6
  <2>2. migration'.todo = {CacheDir[i].hash : i \in migration'.loaded} BY <2>1
  <2>3. H \subseteq KnownHashes BY <1>3 DEF KnownHashes
  <2> HIDE DEF H
  <2> QED BY <1>1, <1>5, <1>6, <1>8, <2>1, <2>2, <2>3 DEF StartTyped
<1>10. ASSUME mishaps' = 0 PROVE MetaPhase' /\ MetaDone' /\ RunPhase' /\ ServeAll'
  <2>1. MetaDone BY <1>8, <1>10 DEF StartInv
  <2>2. MetaDone' BY <1>1, <1>7, <2>1, StatusKeyApart DEF MetaDone, Stored
  <2>3. RunPhase' BY <1>4, <1>5, <1>6, <1>8, <1>10 DEF RunPhase
  <2> QED BY <1>1, <2>2, <2>3 DEF MetaPhase, ServeAll
<1> QED BY <1>7, <1>8, <1>9, <1>10 DEF StartInv

\* One hash is dealt with: what stays to be done, and the status.
LEMMA VisitedWell ==
    ASSUME StartInv, boot \in {"run", "save"}, NEW h \in CachedHashes, NEW s \in StatusRecords,
           s.running = migration.status.running, Visited(h, s), boot' \in {"run", "save"},
           mishaps' \in Nat, mishaps' = 0 => mishaps = 0
    PROVE  /\ StartTyped'
           /\ mishaps' = 0 /\ (\A g : InLog(g) \/ g = h => InLog(g)') => RunPhase'
<1> DEFINE T == migration.todo \ {h}
<1>1. migration' = [loaded |-> migration.loaded, todo |-> T, status |-> s]
  BY DEF StartInv, StartTyped, Visited
<1>2. migration'.loaded = migration.loaded /\ migration'.todo = T /\ migration'.status = s BY <1>1
<1>3. T \subseteq migration.todo OBVIOUS
<1>4. \A g \in CachedHashes : g \in migration.todo => g = h \/ g \in T OBVIOUS
<1> HIDE DEF T
<1>5. StartTyped' BY <1>1, <1>2, <1>3 DEF StartInv, StartTyped
<1>6. ASSUME mishaps' = 0, \A g : InLog(g) \/ g = h => InLog(g)' PROVE RunPhase'
  <2>1. RunPhase BY <1>6 DEF StartInv
  <2> QED BY <1>2, <1>4, <1>6, <2>1 DEF RunPhase
<1> QED BY <1>5, <1>6

LEMMA CompletedTyped ==
    ASSUME StartInv, boot \in {"run", "save"}
    PROVE  /\ Completed \in StatusRecords /\ Completed.running = migration.status.running
           /\ LET failed == [migration.status EXCEPT !.errors = @ + 1]
              IN  failed \in StatusRecords /\ failed.running = migration.status.running
<1>1. migration.status \in StatusRecords BY DEF StartInv, StartTyped
<1> QED BY <1>1 DEF Completed, StatusRecords

\* A status that says that it goes on.
LEMMA StatusPut ==
    ASSUME StartInv, boot \in {"run", "save"}, NEW s \in StatusRecords, s.running = migration.status.running,
           Put(StatusKey, s), durable' = durable
    PROVE  /\ LogTyped' /\ \A h : h # StatusKey => Newest(journal', h) = Newest(journal, h)
           /\ \A h : InLog(h) => InLog(h)'
           /\ mishaps = 0 => OverMeansAll' /\ WholeEntries'
<1>1. mishaps = 0 => ~Finished(s) BY DEF StartInv, RunPhase, Finished
<1>2. /\ LogTyped' /\ \A h : h # StatusKey => Newest(journal', h) = Newest(journal, h)
      /\ \A h : InLog(h) => InLog(h)'
      /\ OverMeansAll /\ ~Finished(s) => OverMeansAll'
      /\ WholeEntries => WholeEntries'
  BY PutKeeps, StatusKeyApart
<1> QED BY <1>1, <1>2 DEF StartInv

LEMMA SkipStoredKeeps == ASSUME StartInv, NEW h \in CachedHashes, SkipStored(h) PROVE StartInv'
<1>1. boot = "run" /\ boot' = "run" /\ durable' = durable /\ Visited(h, Completed) /\ Stored(h) BY DEF SkipStored
<1>2. Completed \in StatusRecords /\ Completed.running = migration.status.running BY <1>1, CompletedTyped
<1>3. InLog(h) BY <1>1, NewestIsThere DEF StartInv, Stored, InLog
<1>4. h # StatusKey BY StatusKeyApart DEF KnownHashes
<1>5. CASE Put(StatusKey, Completed) /\ Smooth
  <2>1. /\ LogTyped' /\ \A g : g # StatusKey => Newest(journal', g) = Newest(journal, g)
        /\ \A g : InLog(g) => InLog(g)'
        /\ mishaps = 0 => OverMeansAll' /\ WholeEntries'
    BY <1>1, <1>2, <1>5, StatusPut
  <2>2. StartTyped' /\ (mishaps' = 0 => RunPhase')
    BY <1>1, <1>2, <1>3, <1>5, <2>1, VisitedWell DEF Smooth, StartInv, StartTyped
  <2>3. MetaDone => MetaDone' BY <1>1, <2>1, StatusKeyApart DEF MetaDone, Stored
  <2> QED BY <1>1, <1>5, <2>1, <2>2, <2>3 DEF StartInv, Smooth, MetaPhase, ServeAll
<1>6. CASE UNCHANGED journal /\ Mishap
  <2>1. StartTyped' BY <1>1, <1>2, <1>6, MishapCounts, VisitedWell
  <2> QED BY <1>1, <1>6, <2>1, LogStays, MishapCounts DEF StartInv
<1> QED BY <1>5, <1>6 DEF SkipStored

LEMMA MigrateTorrentKeeps == ASSUME StartInv, NEW h \in CachedHashes, MigrateTorrent(h) PROVE StartInv'
<1>1. boot = "run" /\ boot' \in {"run", "save"} /\ durable' = durable /\ Visited(h, Completed) /\ h \in migration.todo
      /\ mishaps' = mishaps
  BY DEF MigrateTorrent, Smooth
<1>2. Completed \in StatusRecords /\ Completed.running = migration.status.running BY <1>1, CompletedTyped
<1> DEFINE S == CachedFor(h) \cap migration.loaded
<1>3. S \in SUBSET DOMAIN CacheDir /\ S # {}
  <2>1. PICK i \in migration.loaded : CacheDir[i].hash = h BY <1>1 DEF StartInv, StartTyped
  <2>2. i \in DOMAIN CacheDir BY <2>1 DEF StartInv, StartTyped
  <2> QED BY <2>1, <2>2 DEF CachedFor
<1>4. PICK e \in MergeResults(S) : Put(h, e) BY DEF MigrateTorrent
<1> HIDE DEF S
<1>5. e \in EntryRecords /\ e.meta = TRUE /\ \A i \in S : CacheDir[i].id => CacheDir[i].debrid \in e.debrids
  BY <1>3, MergedWell DEF EntryRecords
<1>6. h \in KnownHashes BY DEF KnownHashes
<1>7. mishaps = 0 => Placed(h) \subseteq e.debrids
  <2> SUFFICES ASSUME mishaps = 0, NEW i \in CachedFor(h), CacheDir[i].id PROVE CacheDir[i].debrid \in e.debrids
    BY DEF Placed
  <2>1. migration.loaded = DOMAIN CacheDir BY <1>1 DEF StartInv, RunPhase
  <2>2. i \in S BY <2>1 DEF S, CachedFor
  <2> QED BY <1>5, <2>2
<1>8. /\ LogTyped' /\ Newest(journal', h) = e /\ \A g : g # h => Newest(journal', g) = Newest(journal, g)
      /\ \A g : InLog(g) \/ g = h => InLog(g)'
      /\ OverMeansAll => OverMeansAll'
      /\ WholeEntries /\ Placed(h) \subseteq e.debrids => WholeEntries'
  BY <1>1, <1>4, <1>5, <1>6, PutKeeps, StatusKeyApart
<1>9. StartTyped' /\ (mishaps' = 0 => RunPhase')
  BY <1>1, <1>2, <1>8, VisitedWell DEF StartInv, StartTyped
<1>10. MetaDone => MetaDone' BY <1>1, <1>5, <1>8 DEF MetaDone, Stored
<1> QED BY <1>1, <1>7, <1>8, <1>9, <1>10 DEF StartInv, MetaPhase, ServeAll

LEMMA MigrateFailsKeeps == ASSUME StartInv, NEW h \in CachedHashes, MigrateFails(h) PROVE StartInv'
<1> DEFINE s == [migration.status EXCEPT !.errors = @ + 1]
<1>1. boot = "run" /\ boot' = "run" /\ UNCHANGED <<journal, durable>> /\ Mishap /\ Visited(h, s) BY DEF MigrateFails
<1>2. s \in StatusRecords /\ s.running = migration.status.running BY <1>1, CompletedTyped
<1> HIDE DEF s
<1>3. StartTyped' BY <1>1, <1>2, MishapCounts, VisitedWell
<1> QED BY <1>1, <1>3, LogStays, MishapCounts DEF StartInv

LEMMA SaveStatusKeeps == ASSUME StartInv, SaveStatus PROVE StartInv'
<1>1. boot = "save" /\ boot' = "run" /\ UNCHANGED <<durable, migration>> BY DEF SaveStatus
<1>2. migration.status \in StatusRecords BY <1>1 DEF StartInv, StartTyped
<1>3. CASE Put(StatusKey, migration.status) /\ Smooth
  <2>1. /\ LogTyped' /\ \A g : g # StatusKey => Newest(journal', g) = Newest(journal, g)
        /\ \A g : InLog(g) => InLog(g)'
        /\ mishaps = 0 => OverMeansAll' /\ WholeEntries'
    BY <1>1, <1>2, <1>3, StatusPut
  <2>2. StartTyped' BY <1>1, <1>3 DEF StartInv, StartTyped, Smooth
  <2>3. RunPhase => RunPhase' BY <1>1, <2>1 DEF RunPhase
  <2>4. MetaDone => MetaDone' BY <1>1, <2>1, StatusKeyApart DEF MetaDone, Stored
  <2> QED BY <1>1, <1>3, <2>1, <2>2, <2>3, <2>4 DEF StartInv, Smooth, MetaPhase, ServeAll
<1>4. CASE UNCHANGED journal /\ Mishap
  <2>1. StartTyped' BY <1>1, <1>4, MishapCounts DEF StartInv, StartTyped
  <2> QED BY <1>1, <1>4, <2>1, LogStays, MishapCounts DEF StartInv
<1> QED BY <1>3, <1>4 DEF SaveStatus

\* Everything is in the log when the status says that it is over.
LEMMA FinishKeeps == ASSUME StartInv, FinishMigration PROVE StartInv'
<1> DEFINE s == [migration.status EXCEPT !.running = FALSE]
<1>1. boot = "run" /\ boot' = "serve" /\ UNCHANGED <<durable, migration>> /\ migration.todo = {} BY DEF FinishMigration
<1>2. s \in StatusRecords BY <1>1 DEF StartInv, StartTyped, StatusRecords
<1>3. mishaps = 0 => \A h \in CachedHashes : InLog(h) BY <1>1 DEF StartInv, RunPhase
<1>4. CASE Put(StatusKey, s) /\ Smooth
  <2>1. /\ LogTyped' /\ \A g : g # StatusKey => Newest(journal', g) = Newest(journal, g)
        /\ \A g : InLog(g) => InLog(g)'
        /\ OverMeansAll /\ (\A h \in CachedHashes : InLog(h)) => OverMeansAll'
        /\ WholeEntries => WholeEntries'
    <3> HIDE DEF s
    <3> QED BY <1>1, <1>2, <1>4, PutKeeps, StatusKeyApart
  <2>2. StartTyped' BY <1>1, <1>4 DEF StartInv, StartTyped, Smooth
  <2>3. MetaDone => MetaDone' BY <1>1, <2>1, StatusKeyApart DEF MetaDone, Stored
  <2> QED BY <1>1, <1>3, <1>4, <2>1, <2>2, <2>3 DEF StartInv, Smooth, MetaPhase, ServeAll, RunPhase
<1>5. CASE UNCHANGED journal /\ Mishap
  <2>1. StartTyped' BY <1>1, <1>5, MishapCounts DEF StartInv, StartTyped
  <2> QED BY <1>1, <1>5, <2>1, LogStays, MishapCounts DEF StartInv
<1> QED BY <1>4, <1>5 DEF FinishMigration

LEMMA StartFailsKeeps == ASSUME StartInv, StartFails PROVE StartInv'
<1>1. boot' = "serve" /\ Mishap /\ UNCHANGED <<journal, durable, migration>> BY DEF StartFails
<1>2. StartTyped' BY <1>1, MishapCounts DEF StartInv, StartTyped
<1> QED BY <1>1, <1>2, LogStays, MishapCounts DEF StartInv

LEMMA EditKeeps == ASSUME StartInv, NEW h \in CachedHashes, Edit(h) PROVE StartInv'
<1> DEFINE e == [debrids |-> {CacheDir[i].debrid : i \in CachedFor(h)}, files |-> {},
                 active |-> CacheDir[First(CachedFor(h))].debrid, meta |-> TRUE]
           v == IF Stored(h) THEN Absent ELSE e
<1>1. boot = "serve" /\ boot' = "serve" /\ Put(h, v) /\ UNCHANGED <<durable, migration, mishaps>> BY DEF Edit
<1>2. e \in EntryRecords /\ e.meta = TRUE /\ Placed(h) \subseteq e.debrids
  <2>1. CachedFor(h) \in SUBSET Nat /\ CachedFor(h) # {} /\ CachedFor(h) \subseteq DOMAIN CacheDir
    BY MigrationAssumption DEF CachedFor, CachedHashes
  <2>2. First(CachedFor(h)) \in CachedFor(h) BY <2>1, FirstIsFirst
  <2>3. CacheDir[First(CachedFor(h))].debrid \in CacheDebrids BY <2>1, <2>2 DEF CacheDebrids
  <2>4. {CacheDir[i].debrid : i \in CachedFor(h)} \in SUBSET CacheDebrids BY <2>1 DEF CacheDebrids
  <2>5. Placed(h) \subseteq {CacheDir[i].debrid : i \in CachedFor(h)} BY DEF Placed
  <2> QED BY <2>3, <2>4, <2>5 DEF EntryRecords
<1> HIDE DEF e
<1>3. v \in EntryRecords \cup {Absent} /\ (v # Absent => v.meta = TRUE /\ Placed(h) \subseteq v.debrids) BY <1>2
<1> HIDE DEF v
<1>4. h \in KnownHashes BY DEF KnownHashes
<1>5. /\ LogTyped' /\ Newest(journal', h) = v /\ \A g : g # h => Newest(journal', g) = Newest(journal, g)
      /\ \A g : InLog(g) \/ g = h => InLog(g)'
      /\ OverMeansAll => OverMeansAll'
      /\ WholeEntries => WholeEntries'
  BY <1>1, <1>3, <1>4, PutKeeps, StatusKeyApart
<1>6. StartTyped' BY <1>1 DEF StartInv, StartTyped
<1>7. MetaDone => MetaDone' BY <1>1, <1>3, <1>5 DEF MetaDone, Stored
<1>8. ServeAll => ServeAll' BY <1>1, <1>5 DEF ServeAll
<1> QED BY <1>1, <1>5, <1>6, <1>7, <1>8 DEF StartInv, MetaPhase, RunPhase

LEMMA SyncKeeps == ASSUME StartInv, SyncJournal PROVE StartInv'
<1>1. journal' = journal /\ durable' = Len(journal) /\ UNCHANGED <<boot, migration, mishaps>> BY DEF SyncJournal
<1>2. Len(journal) \in Nat BY LenProperties DEF StartInv, LogTyped
<1>3. LogTyped' BY <1>1, <1>2 DEF StartInv, LogTyped
<1>4. \A h : (Stored(h)' <=> Stored(h)) /\ (InLog(h)' <=> InLog(h)) /\ Newest(journal', h) = Newest(journal, h)
  BY <1>1 DEF Stored, InLog, Newest
<1>5. StartTyped' BY <1>1, <1>4 DEF StartInv, StartTyped
<1>6. (OverMeansAll => OverMeansAll') /\ (WholeEntries => WholeEntries')
  BY <1>1 DEF OverMeansAll, WholeEntries, Finished
<1> QED BY <1>1, <1>3, <1>4, <1>5, <1>6 DEF StartInv, MetaPhase, MetaDone, RunPhase, ServeAll

\* A restart and a crash leave a beginning of the log and nothing else.
LEMMA OutageKeeps == ASSUME StartInv, RestartManager \/ CrashStart PROVE StartInv'
<1>1. Len(journal) \in Nat /\ DOMAIN journal = 1 .. Len(journal) /\ journal \in Seq(LogRecords)
  BY LenProperties DEF StartInv, LogTyped
<1>2. PICK n \in 0 .. Len(journal) :
        /\ journal' \in Seq(LogRecords) /\ Len(journal') = n /\ durable' = n /\ DOMAIN journal' = 1 .. n
        /\ \A i \in 1 .. n : journal'[i] = journal[i]
  <2>1. CASE RestartManager
    <3>1. journal' = journal /\ durable' = Len(journal) BY <2>1 DEF RestartManager
    <3>2. Len(journal) \in 0 .. Len(journal) BY <1>1
    <3>3. Len(journal') = Len(journal) /\ DOMAIN journal' = 1 .. Len(journal) /\ journal' \in Seq(LogRecords)
      BY <1>1, <3>1
    <3> QED BY <3>1, <3>2, <3>3
  <2>2. CASE CrashStart
    <3>1. PICK n \in durable .. Len(journal) : journal' = SubSeq(journal, 1, n) /\ durable' = n BY <2>2 DEF CrashStart
    <3>2. n \in 0 .. Len(journal) BY <1>1, <3>1 DEF StartInv, LogTyped
    <3>3. \A i \in 1 .. n : journal[i] \in LogRecords BY <1>1, <3>2, ElementOfSeq
    <3>4. /\ journal' \in Seq(LogRecords) /\ Len(journal') = IF 1 <= n THEN n - 1 + 1 ELSE 0
          /\ \A i \in 1 .. (n - 1 + 1) : journal'[i] = journal[1 + i - 1]
      BY <3>1, <3>2, <3>3, SubSeqProperties
    <3>5. Len(journal') = n BY <1>1, <3>2, <3>4
    <3>6. DOMAIN journal' = 1 .. n BY <3>4, <3>5, LenProperties
    <3>7. \A i \in 1 .. n : journal'[i] = journal[i] BY <1>1, <3>2, <3>4
    <3> QED BY <3>1, <3>2, <3>4, <3>5, <3>6, <3>7
  <2> QED BY <2>1, <2>2
<1>3. \A i \in 1 .. n : i \in DOMAIN journal BY <1>1
<1>4. LogTyped' BY <1>2, <1>3 DEF StartInv, LogTyped
<1>5. boot' = "off" /\ mishaps' = mishaps /\ migration' = [loaded |-> {}, todo |-> {}, status |-> Absent]
  BY DEF RestartManager, CrashStart, Off
<1>6. StartTyped' BY <1>5 DEF StartInv, StartTyped
<1>7. ASSUME OverMeansAll PROVE OverMeansAll'
  <2> SUFFICES ASSUME NEW i \in 1 .. n, journal[i].key = StatusKey, Finished(journal[i].value),
                      NEW h \in CachedHashes
               PROVE  \E j \in 1 .. n : j < i /\ journal[j].key = h
    BY <1>2 DEF OverMeansAll, Finished
  <2>1. PICK j \in DOMAIN journal : j < i /\ journal[j].key = h BY <1>3, <1>7 DEF OverMeansAll
  <2>2. j \in 1 .. n BY <1>1, <2>1
  <2> QED BY <2>1, <2>2
<1>8. WholeEntries => WholeEntries' BY <1>2, <1>3 DEF WholeEntries
<1> QED BY <1>4, <1>5, <1>6, <1>7, <1>8 DEF StartInv, MetaPhase, MetaDone, RunPhase, ServeAll

LEMMA StartInvStep == StartInv /\ [MigrationNext]_migrationVars => StartInv'
<1> SUFFICES ASSUME StartInv, [MigrationNext]_migrationVars PROVE StartInv' OBVIOUS
<1>1. CASE UNCHANGED migrationVars
  <2>1. UNCHANGED <<journal, durable, boot, migration, mishaps>> BY <1>1 DEF migrationVars
  <2>2. StartTyped' BY <2>1, LogStays DEF StartInv, StartTyped
  <2> QED BY <2>1, <2>2, LogStays DEF StartInv, MetaPhase, MetaDone, RunPhase, ServeAll
<1> QED BY <1>1, OpenStoreKeeps, DecideKeeps, StartMigrationKeeps, StartFailsKeeps, SaveStatusKeeps, FinishKeeps,
           ResaveEntryKeeps, SkipStoredKeeps, MigrateTorrentKeeps, MigrateFailsKeeps, EditKeeps, SyncKeeps,
           OutageKeeps
        DEF MigrationNext

THEOREM MigrationInv == MigrationSpec => []StartInv
  BY StartInvInit, StartInvStep, PTL DEF MigrationSpec

\* The types of the log and of the migration (MigrateMetadata, migrator.go).
THEOREM MigrationTypes == MigrationSpec => []MigrationTypeOK
<1>1. StartInv => MigrationTypeOK
  <2> SUFFICES ASSUME StartInv PROVE MigrationTypeOK OBVIOUS
  <2>1. \A i \in DOMAIN journal : journal[i] \in LogRecords
    BY LenProperties, ElementOfSeq DEF StartInv, LogTyped
  <2>2. \A i \in DOMAIN journal : journal[i].key \in {StatusKey} \cup KnownHashes BY <2>1 DEF LogRecords
  <2> QED BY <2>2 DEF StartInv, LogTyped, StartTyped, MigrationTypeOK, KnownHashes
<1> QED BY <1>1, MigrationInv, PTL

\* For any old cache, entries, crashes and losses of the log: once the program
\* serves and nothing has failed, every cached torrent has been brought in with
\* each debrid that had it, and each entry has its metadata (Migrator.Start,
\* which runs before the manager serves; MigrateMetadata).
THEOREM StartCompletes == MigrationSpec => []StartIsComplete
<1>1. StartInv => StartIsComplete
  <2> SUFFICES ASSUME StartInv, boot = "serve", mishaps = 0
               PROVE  /\ \A h \in CachedHashes : InLog(h)
                      /\ \A h \in KnownHashes : Stored(h) =>
                            /\ Newest(journal, h).meta
                            /\ h \notin OldEntries => Placed(h) \subseteq Newest(journal, h).debrids
    BY DEF StartIsComplete, InLog, KnownHashes, Placed
  <2>1. \A h \in CachedHashes : InLog(h) BY DEF StartInv, ServeAll
  <2>2. ASSUME NEW h \in KnownHashes, Stored(h) PROVE Newest(journal, h).meta BY <2>2 DEF StartInv, MetaDone
  <2>3. ASSUME NEW h \in KnownHashes, Stored(h), h \notin OldEntries PROVE Placed(h) \subseteq Newest(journal, h).debrids
    <3>1. PICK i \in DOMAIN journal : journal[i].key = h /\ journal[i].value = Newest(journal, h)
      BY <2>3, NewestIsThere DEF StartInv, Stored
    <3> QED BY <2>3, <3>1 DEF StartInv, WholeEntries, Stored
  <2> QED BY <2>1, <2>2, <2>3
<1> QED BY <1>1, MigrationInv, PTL

-----------------------------------------------------------------------------
(* TorrentEntries: the types. *)

Entries0 == Entry \cup {NoEntry}
SyncTasks == {"none", "delete", "drop", "new", "update", "put"}

Sync == [pc : {"idle", "scan", "delete", "work"}, list : [Torrents -> Torrent \cup {NoTorrent}],
         todo : SUBSET Torrents, task : [Torrents -> SyncTasks], ent : [Torrents -> Entries0]]

SwitchJob == [pc : {"move", "item", "giveup", "put", "back", "clean", "item2", "put2"}, keep : BOOLEAN,
              h : Torrents, target : Debrids, source : Debrids, e : Entry]

\* What is to be written is an entry.
Plans(y) == \A h \in Torrents : y.task[h] \in {"update", "put"} => y.ent[h] \in Entry

ItemOK == /\ item \in [Names -> Torrents \cup {NoFile}]
          /\ \A n \in Names : item[n] # NoFile => n \in FilesIn[item[n]]

TorrentInv ==
    /\ remote \in [Debrids -> [Torrents -> Torrent \cup {NoTorrent}]]
    /\ entries \in [Torrents -> Entries0]
    /\ ItemOK
    /\ sync \in [Debrids -> Sync] /\ \A d \in Debrids : Plans(sync[d])
    /\ switch \in [Switches -> SwitchJob \cup {NoSwitch}]
    /\ purge \subseteq Debrids \X (1 .. MaxId) /\ cut \subseteq Torrents
    /\ dropped \subseteq Torrents /\ lastId \in 0 .. MaxId /\ changes \in 0 .. MaxChanges

LEMMA EntryFields ==
    ASSUME NEW e \in Entry
    PROVE  /\ e.placed \in [Debrids -> Place \cup {NoPlace}] /\ e.active \in Debrids
           /\ e = [placed |-> e.placed, active |-> e.active]
BY DEF Entry

LEMMA AddProviderOK ==
    ASSUME NEW e \in Entry, NEW d \in Debrids, NEW t \in Torrent
    PROVE  /\ AddProvider(e, d, t) \in Entry
           /\ AddProvider(e, d, t).placed[d] = [id |-> t.id, done |-> t.done]
<1>1. [id |-> t.id, done |-> t.done] \in Place
  BY DEF Torrent, Place
<1> QED  BY <1>1, EntryFields DEF AddProvider, Entry

LEMMA ActivateOK ==
    ASSUME NEW e \in Entry, NEW d \in Debrids
    PROVE  ActivatePlacement(e, d) \in Entry /\ ActivatePlacement(e, d).placed = e.placed
BY EntryFields DEF ActivatePlacement, Entry

LEMMA NewEntryOK == \A d \in Debrids : NewEntry(d) \in Entry
BY DEF NewEntry, Entry

LEMMA RemoveProviderOK ==
    ASSUME NEW e \in Entry, NEW d \in Debrids, NEW x \in RemoveProvider(e, d)
    PROVE  x \in Entry /\ x.placed[d] = NoPlace
<1> DEFINE left == [e EXCEPT !.placed[d] = NoPlace]
<1>1. left \in Entry /\ left.placed[d] = NoPlace
  BY EntryFields DEF Entry
<1>2. x = left \/ \E p \in Debrids : x = [left EXCEPT !.active = p]
  <2> HIDE DEF left
  <2> QED  BY DEF RemoveProvider, ProvidersOf, left
<1> HIDE DEF left
<1>3. \A p \in Debrids : [left EXCEPT !.active = p] \in Entry /\ [left EXCEPT !.active = p].placed = left.placed
  BY <1>1, EntryFields DEF Entry
<1> QED  BY <1>1, <1>2, <1>3

LEMMA TorrentInitOK == TorrentInit => TorrentInv
<1> SUFFICES ASSUME TorrentInit PROVE TorrentInv
  OBVIOUS
<1>1. [id |-> 1, done |-> TRUE, linked |-> TRUE] \in Torrent
  BY TorrentAssumption DEF Torrent
<1>2. remote \in [Debrids -> [Torrents -> Torrent \cup {NoTorrent}]]
  BY <1>1 DEF TorrentInit
<1>3. Resting \in Sync /\ Plans(Resting)
  BY DEF Resting, Sync, Plans, Entries0, SyncTasks
<1>4. ItemOK
  BY DEF TorrentInit, ItemOK
<1> QED  BY <1>2, <1>3, <1>4, TorrentAssumption DEF TorrentInit, TorrentInv, Entries0
LEMMA UpdateItemOK == ASSUME ItemOK, NEW h \in Torrents, UpdateItem(h) PROVE ItemOK'
BY TorrentAssumption DEF ItemOK, UpdateItem

LEMMA RemoveFromItemOK == ASSUME ItemOK, NEW h \in Torrents, RemoveFromItem(h) PROVE ItemOK'
BY TorrentAssumption DEF ItemOK, RemoveFromItem

LEMMA ItemStays == ASSUME ItemOK, UNCHANGED item PROVE ItemOK'
BY DEF ItemOK

LEMMA ChangeOK == ASSUME changes \in 0 .. MaxChanges, Change PROVE changes' \in 0 .. MaxChanges
BY TorrentAssumption DEF Change

\* One refresh takes a step of its own.
LEMMA SyncStepOK ==
    ASSUME TorrentInv, NEW d \in Debrids, NEW y \in Sync, Plans(y), sync' = [sync EXCEPT ![d] = y]
    PROVE  sync' \in [Debrids -> Sync] /\ \A p \in Debrids : Plans(sync'[p])
BY DEF TorrentInv

LEMMA SyncFields ==
    ASSUME TorrentInv, NEW d \in Debrids
    PROVE  /\ sync[d] \in Sync /\ Plans(sync[d])
           /\ sync[d].list \in [Torrents -> Torrent \cup {NoTorrent}] /\ sync[d].todo \subseteq Torrents
           /\ sync[d].task \in [Torrents -> SyncTasks] /\ sync[d].ent \in [Torrents -> Entries0]
BY DEF TorrentInv, Sync

\* A step of a refresh that gives one torrent another task.
LEMMA TaskStepOK ==
    ASSUME TorrentInv, NEW d \in Debrids, NEW h \in Torrents, NEW k \in SyncTasks, NEW x \in Entries0,
           NEW T \in SUBSET Torrents, k \in {"update", "put"} => x \in Entry,
           sync' = [sync EXCEPT ![d].todo = T, ![d].task[h] = k, ![d].ent[h] = x]
    PROVE  sync' \in [Debrids -> Sync] /\ \A p \in Debrids : Plans(sync'[p])
<1> DEFINE y == [sync[d] EXCEPT !.todo = T, !.task[h] = k, !.ent[h] = x]
<1>1. y \in Sync /\ Plans(y)
  BY SyncFields DEF Sync, Plans
<1>2. sync' = [sync EXCEPT ![d] = y]
  OBVIOUS
<1> QED  BY <1>1, <1>2, SyncStepOK
LEMMA TaskOnlyOK ==
    ASSUME TorrentInv, NEW d \in Debrids, NEW h \in Torrents, NEW k \in SyncTasks,
           k \in {"update", "put"} => sync[d].ent[h] \in Entry, sync' = [sync EXCEPT ![d].task[h] = k]
    PROVE  sync' \in [Debrids -> Sync] /\ \A p \in Debrids : Plans(sync'[p])
<1> DEFINE y == [sync[d] EXCEPT !.task[h] = k]
<1>1. y \in Sync /\ Plans(y)
  BY SyncFields DEF Sync, Plans
<1>2. sync' = [sync EXCEPT ![d] = y]
  OBVIOUS
<1> QED  BY <1>1, <1>2, SyncStepOK

LEMMA TaskAndEntryOK ==
    ASSUME TorrentInv, NEW d \in Debrids, NEW h \in Torrents, NEW k \in SyncTasks, NEW x \in Entries0,
           k \in {"update", "put"} => x \in Entry,
           sync' = [sync EXCEPT ![d].task[h] = k, ![d].ent[h] = x]
    PROVE  sync' \in [Debrids -> Sync] /\ \A p \in Debrids : Plans(sync'[p])
<1> DEFINE y == [sync[d] EXCEPT !.task[h] = k, !.ent[h] = x]
<1>1. y \in Sync /\ Plans(y)
  BY SyncFields DEF Sync, Plans
<1>2. sync' = [sync EXCEPT ![d] = y]
  OBVIOUS
<1> QED  BY <1>1, <1>2, SyncStepOK

LEMMA StoredOK ==
    ASSUME TorrentInv, NEW h \in Torrents
    PROVE  /\ entries[h] \in Entries0 /\ (HasEntry(h) => entries[h] \in Entry)
           /\ \A d \in Debrids : PlaceOf(h, d) \in Place \cup {NoPlace} /\ (PlaceOf(h, d) # NoPlace => HasEntry(h))
BY EntryFields DEF TorrentInv, HasEntry, Entries0, PlaceOf

LEMMA ProcessedOK ==
    ASSUME TorrentInv, NEW h \in Torrents, NEW d \in Debrids, NEW t \in Torrent
    PROVE  Processed(h, d, t) \in Entry /\ Processed(h, d, t).placed[d] = [id |-> t.id, done |-> t.done]
<1> DEFINE e == AddProvider(IF HasEntry(h) THEN entries[h] ELSE NewEntry(d), d, t)
<1>1. e \in Entry /\ e.placed[d] = [id |-> t.id, done |-> t.done]
  BY StoredOK, NewEntryOK, AddProviderOK
<1>2. Processed(h, d, t) \in {e, ActivatePlacement(e, d)}
  BY DEF Processed
<1> HIDE DEF e
<1> QED  BY <1>1, <1>2, ActivateOK

\* The steps of a refresh that the rest of the state does not feel.
LEMMA RefreshKeeps ==
    ASSUME TorrentInv, sync' \in [Debrids -> Sync] /\ \A p \in Debrids : Plans(sync'[p]),
           entries' \in [Torrents -> Entries0], ItemOK', UNCHANGED <<remote, rest>>, changes' \in 0 .. MaxChanges
    PROVE  TorrentInv'
BY DEF TorrentInv, rest

LEMMA ExamineOK ==
    ASSUME TorrentInv, NEW d \in Debrids, NEW h \in Torrents, Examine(d, h)
    PROVE  TorrentInv'
<1> DEFINE T == sync[d].todo \ {h}
<1>1. PICK k \in {"delete", "update", "new", "none"}, x \in Entries0 :
          /\ sync' = [sync EXCEPT ![d].todo = T, ![d].task[h] = k, ![d].ent[h] = x]
          /\ k = "update" => x \in Entry
  <2>1. \A z \in RemoveProvider(entries[h], d) : PlaceOf(h, d) # NoPlace => z \in Entry
    BY StoredOK, RemoveProviderOK
  <2> QED  BY <2>1 DEF Examine, Entries0
<1>2. k \in SyncTasks /\ T \in SUBSET Torrents
  BY SyncFields DEF SyncTasks
<1>3. sync' \in [Debrids -> Sync] /\ \A p \in Debrids : Plans(sync'[p])
  BY ZenonT(60), <1>1, <1>2, TaskStepOK
<1> QED  BY <1>3, RefreshKeeps, ItemStays DEF Examine, TorrentInv

LEMMA RefreshStepOK ==
    ASSUME TorrentInv, NEW d \in Debrids, RefreshStep(d)
    PROVE  TorrentInv'
<1>1. ASSUME FetchList(d) PROVE TorrentInv'
  <2> DEFINE y == [Resting EXCEPT !.pc = "scan", !.list = remote[d], !.todo = Torrents]
  <2>1. y \in Sync /\ Plans(y)
    BY DEF Resting, Sync, Plans, Entries0, SyncTasks, TorrentInv
  <2>2. sync' = [sync EXCEPT ![d] = y]
    BY <1>1 DEF FetchList
  <2> HIDE DEF y
  <2>3. sync' \in [Debrids -> Sync] /\ \A p \in Debrids : Plans(sync'[p])
    BY <2>1, <2>2, SyncStepOK
  <2> QED  BY <1>1, <2>3, RefreshKeeps, ItemStays DEF FetchList, TorrentInv
<1>2. ASSUME Scanned(d) \/ Deleted(d) PROVE TorrentInv'
  <2>1. PICK k \in {"delete", "work"} : sync' = [sync EXCEPT ![d].pc = k]
    BY <1>2 DEF Scanned, Deleted
  <2> DEFINE y == [sync[d] EXCEPT !.pc = k]
  <2>2. y \in Sync /\ Plans(y) /\ sync' = [sync EXCEPT ![d] = y]
    BY <2>1, SyncFields DEF Sync, Plans
  <2>3. sync' \in [Debrids -> Sync] /\ \A p \in Debrids : Plans(sync'[p])
    BY <2>2, SyncStepOK
  <2> QED  BY <1>2, <2>3, RefreshKeeps, ItemStays DEF Scanned, Deleted, TorrentInv
<1>3. ASSUME Refreshed(d) PROVE TorrentInv'
  <2>1. Resting \in Sync /\ Plans(Resting)
    BY DEF Resting, Sync, Plans, Entries0, SyncTasks
  <2>2. sync' \in [Debrids -> Sync] /\ \A p \in Debrids : Plans(sync'[p])
    BY <1>3, <2>1, SyncStepOK DEF Refreshed
  <2> QED  BY <1>3, <2>2, RefreshKeeps, ItemStays DEF Refreshed, TorrentInv
<1>4. ASSUME NEW h \in Torrents, DeleteItem(d, h) PROVE TorrentInv'
  <2>1. sync' \in [Debrids -> Sync] /\ \A p \in Debrids : Plans(sync'[p])
    BY <1>4, TaskOnlyOK DEF DeleteItem, SyncTasks
  <2>2. ItemOK'
    BY <1>4, RemoveFromItemOK, ItemStays DEF DeleteItem, TorrentInv
  <2> QED  BY <1>4, <2>1, <2>2, RefreshKeeps DEF DeleteItem, TorrentInv
<1>5. ASSUME NEW h \in Torrents, DeleteDrops(d, h) PROVE TorrentInv'
  <2>1. sync' \in [Debrids -> Sync] /\ \A p \in Debrids : Plans(sync'[p])
    BY <1>5, TaskOnlyOK DEF DeleteDrops, SyncTasks
  <2>2. entries' \in [Torrents -> Entries0]
    BY <1>5 DEF DeleteDrops, Entries0, TorrentInv
  <2> QED  BY <1>5, <2>1, <2>2, RefreshKeeps, ItemStays DEF DeleteDrops, TorrentInv
<1>6. ASSUME NEW h \in Torrents, Process(d, h) PROVE TorrentInv'
  <2> DEFINE t == IF d \in ListsFiles /\ sync[d].list[h].linked THEN sync[d].list[h] ELSE remote[d][h]
  <2>1. t # NoTorrent => t \in Torrent
    BY SyncFields DEF TorrentInv
  <2>2. sync' \in [Debrids -> Sync] /\ \A p \in Debrids : Plans(sync'[p])
    <3>1. CASE t # NoTorrent /\ t.linked
      <4>1. Processed(h, d, t) \in Entry
        BY <2>1, <3>1, ProcessedOK
      <4>2. sync' = [sync EXCEPT ![d].task[h] = "update", ![d].ent[h] = Processed(h, d, t)]
        BY <1>6, <3>1 DEF Process
      <4> HIDE DEF t
      <4> QED  BY <4>1, <4>2, TaskAndEntryOK DEF SyncTasks, Entries0
    <3>2. CASE ~(t # NoTorrent /\ t.linked)
      <4>1. sync' = [sync EXCEPT ![d].task[h] = "none"]
        BY <1>6, <3>2 DEF Process
      <4> QED  BY <4>1, TaskOnlyOK DEF SyncTasks
    <3> QED  BY <3>1, <3>2
  <2> QED  BY <1>6, <2>2, RefreshKeeps, ItemStays DEF Process, TorrentInv
<1>7. ASSUME NEW h \in Torrents, UpdateWritesItem(d, h) PROVE TorrentInv'
  <2>1. sync[d].ent[h] \in Entry
    BY <1>7, SyncFields DEF UpdateWritesItem, Plans
  <2>2. sync' \in [Debrids -> Sync] /\ \A p \in Debrids : Plans(sync'[p])
    BY <1>7, <2>1, TaskOnlyOK DEF UpdateWritesItem, SyncTasks
  <2>3. ItemOK'
    BY <1>7, UpdateItemOK DEF UpdateWritesItem, TorrentInv
  <2> QED  BY <1>7, <2>2, <2>3, RefreshKeeps DEF UpdateWritesItem, TorrentInv
<1>8. ASSUME NEW h \in Torrents, UpdatePuts(d, h) PROVE TorrentInv'
  <2>1. sync' \in [Debrids -> Sync] /\ \A p \in Debrids : Plans(sync'[p])
    BY <1>8, TaskAndEntryOK DEF UpdatePuts, SyncTasks, Entries0
  <2>2. entries' \in [Torrents -> Entries0]
    BY <1>8, SyncFields DEF UpdatePuts, TorrentInv
  <2> QED  BY <1>8, <2>1, <2>2, RefreshKeeps, ItemStays DEF UpdatePuts, TorrentInv
<1> QED  BY <1>1, <1>2, <1>3, <1>4, <1>5, <1>6, <1>7, <1>8, ExamineOK DEF RefreshStep
LEMMA TaskFailsOK ==
    ASSUME TorrentInv, NEW d \in Debrids, NEW h \in Torrents, TaskFails(d, h)
    PROVE  TorrentInv'
<1>1. sync' \in [Debrids -> Sync] /\ \A p \in Debrids : Plans(sync'[p])
  BY TaskAndEntryOK DEF TaskFails, SyncTasks, Entries0
<1> QED  BY <1>1, RefreshKeeps, ItemStays, ChangeOK DEF TaskFails, TorrentInv

\* A goroutine of executeMigration, by itself.
LEMMA JobFields ==
    ASSUME TorrentInv, NEW s \in Switches, switch[s].pc # "idle"
    PROVE  switch[s] \in SwitchJob
BY DEF TorrentInv, NoSwitch

LEMMA JobStepOK ==
    ASSUME TorrentInv, NEW s \in Switches, NEW y \in SwitchJob \cup {NoSwitch}, switch' = [switch EXCEPT ![s] = y]
    PROVE  switch' \in [Switches -> SwitchJob \cup {NoSwitch}]
BY DEF TorrentInv

LEMMA RemoveRemoteOK ==
    ASSUME TorrentInv, NEW d \in Debrids, NEW id, RemoveRemote(d, id)
    PROVE  remote' \in [Debrids -> [Torrents -> Torrent \cup {NoTorrent}]]
BY DEF TorrentInv, RemoveRemote

LEMMA MoveTorrentOK ==
    ASSUME TorrentInv, NEW s \in Switches, MoveTorrent(s)
    PROVE  TorrentInv'
<1> DEFINE j == switch[s]
           t == [id |-> lastId + 1, done |-> TRUE, linked |-> TRUE]
           n == ActivatePlacement(AddProvider(j.e, j.target, t), j.target)
           At(k, x) == [j EXCEPT !.pc = k, !.e = x]
<1>1. j \in SwitchJob /\ j.e \in Entry /\ j.target \in Debrids /\ j.h \in Torrents
  BY JobFields DEF MoveTorrent, SwitchJob
<1>2. \A k \in {"item", "giveup"}, x \in Entry : At(k, x) \in SwitchJob
  BY <1>1 DEF SwitchJob
<1>3. CASE /\ switch' = [switch EXCEPT ![s] = At("item", ActivatePlacement(j.e, j.target))]
           /\ UNCHANGED <<remote, lastId, changes>>
  <2>1. ActivatePlacement(j.e, j.target) \in Entry
    BY <1>1, ActivateOK
  <2>2. switch' \in [Switches -> SwitchJob \cup {NoSwitch}]
    <3> HIDE DEF At, j
    <3> QED  BY <1>2, <1>3, <2>1, JobStepOK
  <2> QED  BY <1>3, <2>2, ItemStays DEF MoveTorrent, TorrentInv
<1>4. CASE /\ switch' = [switch EXCEPT ![s] = At("item", n)] /\ lastId < MaxId /\ lastId' = lastId + 1
           /\ remote' = [remote EXCEPT ![j.target][j.h] = t] /\ changes' = changes
  <2>1. t \in Torrent
    BY <1>4, TorrentAssumption DEF Torrent, TorrentInv
  <2>2. n \in Entry
    BY <1>1, <2>1, AddProviderOK, ActivateOK
  <2>3. switch' \in [Switches -> SwitchJob \cup {NoSwitch}]
    <3> HIDE DEF At, j, n
    <3> QED  BY <1>2, <1>4, <2>2, JobStepOK
  <2>4. remote' \in [Debrids -> [Torrents -> Torrent \cup {NoTorrent}]]
    <3> HIDE DEF t
    <3> QED  BY <1>4, <2>1 DEF TorrentInv
  <2>5. lastId' \in 0 .. MaxId
    BY <1>4, TorrentAssumption DEF TorrentInv
  <2> QED  BY <1>4, <2>3, <2>4, <2>5, ItemStays DEF MoveTorrent, TorrentInv
<1>5. CASE /\ switch' = [switch EXCEPT ![s] = At("giveup", j.e)] /\ (lastId = MaxId \/ changes < MaxChanges)
           /\ changes' = (IF lastId = MaxId THEN changes ELSE changes + 1) /\ UNCHANGED <<remote, lastId>>
  <2>1. switch' \in [Switches -> SwitchJob \cup {NoSwitch}]
    <3> HIDE DEF At, j
    <3> QED  BY <1>1, <1>2, <1>5, JobStepOK
  <2>2. changes' \in 0 .. MaxChanges
    BY <1>5, TorrentAssumption DEF TorrentInv
  <2> QED  BY <1>5, <2>1, <2>2, ItemStays DEF MoveTorrent, TorrentInv
<1> QED  BY <1>3, <1>4, <1>5 DEF MoveTorrent, Moved, Failed

LEMMA SwitchStepOK ==
    ASSUME TorrentInv, NEW s \in Switches, SwitchStep(s)
    PROVE  TorrentInv'
<1> DEFINE j == switch[s]
<1>0. ASSUME j.pc # "idle"
      PROVE  /\ j \in SwitchJob /\ j.e \in Entry /\ j.h \in Torrents /\ j.source \in Debrids
             /\ \A k \in {"put", "back", "clean", "item2", "put2"}, x \in Entry :
                   [j EXCEPT !.pc = k] \in SwitchJob /\ [j EXCEPT !.pc = k, !.e = x] \in SwitchJob
  BY <1>0, JobFields DEF SwitchJob
<1>1. ASSUME MoveWritesItem(s) PROVE TorrentInv'
  <2>1. switch' = [switch EXCEPT ![s] = [j EXCEPT !.pc = IF @ = "item" THEN "put" ELSE "back"]]
    BY <1>1 DEF MoveWritesItem
  <2>2. switch' \in [Switches -> SwitchJob \cup {NoSwitch}]
    BY <1>0, <1>1, <2>1, JobStepOK DEF MoveWritesItem
  <2>3. ItemOK'
    BY <1>0, <1>1, UpdateItemOK DEF MoveWritesItem, TorrentInv
  <2> QED  BY <1>1, <2>2, <2>3 DEF MoveWritesItem, TorrentInv
<1>2. ASSUME MovePuts(s) PROVE TorrentInv'
  <2>1. switch' \in [Switches -> SwitchJob \cup {NoSwitch}]
    BY <1>0, <1>2, JobStepOK DEF MovePuts
  <2>2. entries' \in [Torrents -> Entries0]
    BY <1>0, <1>2 DEF MovePuts, TorrentInv, Entries0
  <2> QED  BY <1>2, <2>1, <2>2, ItemStays DEF MovePuts, TorrentInv
<1>3. ASSUME SwitchCleans(s) PROVE TorrentInv'
  <2>1. \A x \in RemoveProvider(j.e, j.source) : x \in Entry
    BY <1>0, <1>3, RemoveProviderOK DEF SwitchCleans
  <2>2. switch' \in [Switches -> SwitchJob \cup {NoSwitch}]
    <3>1. CASE switch' = [switch EXCEPT ![s].pc = "item2"]
      BY <1>0, <1>3, <3>1, JobStepOK DEF SwitchCleans
    <3>2. ASSUME NEW x \in RemoveProvider(j.e, j.source), switch' = [switch EXCEPT ![s].pc = "item2", ![s].e = x]
          PROVE  switch' \in [Switches -> SwitchJob \cup {NoSwitch}]
      <4>1. [j EXCEPT !.pc = "item2", !.e = x] \in SwitchJob
        BY <1>0, <1>3, <2>1 DEF SwitchCleans
      <4>2. switch' = [switch EXCEPT ![s] = [j EXCEPT !.pc = "item2", !.e = x]]
        BY <3>2
      <4> HIDE DEF j
      <4> QED  BY <4>1, <4>2, JobStepOK
    <3> QED  BY <1>3, <3>1, <3>2 DEF SwitchCleans
  <2>3. remote' \in [Debrids -> [Torrents -> Torrent \cup {NoTorrent}]]
    BY <1>0, <1>3, RemoveRemoteOK DEF SwitchCleans, TorrentInv
  <2> QED  BY <1>3, <2>2, <2>3, ItemStays DEF SwitchCleans, TorrentInv
<1>4. ASSUME SwitchWritesItem(s) PROVE TorrentInv'
  <2>1. switch' \in [Switches -> SwitchJob \cup {NoSwitch}]
    BY <1>0, <1>4, JobStepOK DEF SwitchWritesItem
  <2>2. ItemOK'
    BY <1>0, <1>4, UpdateItemOK DEF SwitchWritesItem, TorrentInv
  <2> QED  BY <1>4, <2>1, <2>2 DEF SwitchWritesItem, TorrentInv
<1>5. ASSUME SwitchPuts(s) PROVE TorrentInv'
  <2>1. switch' \in [Switches -> SwitchJob \cup {NoSwitch}]
    BY <1>5, JobStepOK DEF SwitchPuts
  <2>2. entries' \in [Torrents -> Entries0]
    BY <1>0, <1>5 DEF SwitchPuts, TorrentInv, Entries0
  <2> QED  BY <1>5, <2>1, <2>2, ItemStays DEF SwitchPuts, TorrentInv
<1> QED  BY <1>1, <1>2, <1>3, <1>4, <1>5, MoveTorrentOK DEF SwitchStep

LEMMA TorrentNextOK == TorrentInv /\ [TorrentNext]_torrentVars => TorrentInv'
<1> SUFFICES ASSUME TorrentInv, [TorrentNext]_torrentVars PROVE TorrentInv'
  OBVIOUS
<1>1. ASSUME NEW s \in Switches, NEW h \in Torrents, NEW d \in Debrids, SwitchTorrent(s, h, d) PROVE TorrentInv'
  <2>1. entries[h] \in Entry /\ entries[h].active \in Debrids
    BY <1>1, StoredOK, EntryFields DEF SwitchTorrent
  <2>2. PICK keep \in BOOLEAN :
           switch' = [switch EXCEPT ![s] = [pc |-> "move", keep |-> keep, h |-> h, target |-> d,
                                            source |-> entries[h].active, e |-> entries[h]]]
    BY <1>1 DEF SwitchTorrent
  <2>3. switch' \in [Switches -> SwitchJob \cup {NoSwitch}]
    BY <2>1, <2>2, JobStepOK DEF SwitchJob
  <2> QED  BY <1>1, <2>3, ItemStays, ChangeOK DEF SwitchTorrent, TorrentInv
<1>2. ASSUME NEW h \in Torrents, DeleteEntry(h) PROVE TorrentInv'
  <2>1. ASSUME NEW d \in ProvidersOf(entries[h]) PROVE <<d, entries[h].placed[d].id>> \in Debrids \X (1 .. MaxId)
    BY <1>2, <2>1, StoredOK, EntryFields DEF DeleteEntry, ProvidersOf, Place
  <2>2. purge' \subseteq Debrids \X (1 .. MaxId)
    BY <1>2, <2>1 DEF DeleteEntry, TorrentInv
  <2>3. ItemOK'
    BY <1>2, RemoveFromItemOK DEF DeleteEntry, TorrentInv
  <2> QED  BY <1>2, <2>2, <2>3, ChangeOK DEF DeleteEntry, TorrentInv
<1>3. ASSUME NEW h \in Torrents, DeleteEntryDrops(h) PROVE TorrentInv'
  BY <1>3, ItemStays DEF DeleteEntryDrops, TorrentInv, Entries0
<1>4. ASSUME NEW p \in purge, RemovePlacement(p) PROVE TorrentInv'
  <2>1. p[1] \in Debrids
    BY DEF TorrentInv
  <2>2. remote' \in [Debrids -> [Torrents -> Torrent \cup {NoTorrent}]]
    BY <1>4, <2>1, RemoveRemoteOK DEF RemovePlacement
  <2> QED  BY <1>4, <2>2, ItemStays DEF RemovePlacement, TorrentInv
<1>5. ASSUME NEW d \in Debrids, NEW h \in Torrents, RemoteAdds(d, h) PROVE TorrentInv'
  <2>1. PICK done \in BOOLEAN, linked \in BOOLEAN :
           remote' = [remote EXCEPT ![d][h] = [id |-> lastId + 1, done |-> done, linked |-> linked]]
    BY <1>5 DEF RemoteAdds
  <2>2. lastId' \in 0 .. MaxId /\ lastId + 1 \in 1 .. MaxId
    BY <1>5, TorrentAssumption DEF RemoteAdds, TorrentInv
  <2>3. remote' \in [Debrids -> [Torrents -> Torrent \cup {NoTorrent}]]
    BY <2>1, <2>2 DEF TorrentInv, Torrent
  <2> QED  BY <1>5, <2>2, <2>3, ItemStays, ChangeOK DEF RemoteAdds, TorrentInv
<1>6. ASSUME NEW d \in Debrids, NEW h \in Torrents, RemoteFinishes(d, h) PROVE TorrentInv'
  <2>1. [remote[d][h] EXCEPT !.done = TRUE, !.linked = TRUE] \in Torrent
    <3>1. remote[d][h] \in Torrent
      BY <1>6 DEF RemoteFinishes, TorrentInv
    <3> QED  BY <3>1 DEF Torrent
  <2>2. remote' = [remote EXCEPT ![d][h] = [remote[d][h] EXCEPT !.done = TRUE, !.linked = TRUE]]
    BY <1>6 DEF RemoteFinishes
  <2>3. remote' \in [Debrids -> [Torrents -> Torrent \cup {NoTorrent}]]
    BY <2>1, <2>2 DEF TorrentInv
  <2> QED  BY <1>6, <2>3, ItemStays, ChangeOK DEF RemoteFinishes, TorrentInv, rest
<1>7. ASSUME NEW d \in Debrids, NEW h \in Torrents, RemoteDrops(d, h) PROVE TorrentInv'
  BY <1>7, ItemStays, ChangeOK DEF RemoteDrops, TorrentInv
<1>8. ASSUME UNCHANGED torrentVars PROVE TorrentInv'
  BY <1>8, ItemStays DEF torrentVars, TorrentInv
<1> QED  BY <1>1, <1>2, <1>3, <1>4, <1>5, <1>6, <1>7, <1>8, RefreshStepOK, SwitchStepOK, TaskFailsOK DEF TorrentNext

THEOREM TorrentInvariant == TorrentSpec => []TorrentInv
  BY TorrentInitOK, TorrentNextOK, PTL DEF TorrentSpec

LEMMA TorrentInvTypes == TorrentInv => TorrentTypeOK
<1> SUFFICES ASSUME TorrentInv PROVE TorrentTypeOK
  OBVIOUS
<1>1. \A d \in Debrids : /\ sync[d].pc \in {"idle", "scan", "delete", "work"}
                         /\ sync[d].ent \in [Torrents -> Entry \cup {NoEntry}]
                         /\ \A h \in Torrents : sync[d].task[h] = "put" => sync[d].ent[h] # NoEntry
  BY SyncFields, TorrentAssumption DEF Sync, Plans, Entries0
<1>2. \A s \in Switches : switch[s].pc # "idle" => switch[s].e \in Entry
  BY JobFields DEF SwitchJob
<1> QED  BY <1>1, <1>2 DEF TorrentInv, TorrentTypeOK, ItemOK, Entries0

THEOREM TorrentTypes == TorrentSpec => []TorrentTypeOK
  BY TorrentInvariant, TorrentInvTypes, PTL

(* TorrentEntries: a refresh that nothing disturbs leaves the store as the   *)
(* debrid has it.                                                            *)

\* Nobody but the refresh of d writes another placement at d, no task of it
\* fails, and the torrents of d stay.
Undisturbed(d) ==
    \/ RefreshStep(d)
    \/ TorrentNext /\ (\A h \in Torrents : PlaceOf(h, d)' = PlaceOf(h, d)) /\ UNCHANGED <<sync[d], remote[d]>>

\* A torrent is at its place, for those that t tells of.
Matches(p, t) == IF t = NoTorrent THEN p = NoPlace ELSE t.linked => p = [id |-> t.id, done |-> t.done]

\* What the round has found out of h, and will write, is what the debrid has.
RightTask(d, h) ==
    LET k == sync[d].task[h]
        t == remote[d][h]
    IN  /\ k = "none" => Matches(PlaceOf(h, d), t)
        /\ k \in {"delete", "drop"} => t = NoTorrent
        /\ k = "new" => t # NoTorrent
        /\ k \in {"update", "put"} => Matches(sync[d].ent[h].placed[d], t)

Round(d) ==
    /\ sync[d].pc # "idle" => sync[d].list = remote[d]
    /\ sync[d].pc # "scan" => sync[d].todo = {}
    /\ sync[d].pc = "idle" => \A h \in Torrents : sync[d].task[h] = "none"
    /\ \A h \in sync[d].todo : sync[d].task[h] = "none"
    /\ \A h \in Torrents \ sync[d].todo : RightTask(d, h)

\* There is nothing left to write.
Settled(d) ==
    /\ Round(d) /\ Agrees(d)
    /\ \A h \in Torrents :
          /\ sync[d].task[h] \in {"none", "new"}
          /\ sync[d].task[h] = "new" => remote[d][h] # NoTorrent /\ ~remote[d][h].linked

\* What the steps of a refresh do to its record.
SetTask(d, h, k)       == sync' = [sync EXCEPT ![d].task[h] = k]
SetPlan(d, h, k, x)    == sync' = [sync EXCEPT ![d].task[h] = k, ![d].ent[h] = x]
SetVerdict(d, h, k, x) == sync' = [sync EXCEPT ![d].todo = @ \ {h}, ![d].task[h] = k, ![d].ent[h] = x]

\* All but the task and the plan of h.
Leaves(d, h, T) ==
    /\ sync'[d].pc = sync[d].pc /\ sync'[d].list = sync[d].list /\ sync'[d].todo = T
    /\ \A j \in Torrents \ {h} : sync'[d].task[j] = sync[d].task[j] /\ sync'[d].ent[j] = sync[d].ent[j]

LEMMA AfterTask ==
    ASSUME TorrentInv, NEW d \in Debrids, NEW h \in Torrents, NEW k, SetTask(d, h, k)
    PROVE  Leaves(d, h, sync[d].todo) /\ sync'[d].task[h] = k /\ sync'[d].ent[h] = sync[d].ent[h]
<1> DEFINE y == [sync[d] EXCEPT !.task[h] = k]
<1>1. sync'[d] = y
  BY DEF TorrentInv, SetTask
<1>2. /\ y.pc = sync[d].pc /\ y.list = sync[d].list /\ y.todo = sync[d].todo
      /\ y.task = [sync[d].task EXCEPT ![h] = k] /\ y.ent = sync[d].ent
  BY SyncFields DEF Sync
<1> HIDE DEF y
<1> QED  BY <1>1, <1>2, SyncFields DEF Leaves

LEMMA AfterTaskAndEntry ==
    ASSUME TorrentInv, NEW d \in Debrids, NEW h \in Torrents, NEW k, NEW x, SetPlan(d, h, k, x)
    PROVE  Leaves(d, h, sync[d].todo) /\ sync'[d].task[h] = k /\ sync'[d].ent[h] = x
<1> DEFINE y == [sync[d] EXCEPT !.task[h] = k, !.ent[h] = x]
<1>1. sync'[d] = y
  BY DEF TorrentInv, SetPlan
<1>2. /\ y.pc = sync[d].pc /\ y.list = sync[d].list /\ y.todo = sync[d].todo
      /\ y.task = [sync[d].task EXCEPT ![h] = k] /\ y.ent = [sync[d].ent EXCEPT ![h] = x]
  BY SyncFields DEF Sync
<1> HIDE DEF y
<1> QED  BY <1>1, <1>2, SyncFields DEF Leaves

LEMMA AfterExamine ==
    ASSUME TorrentInv, NEW d \in Debrids, NEW h \in Torrents, NEW k, NEW x, SetVerdict(d, h, k, x)
    PROVE  Leaves(d, h, sync[d].todo \ {h}) /\ sync'[d].task[h] = k /\ sync'[d].ent[h] = x
<1> DEFINE y == [sync[d] EXCEPT !.todo = @ \ {h}, !.task[h] = k, !.ent[h] = x]
<1>1. sync'[d] = y
  BY DEF TorrentInv, SetVerdict
<1>2. /\ y.pc = sync[d].pc /\ y.list = sync[d].list /\ y.todo = sync[d].todo \ {h}
      /\ y.task = [sync[d].task EXCEPT ![h] = k] /\ y.ent = [sync[d].ent EXCEPT ![h] = x]
  BY SyncFields DEF Sync
<1> HIDE DEF y
<1> QED  BY <1>1, <1>2, SyncFields DEF Leaves

LEMMA AfterFetch ==
    ASSUME TorrentInv, NEW d \in Debrids, FetchList(d)
    PROVE  /\ sync'[d].pc = "scan" /\ sync'[d].list = remote[d] /\ sync'[d].todo = Torrents
           /\ sync'[d].task = [h \in Torrents |-> "none"]
           /\ UNCHANGED <<remote, entries>>
<1> DEFINE y == [Resting EXCEPT !.pc = "scan", !.list = remote[d], !.todo = Torrents]
<1>1. sync'[d] = y
  BY DEF FetchList, TorrentInv
<1> QED  BY ZenonT(60), <1>1 DEF FetchList, Resting

LEMMA FetchBeginsRound == ASSUME NEW d \in Debrids, TorrentInv, FetchList(d) PROVE Round(d)'
BY AfterFetch DEF Round

LEMMA RoundEnds ==
    ASSUME NEW d \in Debrids, TorrentInv, Round(d), sync[d].pc = "idle" PROVE Agrees(d)
BY DEF Round, RightTask, Matches, Agrees

\* What a step leaves alone stays right.
LEMMA RightStays ==
    ASSUME NEW d \in Debrids, NEW h \in Torrents, RightTask(d, h), UNCHANGED <<entries[h], remote[d]>>,
           sync'[d].task[h] = sync[d].task[h], sync'[d].ent[h] = sync[d].ent[h]
    PROVE  RightTask(d, h)'
BY DEF RightTask, Matches, PlaceOf, HasEntry

LEMMA AgreesMatches ==
    ASSUME NEW d \in Debrids PROVE Agrees(d) <=> \A h \in Torrents : Matches(PlaceOf(h, d), remote[d][h])
BY DEF Agrees, Matches

\* A step of the round for h, which leaves h with a right task.
LEMMA RoundStep ==
    ASSUME NEW d \in Debrids, NEW h \in Torrents, TorrentInv, Round(d), sync[d].pc # "idle",
           UNCHANGED remote, \A k \in Torrents \ {h} : entries'[k] = entries[k],
           Leaves(d, h, sync[d].todo \ {h}), RightTask(d, h)'
    PROVE  Round(d)'
<1>1. \A k \in (Torrents \ sync[d].todo) \ {h} : RightTask(d, k)'
  BY RightStays DEF Round, Leaves
<1> QED  BY <1>1, SyncFields DEF Round, Leaves

LEMMA OthersKeepRound ==
    ASSUME NEW d \in Debrids, \A h \in Torrents : PlaceOf(h, d)' = PlaceOf(h, d), UNCHANGED <<sync[d], remote[d]>>
    PROVE  (Round(d) => Round(d)') /\ (Settled(d) => Settled(d)')
<1>1. \A h \in Torrents : RightTask(d, h) => RightTask(d, h)'
  BY DEF RightTask, Matches
<1>2. Agrees(d) => Agrees(d)'
  BY DEF Agrees
<1> QED  BY <1>1, <1>2 DEF Round, Settled

LEMMA ExamineKeepsRound ==
    ASSUME NEW d \in Debrids, NEW h \in Torrents, TorrentInv, Round(d), Examine(d, h)
    PROVE  Round(d)'
<1> DEFINE p == PlaceOf(h, d)
           t == remote[d][h]
<1>0. /\ sync[d].list[h] = t /\ t \in Torrent \cup {NoTorrent} /\ p \in Place \cup {NoPlace}
      /\ \A z \in RemoveProvider(entries[h], d) : p # NoPlace => z \in Entry /\ z.placed[d] = NoPlace
  BY SMTT(30), StoredOK, RemoveProviderOK DEF Round, Examine, TorrentInv
<1>1. PICK k, x :
        /\ SetVerdict(d, h, k, x)
        /\ \/ k = "delete" /\ t = NoTorrent
           \/ k = "update" /\ t = NoTorrent /\ x \in Entry /\ x.placed[d] = NoPlace
           \/ k = "new" /\ Differs(p, t)
           \/ k = "none" /\ ~Differs(p, t) /\ (p = NoPlace \/ t # NoTorrent)
  BY <1>0 DEF Examine, SetVerdict
<1>2. PlaceOf(h, d)' = p /\ remote' = remote
  BY DEF Examine, rest, PlaceOf, HasEntry
<1>3. Leaves(d, h, sync[d].todo \ {h}) /\ sync'[d].task[h] = k /\ sync'[d].ent[h] = x
  BY <1>1, AfterExamine
<1>4. RightTask(d, h)'
  <2>1. ASSUME ~Differs(p, t), p = NoPlace \/ t # NoTorrent PROVE Matches(p, t)
    BY <1>0, <2>1 DEF Differs, NeedsUpdate, Matches, Place
  <2>2. Differs(p, t) => t # NoTorrent
    BY DEF Differs
  <2> QED  BY <1>1, <1>2, <1>3, <2>1, <2>2 DEF RightTask, Matches
<1> QED  BY <1>2, <1>3, <1>4, RoundStep DEF Examine

LEMMA ProcessKeepsRound ==
    ASSUME NEW d \in Debrids, NEW h \in Torrents, TorrentInv, Round(d), Process(d, h)
    PROVE  Round(d)'
<1> DEFINE t == remote[d][h]
<1>0. /\ sync[d].list[h] = t /\ sync[d].todo = {} /\ t # NoTorrent /\ t \in Torrent
  BY DEF Round, Process, TorrentInv, RightTask
<1>1. UNCHANGED <<remote, entries>> /\ sync[d].pc # "idle"
  BY DEF Process
<1>2. RightTask(d, h)' /\ Leaves(d, h, sync[d].todo)
  <2>1. CASE t.linked
    <3>1. SetPlan(d, h, "update", Processed(h, d, t))
      BY <1>0, <2>1 DEF Process, SetPlan
    <3>2. PICK k, x : k = "update" /\ x = Processed(h, d, t) /\ SetPlan(d, h, k, x)
      BY <3>1
    <3>3. Leaves(d, h, sync[d].todo) /\ sync'[d].task[h] = "update" /\ sync'[d].ent[h] = Processed(h, d, t)
      BY <3>2, AfterTaskAndEntry
    <3>4. sync'[d].ent[h].placed[d] = [id |-> t.id, done |-> t.done]
      BY <1>0, <3>3, ProcessedOK
    <3> QED  BY <1>0, <1>1, <3>3, <3>4 DEF RightTask, Matches
  <2>2. CASE ~t.linked
    <3>1. SetTask(d, h, "none")
      BY <1>0, <2>2 DEF Process, SetTask
    <3>2. PICK k : k = "none" /\ SetTask(d, h, k)
      BY <3>1
    <3>3. Leaves(d, h, sync[d].todo) /\ sync'[d].task[h] = "none"
      BY <3>2, AfterTask
    <3> QED  BY <1>0, <1>1, <2>2, <3>3 DEF RightTask, Matches
  <2> QED  BY <2>1, <2>2
<1> QED  BY <1>0, <1>1, <1>2, RoundStep DEF Leaves

LEMMA WriteKeepsRound ==
    ASSUME NEW d \in Debrids, NEW h \in Torrents, TorrentInv, Round(d),
           DeleteItem(d, h) \/ DeleteDrops(d, h) \/ UpdateWritesItem(d, h) \/ UpdatePuts(d, h)
    PROVE  Round(d)'
<1>0. /\ sync[d].pc # "idle" /\ sync[d].task[h] \in {"delete", "drop", "update", "put"} /\ h \notin sync[d].todo
      /\ remote' = remote /\ \A k \in Torrents \ {h} : entries'[k] = entries[k]
  BY DEF Round, DeleteItem, DeleteDrops, UpdateWritesItem, UpdatePuts, TorrentInv
<1>1. RightTask(d, h) /\ sync[d].todo \ {h} = sync[d].todo
  BY <1>0 DEF Round
<1>2. ASSUME NEW k, SetTask(d, h, k)
      PROVE  Leaves(d, h, sync[d].todo) /\ sync'[d].task[h] = k /\ sync'[d].ent[h] = sync[d].ent[h]
  BY <1>2, AfterTask
<1>3. CASE DeleteItem(d, h)
  <2>1. PICK k : k = "drop" /\ SetTask(d, h, k)
    BY <1>3 DEF DeleteItem, SetTask
  <2>2. RightTask(d, h)'
    BY <1>1, <1>2, <1>3, <2>1 DEF DeleteItem, RightTask
  <2> QED  BY <1>0, <1>1, <1>2, <2>1, <2>2, RoundStep
<1>4. CASE DeleteDrops(d, h)
  <2>1. PICK k : k = "none" /\ SetTask(d, h, k)
    BY <1>4 DEF DeleteDrops, SetTask
  <2>2. remote[d][h] = NoTorrent /\ entries'[h] = NoEntry
    BY <1>1, <1>4 DEF DeleteDrops, RightTask, TorrentInv
  <2>3. RightTask(d, h)'
    BY <1>0, <1>2, <2>1, <2>2 DEF RightTask, Matches, PlaceOf, HasEntry
  <2> QED  BY <1>0, <1>1, <1>2, <2>1, <2>3, RoundStep
<1>5. CASE UpdateWritesItem(d, h)
  <2>1. PICK k : k = "put" /\ SetTask(d, h, k)
    BY <1>5 DEF UpdateWritesItem, SetTask
  <2>2. RightTask(d, h)'
    BY <1>0, <1>1, <1>2, <1>5, <2>1 DEF UpdateWritesItem, RightTask, Matches
  <2> QED  BY <1>0, <1>1, <1>2, <2>1, <2>2, RoundStep
<1>6. CASE UpdatePuts(d, h)
  <2>1. PICK k, x : k = "none" /\ SetPlan(d, h, k, x)
    BY <1>6 DEF UpdatePuts, SetPlan
  <2>2. Leaves(d, h, sync[d].todo) /\ sync'[d].task[h] = "none"
    BY <2>1, AfterTaskAndEntry
  <2>3. sync[d].ent[h] \in Entry /\ Matches(sync[d].ent[h].placed[d], remote[d][h])
    BY <1>1, <1>6, SyncFields DEF UpdatePuts, RightTask, Plans
  <2>4. entries'[h] = sync[d].ent[h]
    BY <1>6 DEF UpdatePuts, TorrentInv
  <2>5. RightTask(d, h)'
    BY <1>0, <2>2, <2>3, <2>4, TorrentAssumption DEF RightTask, Matches, PlaceOf, HasEntry
  <2> QED  BY <1>0, <1>1, <2>2, <2>5, RoundStep
<1> QED  BY <1>3, <1>4, <1>5, <1>6

LEMMA RefreshKeepsRound ==
    ASSUME NEW d \in Debrids, TorrentInv, Round(d), RefreshStep(d)
    PROVE  Round(d)'
<1>1. ASSUME Scanned(d) \/ Deleted(d) PROVE Round(d)'
  <2>1. PICK k \in {"delete", "work"} : sync' = [sync EXCEPT ![d].pc = k] /\ UNCHANGED <<entries, remote>>
    BY <1>1 DEF Scanned, Deleted
  <2>2. /\ sync'[d].pc = k /\ sync'[d].list = sync[d].list /\ sync'[d].todo = sync[d].todo
        /\ sync'[d].task = sync[d].task /\ sync'[d].ent = sync[d].ent
    BY <2>1, SyncFields DEF TorrentInv, Sync
  <2>3. sync[d].pc # "idle" /\ sync[d].todo = {}
    BY <1>1 DEF Scanned, Deleted, Round
  <2>4. \A h \in Torrents : RightTask(d, h)'
    BY <2>1, <2>2, <2>3, RightStays DEF Round
  <2> QED  BY <2>1, <2>2, <2>3, <2>4 DEF Round
<1>2. ASSUME Refreshed(d) PROVE Round(d)'
  <2>1. sync'[d] = Resting /\ UNCHANGED <<entries, remote>>
    BY <1>2 DEF Refreshed, TorrentInv
  <2>2. \A h \in Torrents : Matches(PlaceOf(h, d), remote[d][h])
    BY <1>2 DEF Refreshed, Tasks, Round, RightTask
  <2> QED  BY <2>1, <2>2 DEF Round, Resting, RightTask, Matches, PlaceOf, HasEntry
<1> QED  BY <1>1, <1>2, FetchBeginsRound, ExamineKeepsRound, ProcessKeepsRound, WriteKeepsRound DEF RefreshStep

LEMMA RefreshKeepsSettled ==
    ASSUME NEW d \in Debrids, TorrentInv, Settled(d), RefreshStep(d)
    PROVE  Settled(d)'
<1> DEFINE t(h) == remote[d][h]
           Fine(h) ==
              /\ sync[d].task[h] \in {"none", "new"}
              /\ sync[d].task[h] = "new" => t(h) # NoTorrent /\ ~t(h).linked
<1>1. Round(d)'
  BY RefreshKeepsRound DEF Settled
<1>2. UNCHANGED <<entries, remote>> /\ \A h \in Torrents : Fine(h)'
  <2>1. ASSUME Scanned(d) \/ Deleted(d) PROVE UNCHANGED <<entries, remote>> /\ sync'[d].task = sync[d].task
    <3>1. PICK k \in {"delete", "work"} : sync' = [sync EXCEPT ![d].pc = k] /\ UNCHANGED <<entries, remote>>
      BY <2>1 DEF Scanned, Deleted
    <3> QED  BY <3>1, SyncFields DEF TorrentInv, Sync
  <2>2. ASSUME Refreshed(d) \/ FetchList(d)
        PROVE  UNCHANGED <<entries, remote>> /\ \A h \in Torrents : sync'[d].task[h] = "none"
    <3>1. CASE FetchList(d)
      BY <3>1, AfterFetch
    <3>2. CASE Refreshed(d)
      BY <3>2 DEF Refreshed, Resting, TorrentInv
    <3> QED  BY <2>2, <3>1, <3>2
  <2>3. ASSUME NEW h \in Torrents, Examine(d, h)
        PROVE  /\ UNCHANGED <<entries, remote>> /\ Fine(h)'
               /\ \A j \in Torrents \ {h} : sync'[d].task[j] = sync[d].task[j]
    <3>1. sync[d].list[h] = t(h) /\ Matches(PlaceOf(h, d), t(h))
      BY <2>3, AgreesMatches DEF Examine, Settled, Round
    <3>2. Differs(PlaceOf(h, d), t(h)) => t(h) # NoTorrent /\ ~t(h).linked
      <4> SUFFICES ASSUME t(h) # NoTorrent, t(h).linked PROVE ~Differs(PlaceOf(h, d), t(h))
        BY DEF Differs
      <4>1. PlaceOf(h, d) = [id |-> t(h).id, done |-> t(h).done]
        BY <3>1 DEF Matches
      <4>2. t(h).id \in 1 .. MaxId /\ t(h).done \in BOOLEAN
        BY DEF TorrentInv, Torrent
      <4>3. PlaceOf(h, d) # NoPlace
        BY <4>1, <4>2, TorrentAssumption DEF Place
      <4> QED  BY <4>1, <4>3 DEF Differs, NeedsUpdate
    <3>3. PICK k, x :
             /\ SetVerdict(d, h, k, x)
             /\ k \in {"new", "none"} /\ (k = "new" => t(h) # NoTorrent /\ ~t(h).linked)
      <4>1. \/ SetVerdict(d, h, "new", NoEntry) /\ Differs(PlaceOf(h, d), t(h))
            \/ SetVerdict(d, h, "none", NoEntry)
        BY <2>3, <3>1 DEF Examine, Matches, SetVerdict
      <4> QED  BY <3>2, <4>1
    <3>4. Leaves(d, h, sync[d].todo \ {h}) /\ sync'[d].task[h] = k
      BY <3>3, AfterExamine
    <3>5. UNCHANGED <<entries, remote>>
      BY <2>3 DEF Examine
    <3> QED  BY <3>3, <3>4, <3>5 DEF Leaves
  <2>4. ASSUME NEW h \in Torrents, Process(d, h)
        PROVE  /\ UNCHANGED <<entries, remote>> /\ Fine(h)'
               /\ \A j \in Torrents \ {h} : sync'[d].task[j] = sync[d].task[j]
    <3>1. sync[d].list[h] = t(h) /\ t(h) # NoTorrent /\ ~t(h).linked
      BY <2>4 DEF Process, Settled, Round
    <3>2. SetTask(d, h, "none") /\ UNCHANGED <<entries, remote>>
      BY <2>4, <3>1 DEF Process, SetTask
    <3>3. PICK k : k = "none" /\ SetTask(d, h, k)
      BY <3>2
    <3>4. Leaves(d, h, sync[d].todo) /\ sync'[d].task[h] = "none"
      BY <3>3, AfterTask
    <3> QED  BY <3>2, <3>4 DEF Leaves
  <2>5. ASSUME NEW h \in Torrents,
               DeleteItem(d, h) \/ DeleteDrops(d, h) \/ UpdateWritesItem(d, h) \/ UpdatePuts(d, h)
        PROVE  FALSE
    <3>1. sync[d].task[h] \in {"delete", "drop", "update", "put"}
      BY <2>5 DEF DeleteItem, DeleteDrops, UpdateWritesItem, UpdatePuts
    <3> QED  BY <3>1 DEF Settled
  <2>6. ASSUME UNCHANGED remote, sync'[d].task = sync[d].task PROVE \A h \in Torrents : Fine(h)'
    BY <2>6 DEF Settled
  <2>7. ASSUME UNCHANGED remote, NEW h \in Torrents, Fine(h)',
               \A j \in Torrents \ {h} : sync'[d].task[j] = sync[d].task[j]
        PROVE  \A j \in Torrents : Fine(j)'
    BY <2>7 DEF Settled
  <2> QED  BY <2>1, <2>2, <2>3, <2>4, <2>5, <2>6, <2>7 DEF RefreshStep
<1> QED  BY <1>1, <1>2 DEF Settled, Agrees, PlaceOf, HasEntry

LEMMA QuietKeepsRound ==
    ASSUME NEW d \in Debrids PROVE TorrentInv /\ Round(d) /\ [Undisturbed(d)]_torrentVars => Round(d)'
<1>1. UNCHANGED torrentVars =>
          (\A h \in Torrents : PlaceOf(h, d)' = PlaceOf(h, d)) /\ UNCHANGED <<sync[d], remote[d]>>
  BY DEF torrentVars, PlaceOf, HasEntry
<1> QED  BY <1>1, RefreshKeepsRound, OthersKeepRound DEF Undisturbed

LEMMA QuietKeepsSettled ==
    ASSUME NEW d \in Debrids PROVE TorrentInv /\ Settled(d) /\ [Undisturbed(d)]_torrentVars => Settled(d)'
<1>1. UNCHANGED torrentVars =>
          (\A h \in Torrents : PlaceOf(h, d)' = PlaceOf(h, d)) /\ UNCHANGED <<sync[d], remote[d]>>
  BY DEF torrentVars, PlaceOf, HasEntry
<1> QED  BY <1>1, RefreshKeepsSettled, OthersKeepRound DEF Undisturbed

LEMMA NextRoundSettles ==
    ASSUME NEW d \in Debrids PROVE TorrentInv /\ Round(d) /\ FetchList(d) => Settled(d)'
<1> SUFFICES ASSUME TorrentInv, Round(d), FetchList(d) PROVE Settled(d)'
  OBVIOUS
<1>1. Agrees(d)
  BY RoundEnds DEF FetchList
<1>2. Agrees(d)'
  BY <1>1, AfterFetch DEF Agrees, PlaceOf, HasEntry
<1> QED  BY <1>2, AfterFetch, FetchBeginsRound DEF Settled

LEMMA RoundsAgree ==
    ASSUME NEW d \in Debrids
    PROVE  TorrentSpec /\ <>[][Undisturbed(d)]_torrentVars /\ []<><<FetchList(d)>>_torrentVars => <>[]Agrees(d)
<1>1. TorrentInv /\ FetchList(d) => Round(d)'
  BY FetchBeginsRound
<1>2. TorrentInv /\ Round(d) /\ [Undisturbed(d)]_torrentVars => Round(d)'
  BY QuietKeepsRound
<1>3. TorrentInv /\ Round(d) /\ FetchList(d) => Settled(d)'
  BY NextRoundSettles
<1>4. TorrentInv /\ Settled(d) /\ [Undisturbed(d)]_torrentVars => Settled(d)'
  BY QuietKeepsSettled
<1>5. Settled(d) => Agrees(d)
  BY DEF Settled
<1> QED  BY <1>1, <1>2, <1>3, <1>4, <1>5, TorrentInvariant, PTL

\* The debrid is asked for its list again and again, or has no torrent left
\* (an empty list is taken for an error).
Asked(d) == \/ []<><<FetchList(d)>>_torrentVars
            \/ <>[](d \notin Busy /\ \A h \in Torrents : remote[d][h] = NoTorrent)

THEOREM StoreFollows ==
    TorrentSpec /\ (\A d \in Debrids : <>[][Undisturbed(d)]_torrentVars /\ Asked(d)) => Converges
<1>1. ASSUME NEW d \in Debrids
      PROVE  TorrentSpec /\ <>[][Undisturbed(d)]_torrentVars /\ Asked(d)
             => <>[](\/ d \notin Busy /\ \A h \in Torrents : remote[d][h] = NoTorrent
                     \/ Agrees(d))
  <2>1. TorrentSpec /\ <>[][Undisturbed(d)]_torrentVars /\ []<><<FetchList(d)>>_torrentVars => <>[]Agrees(d)
    BY RoundsAgree
  <2> QED  BY <2>1, PTL DEF Asked
<1> QED  BY <1>1 DEF Converges

-----------------------------------------------------------------------------
(* The three side by side (Manager) *)

\* While a part does not run its variables keep their values.
LEMMA ManagerParts == ManagerSpec => RepairSpec /\ TorrentSpec /\ MigrationSpec
<1>1. ManagerInit => RepairInit /\ TorrentInit /\ MigrationInit
  BY DEF ManagerInit
<1>2. [ManagerNext]_managerVars => [RepairNext]_repairVars /\ [TorrentNext]_torrentVars /\ [MigrationNext]_migrationVars
  <2>1. ManagerNext => [RepairNext]_repairVars /\ [TorrentNext]_torrentVars /\ [MigrationNext]_migrationVars
    BY DEF ManagerNext, InRepair, InTorrents, InMigration
  <2> QED  BY <2>1 DEF managerVars
<1> QED  BY <1>1, <1>2, PTL DEF ManagerSpec, RepairSpec, TorrentSpec, MigrationSpec

\* The types of the repair service, the refresh and the migration together.
THEOREM ManagerTypes == ManagerSpec => []ManagerTypeOK
<1>1. RepairTypeOK /\ TorrentTypeOK /\ MigrationTypeOK => ManagerTypeOK
  BY DEF ManagerTypeOK
<1> QED  BY <1>1, ManagerParts, RepairTypes, TorrentTypes, MigrationTypes, PTL

\* What a run checks of the refreshes, for any lists and entries: when the
\* switches and the deletions no longer touch the placements at a debrid, and
\* its list is fetched again and again, the store ends up with that list.
THEOREM RefreshesConverge ==
    ManagerSpec /\ (\A d \in Debrids : <>[][Undisturbed(d)]_torrentVars /\ Asked(d)) => StoreConverges
<1>1. ManagerSpec => TorrentSpec
  BY ManagerParts, PTL
<1> QED  BY <1>1, StoreFollows DEF StoreConverges
===============================================================================
