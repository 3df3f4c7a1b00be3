------------------------- MODULE QueueProcessorProofs -------------------------
(***************************************************************************)
(* What the queue processor keeps for any number of hashes, goroutines,    *)
(* tickers and workers, and whatever fails: the types of its variables,    *)
(* the agreement of the claims with the goroutines that hold them, and     *)
(* that a row is completed only after its entry was added.                 *)
(***************************************************************************)
EXTENDS QueueProcessor, SequenceTheorems, TLAPS

Slot == [pc : Pcs, h : Hashes, e : Row, claimed : BOOLEAN]

\* The variables of the processor that a goroutine changes by itself.
WorkType ==
    /\ work \in [Gos -> {Unused} \cup Slot]
    /\ \A g \in Gos : work[g].claimed => work[g].pc \in Claiming

(* The rows that are written are rows. *)
LEMMA RowFields ==
    ASSUME NEW e \in Row
    PROVE  MarkAsError(e) \in Row /\ MarkAsCompleted(e) \in Row /\ InFlight(e) \in Row
<1>1. MarkAsError(e) \in Row       BY DEF Row, MarkAsError
<1>2. MarkAsCompleted(e) \in Row   BY DEF Row, MarkAsCompleted
<1>3. InFlight(e) \in Row          BY DEF Row, InFlight
<1> QED  BY <1>1, <1>2, <1>3

LEMMA FreshRow == ASSUME NEW p \in BOOLEAN PROVE Accepted(p) \in Row
BY DEF Accepted, Row

(* What a goroutine that is not idle has. *)
LEMMA AtWork ==
    ASSUME TypeOK, NEW g \in Gos, work[g].pc # "none"
    PROVE  /\ work[g] \in Slot /\ work[g].h \in Hashes /\ work[g].e \in Row
           /\ work[g].claimed \in BOOLEAN /\ Placed(g) \in Row
<1>1. work[g] \in Slot
  BY DEF TypeOK, Unused, Slot
<1>2. work[g].h \in Hashes /\ work[g].e \in Row /\ work[g].claimed \in BOOLEAN
  BY <1>1 DEF Slot
<1>3. Placed(g) \in Row
  BY <1>2 DEF Placed, Row
<1> QED  BY <1>1, <1>2, <1>3

(* The moves that the actions are made of, on the variables they change. *)
LEMMA SetWork ==
    ASSUME TypeOK, NEW g \in Gos, NEW w \in {Unused} \cup Slot,
           w.claimed => w.pc \in Claiming, work' = [work EXCEPT ![g] = w]
    PROVE  WorkType'
BY DEF TypeOK, WorkType, Slot

LEMMA MoveType ==
    ASSUME TypeOK, NEW g \in Gos, work[g].pc # "none", NEW pc \in Pcs,
           work' = [work EXCEPT ![g].pc = pc], work[g].claimed => pc \in Claiming
    PROVE  WorkType'
<1> DEFINE w == [work[g] EXCEPT !.pc = pc]
<1>1. w \in Slot /\ w.claimed = work[g].claimed /\ w.pc = pc
  BY AtWork DEF Slot
<1>2. work' = [work EXCEPT ![g] = w]
  OBVIOUS
<1> HIDE DEF w
<1> QED  BY <1>1, <1>2, SetWork

LEMMA WritesType ==
    ASSUME TypeOK, NEW g \in Gos, work[g].pc # "none", NEW pc \in Pcs, NEW e \in Row,
           Writes(g, e, pc), work[g].claimed => pc \in Claiming
    PROVE  WorkType' /\ queue' \in [Hashes -> Row \cup {None}] /\ claims' \subseteq Hashes
<1> DEFINE w == [work[g] EXCEPT !.e = e, !.pc = pc]
<1>1. w \in Slot /\ w.claimed = work[g].claimed /\ w.pc = pc
  BY AtWork DEF Slot
<1>2. work' = [work EXCEPT ![g] = w]
  BY DEF Writes
<1>3. queue' \in [Hashes -> Row \cup {None}] /\ claims' \subseteq Hashes
  BY AtWork DEF Writes, Update, HashOf, TypeOK
<1> HIDE DEF w
<1> QED  BY <1>1, <1>2, <1>3, SetWork

LEMMA StartsActionType ==
    ASSUME TypeOK, NEW g \in Gos, work[g].pc # "none", NEW e \in Row, StartsAction(g, e)
    PROVE  WorkType' /\ queue' \in [Hashes -> Row \cup {None}] /\ claims' \subseteq Hashes
<1> DEFINE w == [work[g] EXCEPT !.pc = "action", !.e = e, !.claimed = FALSE]
<1>1. w \in Slot /\ w.claimed = FALSE
  BY AtWork DEF Slot, Pcs
<1>2. work' = [work EXCEPT ![g] = w]
  BY DEF StartsAction
<1>3. queue' \in [Hashes -> Row \cup {None}] /\ claims' \subseteq Hashes
  BY AtWork DEF StartsAction, Released, Update, HashOf, TypeOK
<1> HIDE DEF w
<1> QED  BY <1>1, <1>2, <1>3, SetWork

LEMMA EndsType ==
    ASSUME TypeOK, NEW g \in Gos, work[g].pc # "none", Ends(g)
    PROVE  WorkType' /\ claims' \subseteq Hashes
<1>1. Unused.claimed = FALSE
  BY DEF Unused
<1>2. work' = [work EXCEPT ![g] = Unused] /\ claims' \subseteq Hashes
  BY DEF Ends, Released, TypeOK
<1> QED  BY <1>1, <1>2, SetWork

LEMMA EndsWithType ==
    ASSUME TypeOK, NEW g \in Gos, work[g].pc # "none", NEW e \in Row \cup {None}, EndsWith(g, e)
    PROVE  WorkType' /\ claims' \subseteq Hashes /\ queue' \in [Hashes -> Row \cup {None}]
<1>1. queue' \in [Hashes -> Row \cup {None}]
  BY AtWork DEF EndsWith, Update, HashOf, TypeOK
<1> QED  BY <1>1, EndsType DEF EndsWith

LEMMA StartsType ==
    ASSUME TypeOK, NEW g \in Gos, NEW pc \in Pcs, NEW h \in Hashes, NEW e \in Row, NEW c \in BOOLEAN,
           c => pc \in Claiming, Starts(g, pc, h, e, c)
    PROVE  WorkType'
<1> DEFINE w == [pc |-> pc, h |-> h, e |-> e, claimed |-> c]
<1>1. w \in Slot /\ w.claimed = c /\ w.pc = pc
  BY DEF Slot
<1>2. work' = [work EXCEPT ![g] = w]
  BY DEF Starts
<1> HIDE DEF w
<1> QED  BY <1>1, <1>2, SetWork

OthersType ==
    /\ added \subseteq Hashes
    /\ todo \in [Tickers -> SUBSET [h : Hashes, e : Row]]
    /\ meta \in [Hashes -> {"none", "remote", "parsing", "done", "failed"}]
    /\ jobs \in Seq(Hashes)
    /\ outages \in 0 .. MaxOutages

RowsType == queue \in [Hashes -> Row \cup {None}] /\ claims \subseteq Hashes

LEMMA TypeParts == TypeOK <=> WorkType /\ RowsType /\ OthersType
BY DEF TypeOK, WorkType, RowsType, OthersType, Slot

LEMMA TypePartsNext == TypeOK' <=> WorkType' /\ RowsType' /\ OthersType'
BY DEF TypeOK, WorkType, RowsType, OthersType, Slot

LEMMA OthersKept == TypeOK /\ UNCHANGED others => OthersType'
BY DEF TypeOK, OthersType, others

LEMMA WorkKept == TypeOK /\ UNCHANGED work => WorkType'
BY DEF TypeOK, WorkType, Slot

LEMMA RowsKept == TypeOK /\ UNCHANGED <<queue, claims>> => RowsType'
BY DEF TypeOK, RowsType

(* The steps of a goroutine. *)
LEMMA RunType == ASSUME TypeOK, NEW g \in Gos, Run(g) PROVE TypeOK'
<1> USE DEF At
<1>1. CASE NewUpdate(g)
  <2>1. work[g].pc = "new" /\ Writes(g, work[g].e, "place") /\ UNCHANGED others
    BY <1>1 DEF NewUpdate
  <2>2. "place" \in Pcs /\ "place" \in Claiming
    BY DEF Pcs, Claiming
  <2>3. WorkType' /\ RowsType'
    BY <2>1, <2>2, AtWork, WritesType DEF RowsType
  <2> QED  BY <2>1, <2>3, OthersKept, TypePartsNext
<1>2. CASE NewReady(g)
  <2>1. work[g].pc = "place" /\ StartsAction(g, Placed(g)) /\ UNCHANGED others
    BY <1>2 DEF NewReady
  <2>2. WorkType' /\ RowsType'
    BY <2>1, AtWork, StartsActionType DEF RowsType
  <2> QED  BY <2>1, <2>2, OthersKept, TypePartsNext
<1>3. CASE NewWaits(g)
  <2>1. work[g].pc = "place" /\ EndsWith(g, Placed(g)) /\ UNCHANGED others
    BY <1>3 DEF NewWaits
  <2>2. WorkType' /\ RowsType'
    BY <2>1, AtWork, EndsWithType DEF RowsType
  <2> QED  BY <2>1, <2>2, OthersKept, TypePartsNext
<1>4. CASE PollFails(g) \/ WorkerFails(g)
  <2>1. work[g].pc # "none" /\ EndsWith(g, MarkAsError(work[g].e)) /\ UNCHANGED others
    BY <1>4 DEF PollFails, WorkerFails
  <2>2. WorkType' /\ RowsType'
    BY <2>1, AtWork, RowFields, EndsWithType DEF RowsType
  <2> QED  BY <2>1, <2>2, OthersKept, TypePartsNext
<1>5. CASE PollWaits(g)
  <2>1. work[g].pc # "none" /\ EndsWith(g, work[g].e) /\ UNCHANGED others
    BY <1>5 DEF PollWaits
  <2>2. WorkType' /\ RowsType'
    BY <2>1, AtWork, EndsWithType DEF RowsType
  <2> QED  BY <2>1, <2>2, OthersKept, TypePartsNext
<1>6. CASE PollDone(g)
  <2>1. work[g].pc = "poll" /\ StartsAction(g, work[g].e) /\ UNCHANGED others
    BY <1>6 DEF PollDone
  <2>2. WorkType' /\ RowsType'
    BY <2>1, AtWork, StartsActionType DEF RowsType
  <2> QED  BY <2>1, <2>2, OthersKept, TypePartsNext
<1>7. CASE Ask(g)
  <2>0. work[g].pc = "ask" /\ UNCHANGED others
    BY <1>7 DEF Ask
  <2>1. CASE EndsWith(g, MarkAsError(work[g].e))
    <3>1. WorkType' /\ RowsType'
      BY <2>0, <2>1, AtWork, RowFields, EndsWithType DEF RowsType
    <3> QED  BY <2>0, <3>1, OthersKept, TypePartsNext
  <2>2. CASE work' = [work EXCEPT ![g].pc = "new"] /\ UNCHANGED <<queue, claims>>
    <3>1. "new" \in Pcs /\ "new" \in Claiming
      BY DEF Pcs, Claiming
    <3>2. WorkType'
      BY <2>0, <2>2, <3>1, MoveType
    <3> QED  BY <2>0, <2>2, <3>2, RowsKept, OthersKept, TypePartsNext
  <2> QED  BY <1>7, <2>1, <2>2 DEF Ask
<1>8. CASE LookNzb(g)
  <2>0. work[g].pc = "look" /\ UNCHANGED others
    BY <1>8 DEF LookNzb
  <2>1. CASE Ends(g) /\ UNCHANGED queue
    <3>1. WorkType' /\ RowsType'
      BY <2>0, <2>1, EndsType, TypeParts DEF RowsType
    <3> QED  BY <2>0, <3>1, OthersKept, TypePartsNext
  <2>2. CASE work' = [work EXCEPT ![g].pc = "finish"] /\ UNCHANGED <<queue, claims>>
    <3>1. "finish" \in Pcs /\ "finish" \in Claiming
      BY DEF Pcs, Claiming
    <3>2. WorkType'
      BY <2>0, <2>2, <3>1, MoveType
    <3> QED  BY <2>0, <2>2, <3>2, RowsKept, OthersKept, TypePartsNext
  <2>3. CASE EndsWith(g, MarkAsError(work[g].e))
    <3>1. WorkType' /\ RowsType'
      BY <2>0, <2>3, AtWork, RowFields, EndsWithType DEF RowsType
    <3> QED  BY <2>0, <3>1, OthersKept, TypePartsNext
  <2> QED  BY <1>8, <2>1, <2>2, <2>3 DEF LookNzb
<1>9. CASE FinishNzb(g)
  <2>0. work[g].pc = "finish" /\ UNCHANGED others
    BY <1>9 DEF FinishNzb
  <2>1. CASE StartsAction(g, work[g].e)
    <3>1. WorkType' /\ RowsType'
      BY <2>0, <2>1, AtWork, StartsActionType DEF RowsType
    <3> QED  BY <2>0, <3>1, OthersKept, TypePartsNext
  <2>2. CASE EndsWith(g, MarkAsError(work[g].e))
    <3>1. WorkType' /\ RowsType'
      BY <2>0, <2>2, AtWork, RowFields, EndsWithType DEF RowsType
    <3> QED  BY <2>0, <3>1, OthersKept, TypePartsNext
  <2> QED  BY <1>9, <2>1, <2>2 DEF FinishNzb
<1>10. CASE Process(g)
  <2>1. PICK pc \in {"finish", "fail"} : work' = [work EXCEPT ![g].pc = pc]
    BY <1>10 DEF Process
  <2>2. work[g].pc = "process" /\ UNCHANGED <<queue, claims, added, todo, jobs, outages>>
    BY <1>10 DEF Process
  <2>3. pc \in Pcs /\ ~work[g].claimed
    BY <2>2 DEF Pcs, Claiming, TypeOK
  <2>4. WorkType'
    BY <2>1, <2>2, <2>3, MoveType
  <2>5. HashOf(g) \in Hashes
    BY <2>2, AtWork DEF HashOf
  <2>6. OthersType'
    BY <1>10, <2>2, <2>5 DEF Process, TypeOK, OthersType
  <2> QED  BY <2>2, <2>4, <2>6, RowsKept, TypePartsNext
<1>11. CASE Action(g) \/ Begin(g)
  <2>1. PICK pc \in {"merge", "download"} : Writes(g, InFlight(work[g].e), pc)
    BY <1>11 DEF Action, Begin
  <2>2. work[g].pc \in {"action", "begin"} /\ UNCHANGED others
    BY <1>11 DEF Action, Begin
  <2>3. pc \in Pcs /\ ~work[g].claimed /\ work[g].pc # "none"
    BY <2>2 DEF Pcs, Busy, Claiming, TypeOK
  <2>4. WorkType' /\ RowsType'
    BY <2>1, <2>3, AtWork, RowFields, WritesType DEF RowsType
  <2> QED  BY <2>2, <2>4, OthersKept, TypePartsNext
<1>12. CASE Merge(g)
  <2>1. work[g].pc = "merge" /\ work' = [work EXCEPT ![g].pc = "begin"] /\ UNCHANGED <<queue, claims, todo, meta, jobs, outages>>
    BY <1>12 DEF Merge
  <2>2. "begin" \in Pcs /\ ~work[g].claimed
    BY <2>1 DEF Pcs, Busy, Claiming, TypeOK
  <2>3. WorkType'
    BY <2>1, <2>2, MoveType
  <2>4. HashOf(g) \in Hashes
    BY <2>1, AtWork DEF HashOf
  <2>5. OthersType'
    BY <1>12, <2>1, <2>4 DEF Merge, TypeOK, OthersType
  <2> QED  BY <2>1, <2>3, <2>5, RowsKept, TypePartsNext
<1>13. CASE MergeFails(g)
  <2>1. work[g].pc = "merge" /\ Ends(g) /\ UNCHANGED <<queue, added, todo, meta, jobs>>
    BY <1>13 DEF MergeFails
  <2>2. WorkType' /\ RowsType'
    BY <2>1, EndsType, TypeParts DEF RowsType
  <2>3. OthersType'
    BY <1>13, <2>1, QueueAssumption DEF MergeFails, TypeOK, OthersType
  <2> QED  BY <2>2, <2>3, TypePartsNext
<1>14. CASE DownloadFails(g)
  <2>1. work[g].pc = "download" /\ EndsWith(g, MarkAsError(work[g].e)) /\ UNCHANGED others
    BY <1>14 DEF DownloadFails
  <2>2. WorkType' /\ RowsType'
    BY <2>1, AtWork, RowFields, EndsWithType DEF RowsType
  <2> QED  BY <2>1, <2>2, OthersKept, TypePartsNext
<1>15. CASE Complete(g)
  <2>1. work[g].pc = "download" /\ UNCHANGED others
    BY <1>15 DEF Complete
  <2>2. "drop" \in Pcs /\ ~work[g].claimed
    BY <2>1 DEF Pcs, Claiming, TypeOK
  <2>3. MarkAsCompleted(work[g].e) \in Row
    BY <2>1, AtWork, RowFields
  <2>4. CASE Writes(g, MarkAsCompleted(work[g].e), "drop")
    <3>1. WorkType' /\ RowsType'
      BY <2>1, <2>2, <2>3, <2>4, WritesType DEF RowsType
    <3> QED  BY <2>1, <3>1, OthersKept, TypePartsNext
  <2>5. CASE EndsWith(g, MarkAsCompleted(work[g].e))
    <3>1. WorkType' /\ RowsType'
      BY <2>1, <2>3, <2>5, EndsWithType DEF RowsType
    <3> QED  BY <2>1, <3>1, OthersKept, TypePartsNext
  <2> QED  BY <1>15, <2>4, <2>5 DEF Complete
<1>16. CASE Drop(g)
  <2>1. work[g].pc = "drop" /\ EndsWith(g, None) /\ UNCHANGED others
    BY <1>16 DEF Drop
  <2>2. WorkType' /\ RowsType'
    BY <2>1, EndsWithType DEF RowsType
  <2> QED  BY <2>1, <2>2, OthersKept, TypePartsNext
<1> QED
  BY <1>1, <1>2, <1>3, <1>4, <1>5, <1>6, <1>7, <1>8, <1>9, <1>10, <1>11, <1>12, <1>13, <1>14, <1>15, <1>16 DEF Run

LEMMA TickType == ASSUME TypeOK, NEW t \in Tickers, Tick(t) PROVE TypeOK'
<1>1. CASE TickList(t)
  <2>1. Listed \in SUBSET [h : Hashes, e : Row]
    BY DEF Listed, TypeOK
  <2>2. OthersType'
    BY <1>1, <2>1 DEF TickList, TypeOK, OthersType
  <2>3. UNCHANGED work /\ UNCHANGED <<queue, claims>>
    BY <1>1 DEF TickList
  <2> QED  BY <2>2, <2>3, WorkKept, RowsKept, TypePartsNext
<1>2. ASSUME NEW x \in todo[t], TickTake(t, x) PROVE TypeOK'
  <2>1. x \in [h : Hashes, e : Row] /\ x.h \in Hashes /\ x.e \in Row
    BY DEF TypeOK
  <2>2. OthersType'
    BY <1>2 DEF TickTake, TypeOK, OthersType
  <2>3. UNCHANGED queue
    BY <1>2 DEF TickTake
  <2>4. CASE UNCHANGED <<claims, work>>
    BY <2>2, <2>3, <2>4, WorkKept, RowsKept, TypePartsNext
  <2>5. ASSUME NEW g \in Gos, claims' = claims \cup {x.h}, Starts(g, Looks(x.h), x.h, x.e, TRUE)
        PROVE  TypeOK'
    <3>1. Looks(x.h) \in Pcs /\ Looks(x.h) \in Claiming
      BY DEF Looks, Pcs, Claiming
    <3>2. WorkType'
      BY <2>1, <2>5, <3>1, StartsType
    <3>3. RowsType'
      BY <2>1, <2>3, <2>5 DEF RowsType, TypeOK
    <3> QED  BY <2>2, <3>2, <3>3, TypePartsNext
  <2> QED  BY <1>2, <2>4, <2>5 DEF TickTake
<1> QED  BY <1>1, <1>2 DEF Tick

LEMMA TypeStep == TypeOK /\ [Next]_vars => TypeOK'
<1> SUFFICES ASSUME TypeOK, [Next]_vars PROVE TypeOK'
    OBVIOUS
<1>1. ASSUME NEW g \in Gos, NEW h \in Hashes, AddTorrent(g, h) PROVE TypeOK'
  <2>1. "new" \in Pcs /\ Accepted(FALSE) \in Row
    BY FreshRow DEF Pcs, Claiming
  <2>2. Starts(g, "new", h, Accepted(FALSE), FALSE) /\ UNCHANGED others
    BY <1>1 DEF AddTorrent
  <2>3. WorkType'
    BY <2>1, <2>2, StartsType
  <2>4. RowsType'
    BY <1>1, <2>1 DEF AddTorrent, Update, RowsType, TypeOK
  <2> QED  BY <2>2, <2>3, <2>4, OthersKept, TypePartsNext
<1>2. ASSUME NEW h \in Hashes, AddUsenet(h) \/ AddNZB(h) PROVE TypeOK'
  <2>1. Accepted(TRUE) \in Row /\ UNCHANGED work
    BY <1>2, FreshRow DEF AddUsenet, AddNZB
  <2>2. queue' = [queue EXCEPT ![h] = Accepted(TRUE)] /\ UNCHANGED claims
    BY <1>2 DEF AddUsenet, AddNZB, Update
  <2>3. RowsType'
    BY <2>1, <2>2 DEF RowsType, TypeOK
  <2>4. jobs \in Seq(Hashes) /\ (jobs' = jobs \/ jobs' = Append(jobs, h))
    BY <1>2 DEF AddUsenet, AddNZB, TypeOK
  <2>5. jobs' \in Seq(Hashes)
    BY <2>4
  <2>6. OthersType'
    BY <1>2, <2>5 DEF AddUsenet, AddNZB, OthersType, TypeOK
  <2> QED  BY <2>1, <2>3, <2>6, WorkKept, TypePartsNext
<1>3. ASSUME NEW t \in Tickers, Tick(t) PROVE TypeOK'
  BY <1>3, TickType
<1>4. ASSUME NEW g \in Gos, Run(g) PROVE TypeOK'
  BY <1>4, RunType
<1>5. ASSUME NEW g \in Gos, Progress(g) PROVE TypeOK'
  <2>1. work[g].e \in Row /\ HashOf(g) \in Hashes
    BY <1>5, AtWork DEF Progress, At, HashOf
  <2>2. RowsType'
    BY <1>5, <2>1 DEF Progress, Update, RowsType, TypeOK
  <2>3. UNCHANGED work /\ UNCHANGED others
    BY <1>5 DEF Progress
  <2> QED  BY <2>2, <2>3, WorkKept, OthersKept, TypePartsNext
<1>6. ASSUME NEW g \in Gos, WorkerPop(g) PROVE TypeOK'
  <2>1. Head(jobs) \in Hashes /\ Tail(jobs) \in Seq(Hashes)
    BY <1>6 DEF WorkerPop, TypeOK
  <2>2. "process" \in Pcs /\ Accepted(TRUE) \in Row
    BY FreshRow DEF Pcs
  <2>3. WorkType'
    BY <1>6, <2>1, <2>2, StartsType DEF WorkerPop
  <2>4. UNCHANGED <<queue, claims>> /\ OthersType'
    BY <1>6, <2>1 DEF WorkerPop, OthersType, TypeOK
  <2> QED  BY <2>3, <2>4, RowsKept, TypePartsNext
<1>7. ASSUME NEW h \in Hashes, Delete(h) PROVE TypeOK'
  <2>1. RowsType'
    BY <1>7 DEF Delete, Update, RowsType, TypeOK
  <2>2. UNCHANGED work /\ UNCHANGED others
    BY <1>7 DEF Delete
  <2> QED  BY <2>1, <2>2, WorkKept, OthersKept, TypePartsNext
<1>8. CASE Restart
  <2>1. WorkType'
    BY <1>8 DEF Restart, WorkType, Unused
  <2>2. <<>> \in Seq(Hashes)
    OBVIOUS
  <2>3. OthersType'
    BY <1>8, <2>2, QueueAssumption DEF Restart, OthersType, TypeOK
  <2>4. RowsType'
    BY <1>8 DEF Restart, RowsType, TypeOK
  <2> QED  BY <2>1, <2>3, <2>4, TypePartsNext
<1>9. CASE UNCHANGED vars
  <2>1. UNCHANGED work /\ UNCHANGED <<queue, claims>> /\ UNCHANGED others
    BY <1>9 DEF vars, others
  <2> QED  BY <2>1, WorkKept, RowsKept, OthersKept, TypePartsNext
<1> QED  BY <1>1, <1>2, <1>3, <1>4, <1>5, <1>6, <1>7, <1>8, <1>9 DEF Next

LEMMA TypeInit == Init => TypeOK
<1> SUFFICES ASSUME Init PROVE TypeOK
    OBVIOUS
<1>1. WorkType
  BY DEF Init, WorkType, Unused
<1>2. <<>> \in Seq(Hashes)
  OBVIOUS
<1>3. RowsType /\ OthersType
  BY <1>2, QueueAssumption DEF Init, RowsType, OthersType
<1> QED  BY <1>1, <1>3, TypeParts

(* The variables of the processor keep their types, through outages too. *)
THEOREM TypeCorrect == Spec => []TypeOK
BY TypeInit, TypeStep, PTL DEF Spec

-----------------------------------------------------------------------------
(* Claims *)

(* A goroutine does not touch the claims, ... *)
LEMMA ClaimKept ==
    ASSUME ClaimsHeld, TypeOK, NEW g \in Gos, NEW w, work' = [work EXCEPT ![g] = w],
           w.claimed = work[g].claimed, w.h = work[g].h, UNCHANGED claims
    PROVE  ClaimsHeld'
BY DEF ClaimsHeld, HashOf, TypeOK

(* ... gives back the one it has, ... *)
LEMMA ClaimGivenBack ==
    ASSUME ClaimsHeld, TypeOK, NEW g \in Gos, NEW w, work' = [work EXCEPT ![g] = w],
           w.claimed = FALSE, Released(g)
    PROVE  ClaimsHeld'
BY DEF ClaimsHeld, HashOf, TypeOK, Released

(* ... starts without one ... *)
LEMMA NoClaim ==
    ASSUME ClaimsHeld, TypeOK, NEW g \in Gos, Free(g), NEW w, work' = [work EXCEPT ![g] = w],
           w.claimed = FALSE, UNCHANGED claims
    PROVE  ClaimsHeld'
BY DEF ClaimsHeld, HashOf, TypeOK, Free, Unused

(* ... or with one that nobody has. *)
LEMMA ClaimTaken ==
    ASSUME ClaimsHeld, TypeOK, NEW g \in Gos, Free(g), NEW w, work' = [work EXCEPT ![g] = w],
           NEW h \in Hashes, h \notin claims, w.claimed = TRUE, w.h = h, claims' = claims \cup {h}
    PROVE  ClaimsHeld'
BY DEF ClaimsHeld, HashOf, TypeOK, Free, Unused

LEMMA MoveClaim ==
    ASSUME ClaimsHeld, TypeOK, NEW g \in Gos, work[g].pc # "none", NEW pc,
           work' = [work EXCEPT ![g].pc = pc], UNCHANGED claims
    PROVE  ClaimsHeld'
<1> DEFINE w == [work[g] EXCEPT !.pc = pc]
<1>1. w.claimed = work[g].claimed /\ w.h = work[g].h
  BY AtWork DEF Slot
<1>2. work' = [work EXCEPT ![g] = w]
  OBVIOUS
<1> HIDE DEF w
<1> QED  BY <1>1, <1>2, ClaimKept

LEMMA WritesClaim ==
    ASSUME ClaimsHeld, TypeOK, NEW g \in Gos, work[g].pc # "none", NEW e, NEW pc, Writes(g, e, pc)
    PROVE  ClaimsHeld'
<1> DEFINE w == [work[g] EXCEPT !.e = e, !.pc = pc]
<1>1. w.claimed = work[g].claimed /\ w.h = work[g].h
  BY AtWork DEF Slot
<1>2. work' = [work EXCEPT ![g] = w] /\ UNCHANGED claims
  BY DEF Writes
<1> HIDE DEF w
<1> QED  BY <1>1, <1>2, ClaimKept

LEMMA StartsActionClaim ==
    ASSUME ClaimsHeld, TypeOK, NEW g \in Gos, work[g].pc # "none", NEW e, StartsAction(g, e)
    PROVE  ClaimsHeld'
<1> DEFINE w == [work[g] EXCEPT !.pc = "action", !.e = e, !.claimed = FALSE]
<1>1. w.claimed = FALSE
  BY AtWork DEF Slot
<1>2. work' = [work EXCEPT ![g] = w] /\ Released(g)
  BY DEF StartsAction
<1> HIDE DEF w
<1> QED  BY <1>1, <1>2, ClaimGivenBack

LEMMA EndsClaim ==
    ASSUME ClaimsHeld, TypeOK, NEW g \in Gos, Ends(g)
    PROVE  ClaimsHeld'
<1>1. Unused.claimed = FALSE
  BY DEF Unused
<1> QED  BY <1>1, ClaimGivenBack DEF Ends

LEMMA SameClaims == ClaimsHeld /\ UNCHANGED <<work, claims>> => ClaimsHeld'
BY DEF ClaimsHeld, HashOf

LEMMA RunClaim == ASSUME ClaimsHeld, TypeOK, NEW g \in Gos, Run(g) PROVE ClaimsHeld'
<1> USE DEF At
<1>1. CASE NewUpdate(g) \/ Action(g) \/ Begin(g)
  <2>1. work[g].pc # "none" /\ \E e, pc : Writes(g, e, pc)
    BY <1>1 DEF NewUpdate, Action, Begin
  <2> QED  BY <2>1, WritesClaim
<1>2. CASE NewReady(g) \/ PollDone(g)
  <2>1. work[g].pc # "none" /\ \E e : StartsAction(g, e)
    BY <1>2 DEF NewReady, PollDone
  <2> QED  BY <2>1, StartsActionClaim
<1>3. CASE NewWaits(g) \/ PollFails(g) \/ PollWaits(g) \/ WorkerFails(g) \/ MergeFails(g) \/ DownloadFails(g) \/ Drop(g)
  <2>1. Ends(g)
    BY <1>3 DEF NewWaits, PollFails, PollWaits, WorkerFails, MergeFails, DownloadFails, Drop, EndsWith
  <2> QED  BY <2>1, EndsClaim
<1>4. CASE Process(g) \/ Merge(g)
  <2>1. work[g].pc # "none" /\ UNCHANGED claims /\ \E pc : work' = [work EXCEPT ![g].pc = pc]
    BY <1>4 DEF Process, Merge
  <2> QED  BY <2>1, MoveClaim
<1>5. CASE Ask(g) \/ LookNzb(g) \/ FinishNzb(g)
  <2>1. work[g].pc # "none"
    BY <1>5 DEF Ask, LookNzb, FinishNzb
  <2>2. \/ Ends(g)
        \/ \E e : StartsAction(g, e)
        \/ UNCHANGED claims /\ \E pc : work' = [work EXCEPT ![g].pc = pc]
    BY <1>5 DEF Ask, LookNzb, FinishNzb, EndsWith
  <2> QED  BY <2>1, <2>2, EndsClaim, StartsActionClaim, MoveClaim
<1>6. CASE Complete(g)
  <2>1. work[g].pc # "none" /\ (Ends(g) \/ \E e, pc : Writes(g, e, pc))
    BY <1>6 DEF Complete, EndsWith
  <2> QED  BY <2>1, EndsClaim, WritesClaim
<1> QED  BY <1>1, <1>2, <1>3, <1>4, <1>5, <1>6 DEF Run

LEMMA ClaimStep == ClaimsHeld /\ TypeOK /\ [Next]_vars => ClaimsHeld'
<1> SUFFICES ASSUME ClaimsHeld, TypeOK, [Next]_vars PROVE ClaimsHeld'
    OBVIOUS
<1>1. ASSUME NEW g \in Gos, NEW h \in Hashes, AddTorrent(g, h) PROVE ClaimsHeld'
  <2> DEFINE w == [pc |-> "new", h |-> h, e |-> Accepted(FALSE), claimed |-> FALSE]
  <2>1. Free(g) /\ work' = [work EXCEPT ![g] = w] /\ UNCHANGED claims /\ w.claimed = FALSE
    BY <1>1 DEF AddTorrent, Starts
  <2> HIDE DEF w
  <2> QED  BY <2>1, NoClaim
<1>2. ASSUME NEW g \in Gos, WorkerPop(g) PROVE ClaimsHeld'
  <2> DEFINE w == [pc |-> "process", h |-> Head(jobs), e |-> Accepted(TRUE), claimed |-> FALSE]
  <2>1. Free(g) /\ work' = [work EXCEPT ![g] = w] /\ UNCHANGED claims /\ w.claimed = FALSE
    BY <1>2 DEF WorkerPop, Starts
  <2> HIDE DEF w
  <2> QED  BY <2>1, NoClaim
<1>3. ASSUME NEW t \in Tickers, Tick(t) PROVE ClaimsHeld'
  <2>1. CASE TickList(t)
    BY <2>1, SameClaims DEF TickList
  <2>2. ASSUME NEW x \in todo[t], TickTake(t, x) PROVE ClaimsHeld'
    <3>1. CASE UNCHANGED <<claims, work>>
      BY <3>1, SameClaims
    <3>2. ASSUME NEW g \in Gos, x.h \notin claims, Free(g), claims' = claims \cup {x.h},
                 Starts(g, Looks(x.h), x.h, x.e, TRUE)
          PROVE  ClaimsHeld'
      <4> DEFINE w == [pc |-> Looks(x.h), h |-> x.h, e |-> x.e, claimed |-> TRUE]
      <4>1. work' = [work EXCEPT ![g] = w] /\ w.claimed = TRUE /\ w.h = x.h /\ x.h \in Hashes
        BY <3>2 DEF Starts, TypeOK
      <4> HIDE DEF w
      <4> QED  BY <3>2, <4>1, ClaimTaken
    <3> QED  BY <2>2, <3>1, <3>2 DEF TickTake
  <2> QED  BY <1>3, <2>1, <2>2 DEF Tick
<1>4. ASSUME NEW g \in Gos, Run(g) PROVE ClaimsHeld'
  BY <1>4, RunClaim
<1>5. CASE Restart
  BY <1>5 DEF Restart, ClaimsHeld, Unused
<1>6. CASE \/ \E h \in Hashes : AddUsenet(h) \/ AddNZB(h) \/ Delete(h)
           \/ \E g \in Gos : Progress(g)
           \/ UNCHANGED vars
  <2>1. UNCHANGED <<work, claims>>
    BY <1>6 DEF AddUsenet, AddNZB, Delete, Progress, vars
  <2> QED  BY <2>1, SameClaims
<1> QED  BY <1>1, <1>2, <1>3, <1>4, <1>5, <1>6 DEF Next

(* No hash is looked at by two goroutines of the ticker, and no claim is left *)
(* behind by a goroutine that is gone.                                        *)
THEOREM ClaimsStayHeld == Spec => []ClaimsHeld
<1>1. Init => ClaimsHeld
  BY DEF Init, ClaimsHeld, Unused
<1> QED  BY <1>1, ClaimStep, TypeCorrect, PTL DEF Spec

-----------------------------------------------------------------------------
(* Completed rows *)

\* Only a download that is over says so: nobody else has a copy of a row that is
\* completed, and whoever is past the merge has added the entry.
CopiesFresh ==
    /\ \A t \in Tickers : \A x \in todo[t] : x.e.state # "done"
    /\ \A g \in Gos : work[g].pc \notin {"none", "drop"} => work[g].e.state # "done"
    /\ \A g \in Gos : work[g].pc \in {"begin", "download", "drop"} => work[g].h \in added

AddInv == CopiesFresh /\ CompletedAdded

Unfinished(e) == e = None \/ e.state # "done"

(* A row is written, and a goroutine is set to w.  What it writes is not a      *)
(* completed row unless the entry was added, and its copy is not one either.    *)
LEMMA AddMove ==
    ASSUME AddInv, TypeOK, NEW g \in Gos, NEW w, NEW h \in Hashes, NEW e,
           work' = [work EXCEPT ![g] = w], queue' = [queue EXCEPT ![h] = e],
           UNCHANGED <<added, todo>>, Unfinished(e) \/ h \in added,
           w.pc \notin {"none", "drop"} => w.e.state # "done",
           w.pc \in {"begin", "download", "drop"} => w.h \in added
    PROVE  AddInv'
<1>1. CopiesFresh'
  BY DEF AddInv, CopiesFresh, TypeOK
<1>2. CompletedAdded'
  BY DEF AddInv, CompletedAdded, TypeOK, Unfinished
<1> QED  BY <1>1, <1>2 DEF AddInv

(* The same without a write. *)
LEMMA AddStay ==
    ASSUME AddInv, TypeOK, NEW g \in Gos, NEW w, work' = [work EXCEPT ![g] = w],
           UNCHANGED <<queue, added, todo>>,
           w.pc \notin {"none", "drop"} => w.e.state # "done",
           w.pc \in {"begin", "download", "drop"} => w.h \in added
    PROVE  AddInv'
<1>1. CopiesFresh'
  BY DEF AddInv, CopiesFresh, TypeOK
<1>2. CompletedAdded'
  BY DEF AddInv, CompletedAdded
<1> QED  BY <1>1, <1>2 DEF AddInv

LEMMA AddEndsWith ==
    ASSUME AddInv, TypeOK, NEW g \in Gos, work[g].pc # "none", NEW e, EndsWith(g, e),
           UNCHANGED others, Unfinished(e) \/ HashOf(g) \in added
    PROVE  AddInv'
<1>1. HashOf(g) \in Hashes /\ Unused.pc = "none"
  BY AtWork DEF HashOf, Unused
<1>2. work' = [work EXCEPT ![g] = Unused] /\ queue' = [queue EXCEPT ![HashOf(g)] = e]
  BY DEF EndsWith, Ends, Update
<1> QED  BY <1>1, <1>2, AddMove DEF others

LEMMA AddEnds ==
    ASSUME AddInv, TypeOK, NEW g \in Gos, Ends(g), UNCHANGED <<queue, added, todo>>
    PROVE  AddInv'
<1>1. Unused.pc = "none" /\ work' = [work EXCEPT ![g] = Unused]
  BY DEF Unused, Ends
<1> QED  BY <1>1, AddStay

LEMMA AddWrites ==
    ASSUME AddInv, TypeOK, NEW g \in Gos, work[g].pc # "none", NEW e \in Row, NEW pc, Writes(g, e, pc),
           UNCHANGED others, e.state # "done" \/ (pc = "drop" /\ HashOf(g) \in added),
           pc \in {"begin", "download", "drop"} => HashOf(g) \in added
    PROVE  AddInv'
<1> DEFINE w == [work[g] EXCEPT !.e = e, !.pc = pc]
<1>1. w.pc = pc /\ w.e = e /\ w.h = work[g].h /\ HashOf(g) \in Hashes /\ HashOf(g) = work[g].h
  BY AtWork DEF Slot, HashOf
<1>2. work' = [work EXCEPT ![g] = w] /\ queue' = [queue EXCEPT ![HashOf(g)] = e]
  BY DEF Writes, Update
<1>3. UNCHANGED <<added, todo>>
  BY DEF others
<1> HIDE DEF w
<1> QED  BY <1>1, <1>2, <1>3, AddMove DEF Unfinished

LEMMA AddStartsAction ==
    ASSUME AddInv, TypeOK, NEW g \in Gos, work[g].pc # "none", NEW e \in Row, StartsAction(g, e),
           UNCHANGED others, e.state # "done"
    PROVE  AddInv'
<1> DEFINE w == [work[g] EXCEPT !.pc = "action", !.e = e, !.claimed = FALSE]
<1>1. w.pc = "action" /\ w.e = e /\ HashOf(g) \in Hashes
  BY AtWork DEF Slot, HashOf
<1>2. work' = [work EXCEPT ![g] = w] /\ queue' = [queue EXCEPT ![HashOf(g)] = e]
  BY DEF StartsAction, Update
<1>3. UNCHANGED <<added, todo>>
  BY DEF others
<1> HIDE DEF w
<1> QED  BY <1>1, <1>2, <1>3, AddMove DEF Unfinished

LEMMA AddPc ==
    ASSUME AddInv, TypeOK, NEW g \in Gos, work[g].pc \notin {"none", "drop"}, NEW pc,
           work' = [work EXCEPT ![g].pc = pc], UNCHANGED <<queue, added, todo>>,
           pc \notin {"begin", "download", "drop"}
    PROVE  AddInv'
<1> DEFINE w == [work[g] EXCEPT !.pc = pc]
<1>1. w.pc = pc /\ w.e = work[g].e
  BY AtWork DEF Slot
<1>2. work' = [work EXCEPT ![g] = w]
  OBVIOUS
<1>3. work[g].e.state # "done"
  BY DEF AddInv, CopiesFresh
<1> HIDE DEF w
<1> QED  BY ZenonT(60), <1>1, <1>2, <1>3, AddStay

(* What a goroutine writes before its download is over. *)
LEMMA Copies ==
    ASSUME AddInv, TypeOK, NEW g \in Gos, work[g].pc \notin {"none", "drop"}
    PROVE  /\ work[g].e \in Row /\ work[g].e.state # "done"
           /\ MarkAsError(work[g].e) \in Row /\ MarkAsError(work[g].e).state # "done"
           /\ InFlight(work[g].e) \in Row /\ InFlight(work[g].e).state # "done"
           /\ Placed(g) \in Row /\ Placed(g).state # "done"
<1>1. work[g].e \in Row /\ work[g].e.state # "done"
  BY AtWork DEF AddInv, CopiesFresh
<1>2. MarkAsError(work[g].e) \in Row /\ MarkAsError(work[g].e).state # "done"
  BY <1>1, RowFields DEF MarkAsError, Row
<1>3. InFlight(work[g].e) \in Row /\ InFlight(work[g].e).state # "done"
  BY <1>1, RowFields DEF InFlight, Row
<1>4. Placed(g) \in Row /\ Placed(g).state # "done"
  BY <1>1, AtWork DEF Placed, Row
<1> QED  BY <1>1, <1>2, <1>3, <1>4

LEMMA RunAdd == ASSUME AddInv, TypeOK, NEW g \in Gos, Run(g) PROVE AddInv'
<1> USE DEF At
<1>1. CASE NewUpdate(g)
  <2>1. work[g].pc = "new" /\ Writes(g, work[g].e, "place") /\ UNCHANGED others
    BY <1>1 DEF NewUpdate
  <2> QED  BY <2>1, Copies, AddWrites
<1>2. CASE Action(g)
  <2>1. work[g].pc = "action" /\ Writes(g, InFlight(work[g].e), "merge") /\ UNCHANGED others
    BY <1>2 DEF Action
  <2> QED  BY <2>1, Copies, AddWrites
<1>3. CASE Begin(g)
  <2>1. work[g].pc = "begin" /\ Writes(g, InFlight(work[g].e), "download") /\ UNCHANGED others
    BY <1>3 DEF Begin
  <2>2. HashOf(g) \in added
    BY <2>1 DEF AddInv, CopiesFresh, HashOf
  <2> QED  BY <2>1, <2>2, Copies, AddWrites
<1>4. CASE NewReady(g)
  <2>1. work[g].pc = "place" /\ StartsAction(g, Placed(g)) /\ UNCHANGED others
    BY <1>4 DEF NewReady
  <2> QED  BY <2>1, Copies, AddStartsAction
<1>5. CASE PollDone(g)
  <2>1. work[g].pc = "poll" /\ StartsAction(g, work[g].e) /\ UNCHANGED others
    BY <1>5 DEF PollDone
  <2> QED  BY <2>1, Copies, AddStartsAction
<1>6. CASE NewWaits(g) \/ PollWaits(g) \/ PollFails(g) \/ WorkerFails(g) \/ DownloadFails(g)
  <2>1. work[g].pc \notin {"none", "drop"} /\ UNCHANGED others
    BY <1>6 DEF NewWaits, PollWaits, PollFails, WorkerFails, DownloadFails
  <2>2. EndsWith(g, Placed(g)) \/ EndsWith(g, work[g].e) \/ EndsWith(g, MarkAsError(work[g].e))
    BY <1>6 DEF NewWaits, PollWaits, PollFails, WorkerFails, DownloadFails
  <2> QED  BY <2>1, <2>2, Copies, AddEndsWith DEF Unfinished
<1>7. CASE Ask(g) \/ LookNzb(g) \/ FinishNzb(g)
  <2>1. work[g].pc \in {"ask", "look", "finish"} /\ UNCHANGED others
    BY <1>7 DEF Ask, LookNzb, FinishNzb
  <2>2. CASE EndsWith(g, MarkAsError(work[g].e))
    BY <2>1, <2>2, Copies, AddEndsWith DEF Unfinished
  <2>3. CASE StartsAction(g, work[g].e)
    BY <2>1, <2>3, Copies, AddStartsAction
  <2>4. CASE Ends(g) /\ UNCHANGED queue
    BY <2>1, <2>4, AddEnds DEF others
  <2>5. ASSUME NEW pc \in {"new", "finish"}, work' = [work EXCEPT ![g].pc = pc], UNCHANGED queue
        PROVE  AddInv'
    BY <2>1, <2>5, AddPc DEF others
  <2>6. \/ EndsWith(g, MarkAsError(work[g].e)) \/ StartsAction(g, work[g].e) \/ (Ends(g) /\ UNCHANGED queue)
        \/ \E pc \in {"new", "finish"} : work' = [work EXCEPT ![g].pc = pc] /\ UNCHANGED queue
    BY <1>7 DEF Ask, LookNzb, FinishNzb
  <2> QED  BY <2>2, <2>3, <2>4, <2>5, <2>6
<1>8. CASE Process(g)
  <2>1. PICK pc \in {"finish", "fail"} : work' = [work EXCEPT ![g].pc = pc]
    BY <1>8 DEF Process
  <2>2. work[g].pc = "process" /\ UNCHANGED <<queue, added, todo>>
    BY <1>8 DEF Process
  <2> QED  BY <2>1, <2>2, AddPc
<1>9. CASE Merge(g)
  <2>1. /\ work[g].pc = "merge" /\ UNCHANGED <<queue, todo>>
        /\ added' = added \cup {HashOf(g)} /\ work' = [work EXCEPT ![g].pc = "begin"]
    BY <1>9 DEF Merge
  <2>2. CopiesFresh'
    <3> DEFINE w == [work[g] EXCEPT !.pc = "begin"]
    <3>1. w.pc = "begin" /\ w.e = work[g].e /\ w.h = HashOf(g) /\ w.e.state # "done"
      BY <2>1, AtWork, Copies DEF Slot, HashOf
    <3>2. work' = [work EXCEPT ![g] = w]
      BY <2>1
    <3> HIDE DEF w
    <3> QED  BY <2>1, <3>1, <3>2 DEF AddInv, CopiesFresh, TypeOK
  <2>3. CompletedAdded'
    BY <2>1 DEF AddInv, CompletedAdded
  <2> QED  BY <2>2, <2>3 DEF AddInv
<1>10. CASE MergeFails(g)
  <2>1. Ends(g) /\ UNCHANGED <<queue, added, todo>>
    BY <1>10 DEF MergeFails
  <2> QED  BY <2>1, AddEnds
<1>11. CASE Complete(g)
  <2>1. work[g].pc = "download" /\ UNCHANGED others
    BY <1>11 DEF Complete
  <2>2. HashOf(g) \in added /\ MarkAsCompleted(work[g].e) \in Row
    BY <2>1, AtWork, RowFields DEF AddInv, CopiesFresh, HashOf
  <2>3. CASE Writes(g, MarkAsCompleted(work[g].e), "drop")
    BY <2>1, <2>2, <2>3, AddWrites
  <2>4. CASE EndsWith(g, MarkAsCompleted(work[g].e))
    BY <2>1, <2>2, <2>4, AddEndsWith
  <2> QED  BY <1>11, <2>3, <2>4 DEF Complete
<1>12. CASE Drop(g)
  <2>1. work[g].pc # "none" /\ EndsWith(g, None) /\ UNCHANGED others
    BY <1>12 DEF Drop
  <2> QED  BY <2>1, AddEndsWith DEF Unfinished
<1> QED
  BY <1>1, <1>2, <1>3, <1>4, <1>5, <1>6, <1>7, <1>8, <1>9, <1>10, <1>11, <1>12 DEF Run

LEMMA AddStep == AddInv /\ TypeOK /\ [Next]_vars => AddInv'
<1> SUFFICES ASSUME AddInv, TypeOK, [Next]_vars PROVE AddInv'
    OBVIOUS
<1>1. ASSUME NEW p \in BOOLEAN PROVE Accepted(p).state # "done"
  BY DEF Accepted
<1>2. ASSUME NEW g \in Gos, NEW h \in Hashes, AddTorrent(g, h) PROVE AddInv'
  <2> DEFINE w == [pc |-> "new", h |-> h, e |-> Accepted(FALSE), claimed |-> FALSE]
  <2>1. /\ work' = [work EXCEPT ![g] = w] /\ queue' = [queue EXCEPT ![h] = Accepted(FALSE)]
        /\ w.pc = "new" /\ w.e = Accepted(FALSE) /\ UNCHANGED <<added, todo>>
    BY <1>2 DEF AddTorrent, Starts, Update, others
  <2> HIDE DEF w
  <2> QED  BY <1>1, <2>1, AddMove DEF Unfinished
<1>3. ASSUME NEW g \in Gos, WorkerPop(g) PROVE AddInv'
  <2> DEFINE w == [pc |-> "process", h |-> Head(jobs), e |-> Accepted(TRUE), claimed |-> FALSE]
  <2>1. /\ work' = [work EXCEPT ![g] = w] /\ UNCHANGED <<queue, added, todo>>
        /\ w.pc = "process" /\ w.e = Accepted(TRUE)
    BY <1>3 DEF WorkerPop, Starts
  <2> HIDE DEF w
  <2> QED  BY <1>1, <2>1, AddStay
<1>4. ASSUME NEW t \in Tickers, TickList(t) PROVE AddInv'
  <2>1. \A x \in Listed : x.e.state # "done"
    BY DEF Listed
  <2>2. todo' = [todo EXCEPT ![t] = Listed] /\ UNCHANGED <<queue, added, work>>
    BY <1>4 DEF TickList
  <2> QED  BY <2>1, <2>2 DEF AddInv, CopiesFresh, CompletedAdded, TypeOK
<1>5. ASSUME NEW t \in Tickers, NEW x \in todo[t], TickTake(t, x) PROVE AddInv'
  <2>1. /\ todo' = [todo EXCEPT ![t] = @ \ {x}] /\ UNCHANGED <<queue, added>>
        /\ x.e.state # "done"
    BY <1>5 DEF TickTake, AddInv, CopiesFresh
  <2>2. \A u \in Tickers : todo'[u] \subseteq todo[u]
    BY <2>1 DEF TypeOK
  <2>3. CASE UNCHANGED work
    BY <2>1, <2>2, <2>3 DEF AddInv, CopiesFresh, CompletedAdded
  <2>4. ASSUME NEW g \in Gos, Starts(g, Looks(x.h), x.h, x.e, TRUE) PROVE AddInv'
    <3> DEFINE w == [pc |-> Looks(x.h), h |-> x.h, e |-> x.e, claimed |-> TRUE]
    <3>1. work' = [work EXCEPT ![g] = w] /\ w.pc \in {"poll", "ask", "look"} /\ w.e = x.e
      BY <2>4 DEF Starts, Looks
    <3> HIDE DEF w
    <3> QED  BY <2>1, <2>2, <3>1 DEF AddInv, CopiesFresh, CompletedAdded, TypeOK
  <2> QED  BY <1>5, <2>3, <2>4 DEF TickTake
<1>6. ASSUME NEW g \in Gos, Run(g) PROVE AddInv'
  BY <1>6, RunAdd
<1>7. ASSUME NEW h \in Hashes, AddUsenet(h) \/ AddNZB(h) \/ Delete(h) PROVE AddInv'
  <2>1. /\ UNCHANGED <<work, added, todo>>
        /\ queue' = [queue EXCEPT ![h] = Accepted(TRUE)] \/ queue' = [queue EXCEPT ![h] = None]
    BY <1>7 DEF AddUsenet, AddNZB, Delete, Update, others
  <2> QED  BY <1>1, <2>1 DEF AddInv, CopiesFresh, CompletedAdded, TypeOK
<1>8. ASSUME NEW g \in Gos, Progress(g) PROVE AddInv'
  <2>1. work[g].pc = "download" /\ queue' = [queue EXCEPT ![HashOf(g)] = work[g].e] /\ UNCHANGED <<work, added, todo>>
    BY <1>8 DEF Progress, At, Update, others
  <2>2. work[g].e.state # "done"
    BY <2>1, Copies
  <2> QED  BY <2>1, <2>2 DEF AddInv, CopiesFresh, CompletedAdded, TypeOK
<1>9. CASE Restart
  BY <1>9 DEF Restart, AddInv, CopiesFresh, CompletedAdded, Unused
<1>10. CASE UNCHANGED vars
  BY <1>10 DEF vars, AddInv, CopiesFresh, CompletedAdded
<1> QED  BY <1>2, <1>3, <1>4, <1>5, <1>6, <1>7, <1>8, <1>9, <1>10 DEF Next, Tick

(* A row never says that an import is completed before the entry is in the    *)
(* main store, however deletions, stale copies and restarts interleave.       *)
THEOREM CompletedIsAdded == Spec => []CompletedAdded
<1>1. Init => AddInv
  BY DEF Init, AddInv, CopiesFresh, CompletedAdded, Unused
<1>2. AddInv => CompletedAdded
  BY DEF AddInv
<1> QED  BY <1>1, <1>2, AddStep, TypeCorrect, PTL DEF Spec

-----------------------------------------------------------------------------
(* Rows that are attended to *)

(* Before an action no copy of a row is in flight, and only a torrent that is   *)
(* being placed has one without a provider.  Rows and lists of NZBs have one.   *)
CopySays(w) ==
    \/ w.pc = "none"
    \/ /\ w.e.dl => w.pc \in Busy
       /\ w.e.prov \/ (w.pc \in {"new", "place"} /\ w.h \in Torrents)

RowSays(h, e) == e = None \/ e.prov \/ h \in Torrents

CopiesSay ==
    /\ \A g \in Gos : CopySays(work[g])
    /\ \A h \in Hashes : RowSays(h, queue[h])
    /\ \A t \in Tickers : \A x \in todo[t] : x.e.prov \/ x.h \in Torrents

Loading(e) == e # None /\ e.state = "downloading"

(* The parts of Attended: who is at a row, and who is at the metadata of an NZB. *)
RowsHeld ==
    \A h \in Hashes : Loading(queue[h]) =>
        /\ queue[h].dl => On(h, Busy) # {}
        /\ ~queue[h].prov => On(h, {"new", "place"}) # {}

JobsHeld ==
    \A h \in Hashes : meta[h] = "parsing" =>
        On(h, {"process"}) # {} \/ \E i \in DOMAIN jobs : jobs[i] = h

AttendInv == CopiesSay /\ (outages = 0 => RowsHeld /\ JobsHeld)

(* A hash keeps its goroutine unless that one moves away. *)
LEMMA OnKept ==
    ASSUME TypeOK, NEW g \in Gos, NEW w, work' = [work EXCEPT ![g] = w], NEW h, NEW pcs,
           On(h, pcs) # {}, work[g].pc \in pcs /\ work[g].h = h => w.pc \in pcs /\ w.h = h
    PROVE  On(h, pcs)' # {}
<1>1. PICK o \in Gos : work[o].h = h /\ work[o].pc \in pcs
  BY DEF On, HashOf
<1>2. work'[o].h = h /\ work'[o].pc \in pcs
  BY <1>1 DEF TypeOK
<1> QED  BY <1>2 DEF On, HashOf

LEMMA OnArrives ==
    ASSUME TypeOK, NEW g \in Gos, NEW w, work' = [work EXCEPT ![g] = w], NEW pcs, w.pc \in pcs
    PROVE  On(w.h, pcs)' # {}
<1>1. work'[g] = w
  BY DEF TypeOK
<1> QED  BY <1>1 DEF On, HashOf

(* A goroutine moves to w and writes e in the row of h: what leaves a row that   *)
(* is in flight, or that is being placed, writes that row.                       *)
LEMMA AttendMove ==
    ASSUME AttendInv, TypeOK, NEW g \in Gos, NEW w, NEW h \in Hashes, NEW e,
           work' = [work EXCEPT ![g] = w], queue' = [queue EXCEPT ![h] = e],
           UNCHANGED <<todo, meta, jobs, outages>>,
           CopySays(w), RowSays(h, e),
           Loading(e) /\ e.dl => w.h = h /\ w.pc \in Busy,
           Loading(e) /\ ~e.prov => w.h = h /\ w.pc \in {"new", "place"},
           work[g].pc \in Busy => h = work[g].h,
           work[g].pc \in {"new", "place"} => h = work[g].h,
           work[g].pc # "process" \/ w = work[g]
    PROVE  AttendInv'
<1>1. CopiesSay'
  BY DEF AttendInv, CopiesSay, TypeOK
<1>2. ASSUME outages' = 0 PROVE RowsHeld'
  <2> SUFFICES ASSUME NEW x \in Hashes, Loading(queue'[x])
               PROVE  /\ queue'[x].dl => On(x, Busy)' # {}
                      /\ ~queue'[x].prov => On(x, {"new", "place"})' # {}
    BY DEF RowsHeld, Loading
  <2>1. CASE x = h
    <3>1. queue'[x] = e
      BY <2>1 DEF TypeOK
    <3> QED  BY <2>1, <3>1, OnArrives
  <2>2. CASE x # h
    <3>1. queue'[x] = queue[x]
      BY <2>2 DEF TypeOK
    <3>2. /\ queue[x].dl => On(x, Busy) # {}
          /\ ~queue[x].prov => On(x, {"new", "place"}) # {}
      BY <1>2, <3>1 DEF AttendInv, RowsHeld
    <3> QED  BY <2>2, <3>1, <3>2, OnKept
  <2> QED  BY <2>1, <2>2
<1>3. ASSUME outages' = 0 PROVE JobsHeld'
  <2> SUFFICES ASSUME NEW x \in Hashes, meta[x] = "parsing", ~\E i \in DOMAIN jobs : jobs[i] = x
               PROVE  On(x, {"process"})' # {}
    BY DEF JobsHeld
  <2>1. On(x, {"process"}) # {}
    BY <1>3 DEF AttendInv, JobsHeld
  <2> QED  BY <2>1, OnKept
<1> QED  BY <1>1, <1>2, <1>3 DEF AttendInv

(* The same without a write. *)
LEMMA AttendStay ==
    ASSUME AttendInv, TypeOK, NEW g \in Gos, NEW w,
           work' = [work EXCEPT ![g] = w], UNCHANGED <<queue, meta, jobs, outages>>,
           \A t \in Tickers : todo'[t] \subseteq todo[t],
           CopySays(w),
           work[g].pc \in Busy => w.pc \in Busy /\ w.h = work[g].h,
           work[g].pc \in {"new", "place"} => w.pc \in {"new", "place"} /\ w.h = work[g].h,
           work[g].pc # "process"
    PROVE  AttendInv'
<1>1. CopiesSay'
  BY DEF AttendInv, CopiesSay, TypeOK
<1>2. ASSUME outages' = 0 PROVE RowsHeld'
  <2> SUFFICES ASSUME NEW x \in Hashes, Loading(queue[x])
               PROVE  /\ queue[x].dl => On(x, Busy)' # {}
                      /\ ~queue[x].prov => On(x, {"new", "place"})' # {}
    BY DEF RowsHeld, Loading
  <2>1. /\ queue[x].dl => On(x, Busy) # {}
        /\ ~queue[x].prov => On(x, {"new", "place"}) # {}
    BY <1>2 DEF AttendInv, RowsHeld
  <2> QED  BY <2>1, OnKept
<1>3. ASSUME outages' = 0 PROVE JobsHeld'
  <2> SUFFICES ASSUME NEW x \in Hashes, meta[x] = "parsing", ~\E i \in DOMAIN jobs : jobs[i] = x
               PROVE  On(x, {"process"})' # {}
    BY DEF JobsHeld
  <2>1. On(x, {"process"}) # {}
    BY <1>3 DEF AttendInv, JobsHeld
  <2> QED  BY <2>1, OnKept
<1> QED  BY <1>1, <1>2, <1>3 DEF AttendInv

(* The moves that write, as AttendMove sees them. *)
LEMMA AttendEndsWith ==
    ASSUME AttendInv, TypeOK, NEW g \in Gos, work[g].pc \notin {"none", "process"}, NEW e,
           EndsWith(g, e), UNCHANGED others,
           RowSays(HashOf(g), e), Loading(e) => ~e.dl /\ e.prov
    PROVE  AttendInv'
<1>1. HashOf(g) \in Hashes /\ HashOf(g) = work[g].h /\ CopySays(Unused)
  BY AtWork DEF HashOf, Unused, CopySays
<1>2. work' = [work EXCEPT ![g] = Unused] /\ queue' = [queue EXCEPT ![HashOf(g)] = e]
  BY DEF EndsWith, Ends, Update
<1> QED  BY <1>1, <1>2, AttendMove DEF others

LEMMA AttendWrites ==
    ASSUME AttendInv, TypeOK, NEW g \in Gos, work[g].pc \notin {"none", "process"}, NEW e \in Row, NEW pc,
           Writes(g, e, pc), UNCHANGED others,
           e.dl => pc \in Busy, e.prov \/ (pc \in {"new", "place"} /\ work[g].h \in Torrents)
    PROVE  AttendInv'
<1> DEFINE w == [work[g] EXCEPT !.e = e, !.pc = pc]
<1>1. w.pc = pc /\ w.e = e /\ w.h = HashOf(g) /\ HashOf(g) \in Hashes /\ HashOf(g) = work[g].h
  BY AtWork DEF Slot, HashOf
<1>2. work' = [work EXCEPT ![g] = w] /\ queue' = [queue EXCEPT ![HashOf(g)] = e]
  BY DEF Writes, Update
<1>3. UNCHANGED <<todo, meta, jobs, outages>>
  BY DEF others
<1> HIDE DEF w
<1>4. CopySays(w) /\ RowSays(HashOf(g), e)
  BY <1>1 DEF CopySays, RowSays
<1> QED  BY <1>1, <1>2, <1>3, <1>4, AttendMove

LEMMA AttendStartsAction ==
    ASSUME AttendInv, TypeOK, NEW g \in Gos, work[g].pc \notin {"none", "process"}, NEW e \in Row,
           StartsAction(g, e), UNCHANGED others, ~e.dl, e.prov
    PROVE  AttendInv'
<1> DEFINE w == [work[g] EXCEPT !.pc = "action", !.e = e, !.claimed = FALSE]
<1>1. w.pc = "action" /\ w.e = e /\ HashOf(g) \in Hashes /\ HashOf(g) = work[g].h
  BY AtWork DEF Slot, HashOf
<1>2. work' = [work EXCEPT ![g] = w] /\ queue' = [queue EXCEPT ![HashOf(g)] = e]
  BY DEF StartsAction, Update
<1>3. UNCHANGED <<todo, meta, jobs, outages>>
  BY DEF others
<1> HIDE DEF w
<1>4. CopySays(w) /\ RowSays(HashOf(g), e)
  BY <1>1 DEF CopySays, RowSays
<1> QED  BY <1>1, <1>2, <1>3, <1>4, AttendMove

LEMMA AttendPc ==
    ASSUME AttendInv, TypeOK, NEW g \in Gos, work[g].pc \in {"ask", "look", "merge"}, NEW pc,
           work' = [work EXCEPT ![g].pc = pc], UNCHANGED <<queue, todo, meta, jobs, outages>>,
           work[g].pc = "merge" => pc \in Busy
    PROVE  AttendInv'
<1> DEFINE w == [work[g] EXCEPT !.pc = pc]
<1>1. w.pc = pc /\ w.e = work[g].e /\ w.h = work[g].h
  BY AtWork DEF Slot
<1>2. work' = [work EXCEPT ![g] = w]
  OBVIOUS
<1>3. CopySays(work[g])
  BY DEF AttendInv, CopiesSay
<1> HIDE DEF w
<1>4. CopySays(w)
  BY <1>1, <1>3 DEF CopySays, Busy
<1> QED  BY <1>1, <1>2, <1>4, AttendStay DEF Busy

(* What a goroutine may write. *)
LEMMA AttendCopies ==
    ASSUME AttendInv, TypeOK, NEW g \in Gos, work[g].pc # "none"
    PROVE  /\ work[g].e \in Row /\ CopySays(work[g])
           /\ MarkAsError(work[g].e) \in Row /\ ~Loading(MarkAsError(work[g].e))
           /\ MarkAsError(work[g].e).prov = work[g].e.prov
           /\ MarkAsCompleted(work[g].e) \in Row /\ ~Loading(MarkAsCompleted(work[g].e))
           /\ MarkAsCompleted(work[g].e).prov = work[g].e.prov
           /\ ~MarkAsCompleted(work[g].e).dl
           /\ InFlight(work[g].e) \in Row /\ InFlight(work[g].e).prov = work[g].e.prov
           /\ Placed(g) \in Row /\ Placed(g).prov /\ Placed(g).dl = work[g].e.dl
<1>1. work[g].e \in Row /\ CopySays(work[g])
  BY AtWork DEF AttendInv, CopiesSay
<1>2. MarkAsError(work[g].e) \in Row /\ MarkAsError(work[g].e).state = "error"
      /\ MarkAsError(work[g].e).prov = work[g].e.prov
  BY <1>1, RowFields DEF MarkAsError, Row
<1>3. MarkAsCompleted(work[g].e) \in Row /\ MarkAsCompleted(work[g].e).state = "done"
      /\ MarkAsCompleted(work[g].e).prov = work[g].e.prov /\ ~MarkAsCompleted(work[g].e).dl
  BY <1>1, RowFields DEF MarkAsCompleted, Row
<1>4. InFlight(work[g].e) \in Row /\ InFlight(work[g].e).prov = work[g].e.prov
  BY <1>1, RowFields DEF InFlight, Row
<1>5. Placed(g) \in Row /\ Placed(g).prov /\ Placed(g).dl = work[g].e.dl
  BY <1>1, AtWork DEF Placed, Row
<1> QED  BY <1>1, <1>2, <1>3, <1>4, <1>5 DEF Loading

LEMMA RunAttend == ASSUME AttendInv, TypeOK, NEW g \in Gos, Run(g) PROVE AttendInv'
<1> USE DEF At
<1>1. CASE NewUpdate(g)
  <2>1. work[g].pc = "new" /\ Writes(g, work[g].e, "place") /\ UNCHANGED others
    BY <1>1 DEF NewUpdate
  <2>2. ~work[g].e.dl /\ (work[g].e.prov \/ work[g].h \in Torrents)
    BY <2>1, AttendCopies DEF CopySays, Busy
  <2> QED  BY <2>1, <2>2, AttendCopies, AttendWrites
<1>2. CASE Action(g) \/ Begin(g)
  <2>1. PICK pc \in {"merge", "download"} : Writes(g, InFlight(work[g].e), pc)
    BY <1>2 DEF Action, Begin
  <2>2. work[g].pc \in {"action", "begin"} /\ UNCHANGED others
    BY <1>2 DEF Action, Begin
  <2>3. InFlight(work[g].e) \in Row /\ InFlight(work[g].e).prov /\ pc \in Busy
    BY <2>1, <2>2, AttendCopies DEF CopySays, Busy
  <2> QED  BY <2>1, <2>2, <2>3, AttendWrites
<1>3. CASE NewReady(g)
  <2>1. work[g].pc = "place" /\ StartsAction(g, Placed(g)) /\ UNCHANGED others
    BY <1>3 DEF NewReady
  <2>2. Placed(g) \in Row /\ Placed(g).prov /\ ~Placed(g).dl
    BY <2>1, AttendCopies DEF CopySays, Busy
  <2> QED  BY <2>1, <2>2, AttendStartsAction
<1>4. CASE PollDone(g)
  <2>1. work[g].pc = "poll" /\ StartsAction(g, work[g].e) /\ UNCHANGED others
    BY <1>4 DEF PollDone
  <2>2. work[g].e \in Row /\ work[g].e.prov /\ ~work[g].e.dl
    BY <2>1, AttendCopies DEF CopySays, Busy
  <2> QED  BY <2>1, <2>2, AttendStartsAction
<1>5. CASE NewWaits(g)
  <2>1. work[g].pc = "place" /\ EndsWith(g, Placed(g)) /\ UNCHANGED others
    BY <1>5 DEF NewWaits
  <2>2. Placed(g).prov /\ ~Placed(g).dl
    BY <2>1, AttendCopies DEF CopySays, Busy
  <2> QED  BY <2>1, <2>2, AttendEndsWith DEF RowSays
<1>6. CASE PollWaits(g)
  <2>1. work[g].pc = "poll" /\ EndsWith(g, work[g].e) /\ UNCHANGED others
    BY <1>6 DEF PollWaits
  <2>2. work[g].e.prov /\ ~work[g].e.dl
    BY <2>1, AttendCopies DEF CopySays, Busy
  <2> QED  BY <2>1, <2>2, AttendEndsWith DEF RowSays
<1>7. ASSUME work[g].pc \notin {"none", "process"}, EndsWith(g, MarkAsError(work[g].e)), UNCHANGED others
      PROVE  AttendInv'
  <2>1. RowSays(HashOf(g), MarkAsError(work[g].e)) /\ ~Loading(MarkAsError(work[g].e))
    BY <1>7, AttendCopies DEF RowSays, CopySays, HashOf
  <2> QED  BY <1>7, <2>1, AttendEndsWith
<1>8. CASE PollFails(g) \/ WorkerFails(g) \/ DownloadFails(g)
  BY <1>7, <1>8 DEF PollFails, WorkerFails, DownloadFails
<1>9. CASE Ask(g)
  <2>1. work[g].pc = "ask" /\ UNCHANGED others
    BY <1>9 DEF Ask
  <2>2. CASE work' = [work EXCEPT ![g].pc = "new"] /\ UNCHANGED <<queue, claims>>
    BY <2>1, <2>2, AttendPc DEF others
  <2> QED  BY <1>7, <1>9, <2>1, <2>2 DEF Ask
<1>10. CASE LookNzb(g)
  <2>1. work[g].pc = "look" /\ UNCHANGED others
    BY <1>10 DEF LookNzb
  <2>2. CASE work' = [work EXCEPT ![g].pc = "finish"] /\ UNCHANGED <<queue, claims>>
    BY <2>1, <2>2, AttendPc DEF others
  <2>3. CASE Ends(g) /\ UNCHANGED queue
    <3>1. work' = [work EXCEPT ![g] = Unused] /\ CopySays(Unused) /\ Unused.pc = "none"
      BY <2>3 DEF Ends, CopySays, Unused
    <3> QED  BY <2>1, <2>3, <3>1, AttendStay DEF others, Busy
  <2> QED  BY <1>7, <1>10, <2>1, <2>2, <2>3 DEF LookNzb
<1>11. CASE FinishNzb(g)
  <2>1. work[g].pc = "finish" /\ UNCHANGED others
    BY <1>11 DEF FinishNzb
  <2>2. work[g].e \in Row /\ work[g].e.prov /\ ~work[g].e.dl
    BY <2>1, AttendCopies DEF CopySays, Busy
  <2>3. CASE StartsAction(g, work[g].e)
    BY <2>1, <2>2, <2>3, AttendStartsAction
  <2> QED  BY <1>7, <1>11, <2>1, <2>3 DEF FinishNzb
<1>12. CASE Process(g)
  <2>1. PICK pc \in {"finish", "fail"}, s \in {"done", "failed"} :
           work' = [work EXCEPT ![g].pc = pc] /\ meta' = [meta EXCEPT ![HashOf(g)] = s]
    BY <1>12 DEF Process
  <2>2. work[g].pc = "process" /\ UNCHANGED <<queue, claims, added, todo, jobs, outages>>
    BY <1>12 DEF Process
  <2> DEFINE w == [work[g] EXCEPT !.pc = pc]
  <2>3. work' = [work EXCEPT ![g] = w] /\ w.pc = pc /\ w.e = work[g].e /\ w.h = work[g].h
    BY <2>1, <2>2, AtWork DEF Slot
  <2>4. CopySays(w)
    BY <2>2, <2>3, AttendCopies DEF CopySays, Busy
  <2> HIDE DEF w
  <2>5. CopiesSay'
    BY <2>2, <2>3, <2>4 DEF AttendInv, CopiesSay, TypeOK
  <2>6. ASSUME outages' = 0, NEW x \in Hashes, Loading(queue'[x])
        PROVE  /\ queue'[x].dl => On(x, Busy)' # {}
               /\ ~queue'[x].prov => On(x, {"new", "place"})' # {}
    <3>1. /\ queue[x].dl => On(x, Busy) # {}
          /\ ~queue[x].prov => On(x, {"new", "place"}) # {}
      BY <2>2, <2>6 DEF AttendInv, RowsHeld
    <3>2. work[g].pc \notin Busy /\ work[g].pc \notin {"new", "place"}
      BY <2>2 DEF Busy
    <3> QED  BY <2>2, <2>3, <3>1, <3>2, OnKept
  <2>7. ASSUME outages' = 0, NEW x \in Hashes, meta'[x] = "parsing", ~\E i \in DOMAIN jobs : jobs[i] = x
        PROVE  On(x, {"process"})' # {}
    <3>1. x # work[g].h /\ meta[x] = "parsing"
      BY <2>1, <2>7, <2>2, AtWork DEF TypeOK, HashOf
    <3>2. On(x, {"process"}) # {}
      BY <2>2, <2>7, <3>1 DEF AttendInv, JobsHeld
    <3> QED  BY <2>3, <3>1, <3>2, OnKept
  <2>8. outages' = 0 => RowsHeld'
    BY <2>6 DEF RowsHeld, Loading
  <2>9. outages' = 0 => JobsHeld'
    BY <2>2, <2>7 DEF JobsHeld
  <2> QED  BY <2>5, <2>8, <2>9 DEF AttendInv
<1>13. CASE Merge(g)
  <2>1. /\ work[g].pc = "merge" /\ work' = [work EXCEPT ![g].pc = "begin"]
        /\ UNCHANGED <<queue, todo, meta, jobs, outages>> /\ "begin" \in Busy
    BY <1>13 DEF Merge, Busy
  <2> QED  BY <2>1, AttendPc
<1>14. CASE MergeFails(g)
  <2>1. /\ work' = [work EXCEPT ![g] = Unused] /\ UNCHANGED <<queue, todo>>
        /\ outages' = outages + 1 /\ outages \in Nat
    BY <1>14, QueueAssumption DEF MergeFails, Ends, TypeOK
  <2>2. CopySays(Unused)
    BY DEF CopySays, Unused
  <2>3. CopiesSay'
    BY <2>1, <2>2 DEF AttendInv, CopiesSay, TypeOK
  <2> QED  BY <2>1, <2>3 DEF AttendInv
<1>15. CASE Complete(g)
  <2>1. work[g].pc = "download" /\ UNCHANGED others
    BY <1>15 DEF Complete
  <2>2. /\ MarkAsCompleted(work[g].e) \in Row /\ MarkAsCompleted(work[g].e).prov
        /\ ~MarkAsCompleted(work[g].e).dl /\ ~Loading(MarkAsCompleted(work[g].e))
    BY <2>1, AttendCopies DEF CopySays
  <2>3. CASE Writes(g, MarkAsCompleted(work[g].e), "drop")
    BY <2>1, <2>2, <2>3, AttendWrites
  <2>4. CASE EndsWith(g, MarkAsCompleted(work[g].e))
    BY <2>1, <2>2, <2>4, AttendEndsWith DEF RowSays
  <2> QED  BY <1>15, <2>3, <2>4 DEF Complete
<1>16. CASE Drop(g)
  <2>1. work[g].pc = "drop" /\ EndsWith(g, None) /\ UNCHANGED others
    BY <1>16 DEF Drop
  <2> QED  BY <2>1, AttendEndsWith DEF RowSays, Loading
<1> QED
  BY <1>1, <1>2, <1>3, <1>4, <1>5, <1>6, <1>8, <1>9, <1>10, <1>11, <1>12, <1>13, <1>14, <1>15, <1>16 DEF Run

LEMMA AttendStep == AttendInv /\ TypeOK /\ [Next]_vars => AttendInv'
<1> SUFFICES ASSUME AttendInv, TypeOK, [Next]_vars PROVE AttendInv'
    OBVIOUS
<1>0. \A p \in BOOLEAN : ~Accepted(p).dl /\ Accepted(p).prov = p
  BY DEF Accepted
<1>1. ASSUME NEW g \in Gos, NEW h \in Hashes, AddTorrent(g, h) PROVE AttendInv'
  <2> DEFINE w == [pc |-> "new", h |-> h, e |-> Accepted(FALSE), claimed |-> FALSE]
  <2>1. /\ work' = [work EXCEPT ![g] = w] /\ queue' = [queue EXCEPT ![h] = Accepted(FALSE)]
        /\ w.pc = "new" /\ w.e = Accepted(FALSE) /\ w.h = h /\ h \in Torrents
        /\ UNCHANGED <<todo, meta, jobs, outages>> /\ work[g] = Unused
    BY <1>1 DEF AddTorrent, Starts, Update, others, Free
  <2> HIDE DEF w
  <2>2. CopySays(w) /\ RowSays(h, Accepted(FALSE))
    BY <1>0, <2>1 DEF CopySays, RowSays
  <2>3. work[g].pc \notin Busy /\ work[g].pc \notin {"new", "place", "process"}
    BY <2>1 DEF Unused, Busy
  <2> QED  BY <1>0, <2>1, <2>2, <2>3, AttendMove
<1>2. ASSUME NEW h \in Hashes, AddUsenet(h) \/ AddNZB(h) \/ Delete(h) PROVE AttendInv'
  <2>1. PICK e : /\ queue' = [queue EXCEPT ![h] = e] /\ UNCHANGED <<work, todo, outages>>
                 /\ RowSays(h, e) /\ (Loading(e) => ~e.dl /\ e.prov)
    BY <1>0, <1>2 DEF AddUsenet, AddNZB, Delete, Update, others, RowSays, Loading
  <2>2. CopiesSay'
    BY <2>1 DEF AttendInv, CopiesSay, TypeOK
  <2>3. ASSUME outages' = 0 PROVE RowsHeld'
    <3>1. \A x \in Hashes : queue'[x] = e \/ queue'[x] = queue[x]
      BY <2>1 DEF TypeOK
    <3>2. \A x, pcs : On(x, pcs)' = On(x, pcs)
      BY <2>1 DEF On, HashOf
    <3> QED  BY <2>1, <2>3, <3>1, <3>2 DEF AttendInv, RowsHeld, Loading
  <2>4. ASSUME outages' = 0, NEW x \in Hashes, meta'[x] = "parsing"
        PROVE  On(x, {"process"})' # {} \/ \E i \in DOMAIN jobs' : jobs'[i] = x
    <3>1. jobs' = jobs \/ jobs' = Append(jobs, h)
      BY <1>2 DEF AddUsenet, AddNZB, Delete, others
    <3>2. \A y \in Hashes : (\E i \in DOMAIN jobs : jobs[i] = y) => \E i \in DOMAIN jobs' : jobs'[i] = y
      BY <3>1 DEF TypeOK
    <3>3. On(x, {"process"})' = On(x, {"process"})
      BY <2>1 DEF On, HashOf
    <3>4. CASE meta[x] = "parsing"
      BY <2>1, <2>4, <3>2, <3>3, <3>4 DEF AttendInv, JobsHeld
    <3>5. CASE meta[x] # "parsing"
      <4>1. AddNZB(h) /\ x = h
        BY <1>2, <2>4, <3>5 DEF AddUsenet, AddNZB, Delete, others, TypeOK
      <4>2. jobs' = Append(jobs, x) /\ jobs \in Seq(Hashes)
        BY <4>1 DEF AddNZB, TypeOK
      <4>3. Len(jobs) + 1 \in DOMAIN jobs' /\ jobs'[Len(jobs) + 1] = x
        BY <4>2
      <4> QED  BY <4>3
    <3> QED  BY <3>4, <3>5
  <2>5. outages' = 0 => JobsHeld'
    BY <2>4 DEF JobsHeld
  <2> QED  BY <2>2, <2>3, <2>5 DEF AttendInv
<1>3. ASSUME NEW t \in Tickers, TickList(t) PROVE AttendInv'
  <2>1. \A x \in Listed : x.e.prov \/ x.h \in Torrents
    BY DEF Listed, AttendInv, CopiesSay, RowSays
  <2>2. todo' = [todo EXCEPT ![t] = Listed] /\ UNCHANGED <<queue, work, meta, jobs, outages>>
    BY <1>3 DEF TickList
  <2>3. CopiesSay'
    BY <2>1, <2>2 DEF AttendInv, CopiesSay, TypeOK
  <2> QED  BY <2>2, <2>3 DEF AttendInv, RowsHeld, JobsHeld, On, HashOf
<1>4. ASSUME NEW t \in Tickers, NEW x \in todo[t], TickTake(t, x) PROVE AttendInv'
  <2>1. todo' = [todo EXCEPT ![t] = @ \ {x}] /\ UNCHANGED <<queue, meta, jobs, outages>>
    BY <1>4 DEF TickTake
  <2>2. \A u \in Tickers : todo'[u] \subseteq todo[u]
    BY <2>1 DEF TypeOK
  <2>3. CASE UNCHANGED work
    BY <2>1, <2>2, <2>3 DEF AttendInv, CopiesSay, RowsHeld, JobsHeld, On, HashOf
  <2>4. ASSUME NEW g \in Gos, Free(g), Starts(g, Looks(x.h), x.h, x.e, TRUE),
               ~x.e.dl, ~(x.h \in Torrents /\ ~x.e.prov)
        PROVE  AttendInv'
    <3> DEFINE w == [pc |-> Looks(x.h), h |-> x.h, e |-> x.e, claimed |-> TRUE]
    <3>1. work' = [work EXCEPT ![g] = w] /\ w.e = x.e /\ work[g].pc = "none"
      BY <2>4 DEF Starts, Free, Unused
    <3>2. x.e.prov
      BY <2>4 DEF AttendInv, CopiesSay
    <3> HIDE DEF w
    <3>3. CopySays(w)
      BY <2>4, <3>1, <3>2 DEF CopySays
    <3> QED  BY <2>1, <2>2, <3>1, <3>3, AttendStay DEF Busy
  <2> QED  BY <1>4, <2>3, <2>4 DEF TickTake
<1>5. ASSUME NEW g \in Gos, Run(g) PROVE AttendInv'
  BY <1>5, RunAttend
<1>6. ASSUME NEW g \in Gos, Progress(g) PROVE AttendInv'
  <2>1. /\ work[g].pc = "download" /\ queue' = [queue EXCEPT ![work[g].h] = work[g].e]
        /\ UNCHANGED <<work, todo, meta, jobs, outages>>
    BY <1>6 DEF Progress, At, Update, HashOf, others
  <2>2. work' = [work EXCEPT ![g] = work[g]] /\ work[g].h \in Hashes
    BY <2>1, AtWork DEF TypeOK
  <2>3. CopySays(work[g]) /\ work[g].e.prov
    BY <2>1, AttendCopies DEF CopySays
  <2>4. work[g].pc \in Busy /\ RowSays(work[g].h, work[g].e)
    BY <2>1, <2>3 DEF Busy, RowSays
  <2> QED  BY <2>1, <2>2, <2>3, <2>4, AttendMove
<1>7. ASSUME NEW g \in Gos, WorkerPop(g) PROVE AttendInv'
  <2> DEFINE w == [pc |-> "process", h |-> Head(jobs), e |-> Accepted(TRUE), claimed |-> FALSE]
  <2>1. /\ work' = [work EXCEPT ![g] = w] /\ UNCHANGED <<queue, todo, meta, outages>>
        /\ w.pc = "process" /\ w.e = Accepted(TRUE) /\ w.h = Head(jobs)
        /\ jobs # <<>> /\ jobs' = Tail(jobs) /\ work[g].pc = "none"
    BY <1>7 DEF WorkerPop, Starts, Free, Unused
  <2> HIDE DEF w
  <2>2. CopySays(w)
    BY <1>0, <2>1 DEF CopySays
  <2>3. CopiesSay'
    BY <2>1, <2>2 DEF AttendInv, CopiesSay, TypeOK
  <2>4. \A x, pcs : On(x, pcs) # {} /\ "none" \notin pcs => On(x, pcs)' # {}
    BY <2>1, OnKept
  <2>5. ASSUME outages' = 0 PROVE RowsHeld'
    <3>1. RowsHeld /\ "none" \notin Busy
      BY <2>1, <2>5 DEF AttendInv, Busy
    <3> QED  BY <2>1, <2>4, <3>1 DEF RowsHeld, Loading
  <2>6. ASSUME outages' = 0, NEW x \in Hashes, meta[x] = "parsing"
        PROVE  On(x, {"process"})' # {} \/ \E i \in DOMAIN jobs' : jobs'[i] = x
    <3>1. CASE On(x, {"process"}) # {}
      BY <2>4, <3>1
    <3>2. CASE On(x, {"process"}) = {}
      <4>1. PICK i \in DOMAIN jobs : jobs[i] = x
        BY <2>1, <2>6, <3>2 DEF AttendInv, JobsHeld
      <4>2. CASE i = 1
        <5>1. w.h = x /\ "process" \in {"process"}
          BY <2>1, <4>1, <4>2 DEF TypeOK
        <5> QED  BY <2>1, <5>1, OnArrives
      <4>3. CASE i # 1
        <5>1. i - 1 \in DOMAIN jobs' /\ jobs'[i - 1] = x
          BY <2>1, <4>1, <4>3 DEF TypeOK
        <5> QED  BY <5>1
      <4> QED  BY <4>2, <4>3
    <3> QED  BY <3>1, <3>2
  <2>7. outages' = 0 => JobsHeld'
    BY <2>1, <2>6 DEF JobsHeld
  <2> QED  BY <2>3, <2>5, <2>7 DEF AttendInv
<1>8. CASE Restart
  <2>1. /\ todo' = [t \in Tickers |-> {}] /\ work' = [g \in Gos |-> Unused] /\ queue' = queue
        /\ outages' = outages + 1 /\ outages \in Nat
    BY <1>8, QueueAssumption DEF Restart, TypeOK
  <2>2. CopySays(Unused)
    BY DEF CopySays, Unused
  <2>3. CopiesSay'
    BY <2>1, <2>2 DEF AttendInv, CopiesSay
  <2> QED  BY <2>1, <2>3 DEF AttendInv
<1>9. CASE UNCHANGED vars
  BY <1>9 DEF vars, AttendInv, CopiesSay, RowsHeld, JobsHeld, On, HashOf
<1> QED  BY <1>1, <1>2, <1>3, <1>4, <1>5, <1>6, <1>7, <1>8, <1>9 DEF Next, Tick

(* Nothing is left stuck while the process runs and the main store takes what   *)
(* it is given: whoever writes that a row is in flight, or accepts one that has  *)
(* no provider yet, is still at it or has written another row since; and an NZB   *)
(* that waits for its parsing has a job or the worker that took it.              *)
THEOREM AllAttended == Spec => []Attended
<1>1. Init => AttendInv
  BY DEF Init, AttendInv, CopiesSay, RowsHeld, JobsHeld, CopySays, RowSays, Unused, Loading
<1>2. AttendInv => Attended
  BY DEF AttendInv, RowsHeld, JobsHeld, Attended, Loading
<1> QED  BY <1>1, <1>2, AttendStep, TypeCorrect, PTL DEF Spec
===============================================================================
