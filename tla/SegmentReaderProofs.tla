-------------------------- MODULE SegmentReaderProofs --------------------------
(***************************************************************************)
(* What holds of the segment reader for any number of reads, prefetch      *)
(* workers and segments, whatever fails, times out or is closed.           *)
(***************************************************************************)
EXTENDS SegmentReader, FiniteSetTheorems, TLAPS

USE ReaderAssumption

Results == {"ok", "missing", "late", "closed", "failed", "lost", "panic"}
Pcs     == FetchPcs \cup {"idle", "stopped", "hint", "ensure", "wait", "read", "reread", "unpin"}
ActRec  == [pc : Pcs, lo : Segs, hi : Segs, i : Nat \ {0}, seg : Segs, back : {"work", "ensure", "again"}, res : Results]

(* A read stays inside its range, and a worker does nothing but fetch. *)
Fits(a, r) ==
    /\ r.lo <= r.hi
    /\ a \in Readers => r.pc # "stopped" /\ (r.pc \in FetchPcs => r.back # "work")
    /\ a \in Workers => r.pc \in FetchPcs \cup {"idle", "stopped"} /\ r.back = "work"
    /\ r.pc \in {"wait", "read", "reread"} => r.i \in r.lo .. r.hi
    /\ r.pc \in FetchPcs /\ r.back # "work" => r.i \in r.lo .. r.hi
    /\ r.pc = "ensure" => r.i \in r.lo .. r.hi + 1

TypeOK ==
    /\ st \in [Segs -> {"empty", "fetching", "disk", "failed"}] /\ error \in [Segs -> Results]
    /\ onDisk \in SUBSET Segs /\ pins \in [Segs -> Int] /\ used \in Int
    /\ prom \in [Segs -> [owner : Actors \cup {Nobody}, done : BOOLEAN, err : Results]]
    /\ queue \in Seq(Segs)
    /\ act \in [Actors -> ActRec] /\ \A a \in Actors : Fits(a, act[a])
    /\ ev \in [pc : {"idle", "find", "check", "swap", "drop", "stopped"}, seg : Segs]
    /\ signal \in BOOLEAN /\ stage \in {"open", "cancelled", "shut", "closed"}

(* The goroutines that hold the promise of their segment: at most one of each. *)
Owning == {"mark", "look", "await", "slot", "down", "resolve", "clear"}

OwnersAgree == \A a \in Actors : act[a].pc \in Owning => prom[Seg(a)].owner = a

(* What is being downloaded is not there yet, and what is being fetched is    *)
(* being downloaded: that nobody else's claim comes between the two.          *)
FetchesAgree ==
    /\ \A a \in Actors : act[a].pc \in {"slot", "down"} => st[Seg(a)] \in {"fetching", "empty"}
    /\ \A s \in Segs : st[s] = "fetching" => \E a \in Actors : act[a].pc \in {"slot", "down"} /\ Seg(a) = s

IInv == TypeOK /\ OwnersAgree /\ FetchesAgree /\ PinsAreReads /\ DiskCounted

-----------------------------------------------------------------------------
(* What a step makes of a goroutine's local variables. *)

(* A read that goes on keeps its pins. *)
Kept(r, c) == (c.pc = "idle" <=> r.pc = "idle") /\ c.lo = r.lo /\ c.hi = r.hi

Good(a, r, c) == c \in ActRec /\ Fits(a, c) /\ (a \in Readers => Kept(r, c))

LEMMA RestingType == Resting \in ActRec
BY DEF Resting, ActRec, Pcs, FetchPcs, Segs, Results

LEMMA ReturnedGood ==
    ASSUME NEW a \in Actors, NEW r \in ActRec, Fits(a, r), r.pc \in FetchPcs, NEW e \in Results
    PROVE  Good(a, r, Returned(r, e)) /\ Returned(r, e).pc \notin Owning
<1>1. CASE r.back = "work"
  <2>1. a \in Workers
    BY <1>1 DEF Fits, Actors
  <2>2. Returned(r, e) = Resting
    BY <1>1 DEF Returned
  <2>3. Fits(a, Resting) /\ Resting.pc = "idle"
    BY <2>1 DEF Fits, Resting, FetchPcs
  <2> QED  BY <2>1, <2>2, <2>3, RestingType DEF Good, Owning
<1>2. CASE r.back # "work"
  <2>0. r.back \in {"ensure", "again"} /\ a \in Readers /\ a \notin Workers
    BY <1>2 DEF Fits, Actors, ActRec
  <2>1. CASE e # "ok"
    <3> DEFINE c == [r EXCEPT !.pc = "unpin", !.res = e]
    <3>1. Returned(r, e) = c
      BY <2>0, <2>1 DEF Returned
    <3>2. c \in ActRec /\ c.pc = "unpin" /\ c.lo = r.lo /\ c.hi = r.hi
      BY DEF ActRec, Pcs, FetchPcs
    <3>3. r.pc # "idle"
      BY DEF FetchPcs
    <3> HIDE DEF c
    <3> QED  BY <2>0, <3>1, <3>2, <3>3 DEF Good, Fits, Kept, Owning, FetchPcs
  <2>2. CASE e = "ok" /\ r.back = "ensure"
    <3> DEFINE c == [r EXCEPT !.pc = "ensure", !.i = r.i + 1]
    <3>1. Returned(r, e) = c
      BY <2>2 DEF Returned
    <3>a. r.i + 1 \in Nat \ {0}
      BY DEF ActRec
    <3>2. c \in ActRec /\ c.pc = "ensure" /\ c.lo = r.lo /\ c.hi = r.hi /\ c.i = r.i + 1
      BY <3>a DEF ActRec, Pcs
    <3>3. r.pc # "idle"
      BY DEF FetchPcs
    <3>4. c.i \in c.lo .. c.hi + 1 /\ r.lo <= r.hi
      BY <3>2, <1>2 DEF Fits, ActRec, Segs
    <3> HIDE DEF c
    <3> QED  BY <2>0, <3>1, <3>2, <3>3, <3>4 DEF Good, Fits, Kept, Owning, FetchPcs
  <2>3. CASE e = "ok" /\ r.back = "again"
    <3> DEFINE c == [r EXCEPT !.pc = "reread"]
    <3>1. Returned(r, e) = c
      BY <2>3 DEF Returned
    <3>2. c \in ActRec /\ c.pc = "reread" /\ c.lo = r.lo /\ c.hi = r.hi /\ c.i = r.i
      BY DEF ActRec, Pcs, FetchPcs
    <3>3. r.pc # "idle"
      BY DEF FetchPcs
    <3>4. c.i \in c.lo .. c.hi /\ r.lo <= r.hi
      BY <3>2, <1>2 DEF Fits, ActRec, Segs
    <3> HIDE DEF c
    <3> QED  BY <2>0, <3>1, <3>2, <3>3, <3>4 DEF Good, Fits, Kept, Owning, FetchPcs
  <2> QED  BY <2>0, <2>1, <2>2, <2>3
<1> QED  BY <1>1, <1>2

(* Inside Fetch only the place and the result change. *)
LEMMA FetchGood ==
    ASSUME NEW a \in Actors, NEW r \in ActRec, Fits(a, r), r.pc \in FetchPcs, NEW pc \in FetchPcs, NEW e \in Results
    PROVE  /\ Good(a, r, [r EXCEPT !.pc = pc])
           /\ Good(a, r, [r EXCEPT !.pc = pc, !.res = e])
<1>1. ASSUME NEW c, c \in {[r EXCEPT !.pc = pc], [r EXCEPT !.pc = pc, !.res = e]}
      PROVE  Good(a, r, c)
  <2>1. c \in ActRec /\ c.pc = pc /\ c.lo = r.lo /\ c.hi = r.hi /\ c.i = r.i /\ c.back = r.back
    BY <1>1 DEF ActRec, Pcs
  <2>2. pc # "idle" /\ r.pc # "idle" /\ pc \notin {"wait", "read", "reread", "ensure", "stopped"}
    BY DEF FetchPcs
  <2> QED  BY <2>1, <2>2 DEF Good, Fits, Kept
<1> QED  BY <1>1

(* One goroutine changes its own variables only. *)
LEMMA OneActor ==
    ASSUME TypeOK, NEW a \in Actors, NEW c, Good(a, act[a], c), Becomes(a, c)
    PROVE  /\ act' \in [Actors -> ActRec]
           /\ \A b \in Actors : Good(b, act[b], act'[b])
<1>1. \A b \in Actors : act'[b] = IF b = a THEN c ELSE act[b]
  BY DEF Becomes, TypeOK
<1>2. \A b \in Actors : Good(b, act[b], act[b])
  BY DEF TypeOK, Good, Kept
<1> QED  BY <1>1, <1>2 DEF Becomes, TypeOK, Good

LEMMA FetchStepGood ==
    ASSUME TypeOK, NEW a \in Actors, FetchStep(a)
    PROVE  /\ act' \in [Actors -> ActRec]
           /\ \A b \in Actors : Good(b, act[b], act'[b])
<1> DEFINE Goal == act' \in [Actors -> ActRec] /\ \A b \in Actors : Good(b, act[b], act'[b])
<1>0. \A b \in Actors : act[b] \in ActRec /\ Fits(b, act[b]) /\ Good(b, act[b], act[b]) /\ Seg(b) \in Segs /\ act[b].res \in Results
  BY DEF TypeOK, Good, Kept, Seg, ActRec
<1>a. ASSUME NEW pc \in FetchPcs, act[a].pc \in FetchPcs, Goes(a, pc)
      PROVE  Goal
  BY <1>a, <1>0, FetchGood, OneActor DEF Goes, Results
<1>b. ASSUME NEW e \in Results, act[a].pc \in FetchPcs, Done(a, e)
      PROVE  Goal
  <2>1. "resolve" \in FetchPcs
    BY DEF FetchPcs
  <2> QED  BY <1>b, <2>1, <1>0, FetchGood, OneActor DEF Done
<1>c. ASSUME NEW e \in Results, act[a].pc \in FetchPcs, Returns(a, e)
      PROVE  Goal
  BY <1>c, <1>0, ReturnedGood, OneActor DEF Returns
<1>d. \A s \in Segs : error[s] \in Results /\ prom[s].err \in Results
  BY DEF TypeOK
<1>1. CASE FetchFast(a)
  BY <1>1, <1>0, <1>a, <1>c, <1>d DEF FetchFast, At, FetchPcs, Results
<1>2. CASE Claim(a)
  BY <1>2, <1>0, <1>a, <1>c, <1>d DEF Claim, At, FetchPcs
<1>3. CASE JoinGivesUp(a)
  BY <1>3, <1>b, <1>c DEF JoinGivesUp, At, FetchPcs, Results
<1>4. CASE Mark(a)
  BY <1>4, <1>a DEF Mark, At, FetchPcs
<1>5. CASE Look(a)
  <2>1. act[a].pc \in FetchPcs /\ "await" \in FetchPcs /\ "slot" \in FetchPcs /\ "ok" \in Results
    BY <1>5 DEF Look, FetchPcs, Results
  <2>2. st[Seg(a)] \in {"empty", "fetching", "disk", "failed"}
    BY <1>0 DEF TypeOK
  <2>3. \/ Done(a, "ok") \/ Done(a, error[Seg(a)]) \/ Goes(a, "await") \/ Goes(a, "slot")
    BY <1>5, <2>2 DEF Look
  <2> QED  BY <2>1, <2>3, <1>0, <1>a, <1>b, <1>d
<1>6. CASE TakeSlot(a)
  BY <1>6, <1>a DEF TakeSlot, At, FetchPcs
<1>7. CASE SlotGivesUp(a)
  BY <1>7, <1>b DEF SlotGivesUp, At, FetchPcs, Results
<1>8. CASE DownOk(a)
  BY <1>8, <1>b DEF DownOk, At, FetchPcs, Results
<1>9. CASE DownFails(a)
  BY <1>9, <1>b DEF DownFails, At, FetchPcs, Results
<1>10. CASE Resolve(a)
  <2> DEFINE e == act[a].res
  <2>1. ASSUME NEW b \in Actors PROVE Good(b, act[b], act'[b])
    <3>1. CASE b = a
      <4>1. act'[b] = [act[b] EXCEPT !.pc = "clear"] /\ act[b].pc \in FetchPcs /\ "clear" \in FetchPcs
        BY <1>10, <3>1 DEF Resolve, At, FetchPcs
      <4>2. Good(b, act[b], [act[b] EXCEPT !.pc = "clear"])
        BY <4>1, <1>0, FetchGood, <1>d
      <4> QED  BY <4>1, <4>2
    <3>2. CASE b # a /\ At(b, "join") /\ Seg(b) = Seg(a)
      <4>1. act'[b] = Returned(act[b], e) /\ act[b].pc \in FetchPcs
        BY <1>10, <3>2 DEF Resolve, At, FetchPcs
      <4> QED  BY <4>1, <1>0, ReturnedGood
    <3>3. CASE b # a /\ ~(At(b, "join") /\ Seg(b) = Seg(a))
      <4>1. act'[b] = act[b]
        BY <1>10, <3>3 DEF Resolve
      <4> QED  BY <4>1, <1>0
    <3> QED  BY <3>1, <3>2, <3>3
  <2>2. act' = [b \in Actors |-> act'[b]]
    BY <1>10 DEF Resolve
  <2> QED  BY <2>1, <2>2 DEF Good
<1>11. CASE Clear(a)
  BY <1>11, <1>0, <1>c DEF Clear, At, FetchPcs
<1> QED  BY <1>1, <1>2, <1>3, <1>4, <1>5, <1>6, <1>7, <1>8, <1>9, <1>10, <1>11 DEF FetchStep

(* A read that has not finished keeps its range, and its place inside it. *)
LEMMA ReadRec ==
    ASSUME NEW r \in Readers, NEW b \in ActRec, Fits(r, b), NEW c \in ActRec, b.pc # "idle",
           c.lo = b.lo, c.hi = b.hi, c.pc \in {"hint", "ensure", "wait", "read", "reread", "unpin", "fetch"},
           c.pc = "fetch" => c.back # "work" /\ c.i \in b.lo .. b.hi,
           c.pc \in {"wait", "read", "reread"} => c.i \in b.lo .. b.hi,
           c.pc = "ensure" => c.i \in b.lo .. b.hi + 1
    PROVE  Good(r, b, c)
<1>1. r \notin Workers
  OBVIOUS
<1> QED  BY <1>1 DEF Good, Fits, Kept, FetchPcs

LEMMA CopiedGood ==
    ASSUME TypeOK, NEW r \in Readers, act[r].pc \in {"read", "reread"}
    PROVE  Good(r, act[r], Copied(r)) /\ Copied(r).pc \notin Owning
<1>0. act[r] \in ActRec /\ Fits(r, act[r])
  BY DEF TypeOK, Actors
<1>1. CASE act[r].i = act[r].hi
  <2> DEFINE c == [act[r] EXCEPT !.pc = "unpin", !.res = "ok"]
  <2>1. c \in ActRec /\ c.pc = "unpin" /\ c.lo = act[r].lo /\ c.hi = act[r].hi
    BY <1>0 DEF ActRec, Pcs, Results
  <2>2. Copied(r) = c
    BY <1>1 DEF Copied
  <2> HIDE DEF c
  <2> QED  BY <1>0, <2>1, <2>2, ReadRec DEF Owning
<1>2. CASE act[r].i # act[r].hi
  <2> DEFINE c == [act[r] EXCEPT !.pc = "wait", !.i = act[r].i + 1]
  <2>0. act[r].i \in act[r].lo .. act[r].hi /\ act[r].lo \in Segs /\ act[r].hi \in Segs /\ act[r].i + 1 \in Nat \ {0}
    BY <1>0 DEF Fits, ActRec
  <2>1. c \in ActRec /\ c.pc = "wait" /\ c.lo = act[r].lo /\ c.hi = act[r].hi /\ c.i = act[r].i + 1
    BY <1>0, <2>0 DEF ActRec, Pcs
  <2>2. Copied(r) = c
    BY <1>2 DEF Copied
  <2>3. c.i \in act[r].lo .. act[r].hi
    BY <2>0, <2>1, <1>2 DEF Segs
  <2> HIDE DEF c
  <2> QED  BY <1>0, <2>1, <2>2, <2>3, ReadRec DEF Owning
<1> QED  BY <1>1, <1>2

LEMMA ReadStepGood ==
    ASSUME TypeOK, NEW r \in Readers, ReadStep(r), ~Unpin(r)
    PROVE  \E c : Good(r, act[r], c) /\ c.pc \notin Owning /\ Becomes(r, c)
<1> DEFINE Goal == \E c : Good(r, act[r], c) /\ c.pc \notin Owning /\ Becomes(r, c)
           b == act[r]
<1>0. /\ b \in ActRec /\ Fits(r, b) /\ b.i \in Nat \ {0} /\ b.i + 1 \in Nat \ {0} /\ b.lo \in Nat \ {0} /\ b.hi \in Nat
      /\ Segs \subseteq Nat /\ b.lo \in Segs /\ b.hi \in Segs
  BY DEF TypeOK, Actors, ActRec, Segs
<1>u. ASSUME b.pc # "idle", NEW e \in Results, Becomes(r, [b EXCEPT !.pc = "unpin", !.res = e])
      PROVE  Goal
  <2> DEFINE c == [b EXCEPT !.pc = "unpin", !.res = e]
  <2>1. c \in ActRec /\ c.pc = "unpin" /\ c.lo = b.lo /\ c.hi = b.hi
    BY <1>0 DEF ActRec, Pcs
  <2>2. Good(r, b, c)
    BY <1>0, <1>u, <2>1, ReadRec
  <2> QED  BY <2>1, <2>2, <1>u DEF Owning
<1>f. ASSUME b.pc # "idle", NEW k \in {"ensure", "again"}, b.i \in b.lo .. b.hi,
             Becomes(r, [b EXCEPT !.pc = "fetch", !.seg = b.i, !.back = k])
      PROVE  Goal
  <2> DEFINE c == [b EXCEPT !.pc = "fetch", !.seg = b.i, !.back = k]
  <2>0. b.i \in Segs
    BY <1>0, <1>f DEF Segs
  <2>1. c \in ActRec /\ c.pc = "fetch" /\ c.lo = b.lo /\ c.hi = b.hi /\ c.i = b.i /\ c.back # "work"
    BY <1>0, <2>0 DEF ActRec, Pcs, FetchPcs
  <2>2. Good(r, b, c)
    BY <1>0, <1>f, <2>1, ReadRec
  <2> QED  BY <2>1, <2>2, <1>f DEF Owning
<1>p. ASSUME b.pc # "idle", NEW pc \in {"hint", "ensure", "wait", "read"}, NEW i \in Nat \ {0}, Becomes(r, [b EXCEPT !.pc = pc, !.i = i]),
             pc \in {"wait", "read"} => i \in b.lo .. b.hi,
             pc = "ensure" => i \in b.lo .. b.hi + 1
      PROVE  Goal
  <2> DEFINE c == [b EXCEPT !.pc = pc, !.i = i]
  <2>1. c \in ActRec /\ c.pc = pc /\ c.lo = b.lo /\ c.hi = b.hi /\ c.i = i
    BY <1>0 DEF ActRec, Pcs
  <2>2. Good(r, b, c)
    BY <1>0, <1>p, <2>1, ReadRec
  <2> QED  BY <2>1, <2>2, <1>p DEF Owning
<1>e. b = [b EXCEPT !.pc = b.pc] /\ b = [b EXCEPT !.i = b.i]
  BY <1>0 DEF ActRec
<1>1. CASE Hint(r)
  <2>1. b.pc = "hint" /\ Becomes(r, [b EXCEPT !.i = b.i + 1])
    BY <1>1 DEF Hint, At
  <2>2. [b EXCEPT !.i = b.i + 1] = [b EXCEPT !.pc = "hint", !.i = b.i + 1]
    BY <2>1, <1>0 DEF ActRec
  <2> QED  BY <2>1, <2>2, <1>0, <1>p
<1>2. CASE HintPanics(r)
  BY <1>2, <1>u DEF HintPanics, At, Results
<1>3. CASE Hinted(r)
  <2>1. b.pc = "hint" /\ Becomes(r, [b EXCEPT !.pc = "ensure", !.i = b.lo])
    BY <1>3 DEF Hinted, At
  <2>2. b.lo \in b.lo .. b.hi + 1
    BY <1>0 DEF Fits
  <2> QED  BY <2>1, <2>2, <1>0, <1>p
<1>4. CASE Ensure(r)
  <2>0. b.pc = "ensure" /\ b.i \in b.lo .. b.hi + 1 /\ b.lo <= b.hi
    BY <1>4, <1>0 DEF Ensure, At, Fits
  <2>1. CASE b.i > b.hi
    <3>1. Becomes(r, [b EXCEPT !.pc = "wait", !.i = b.lo])
      BY <1>4, <2>1, <1>0 DEF Ensure
    <3>2. b.lo \in b.lo .. b.hi
      BY <1>0, <2>0
    <3> QED  BY <3>1, <3>2, <2>0, <1>0, <1>p
  <2>2. CASE b.i <= b.hi /\ st[b.i] = "disk"
    <3>1. Becomes(r, [b EXCEPT !.i = b.i + 1])
      BY <1>4, <2>2, <1>0 DEF Ensure
    <3>2. b.i + 1 \in b.lo .. b.hi + 1
      BY <1>0, <2>0, <2>2
    <3>3. [b EXCEPT !.i = b.i + 1] = [b EXCEPT !.pc = "ensure", !.i = b.i + 1]
      BY <2>0, <1>0 DEF ActRec
    <3> QED  BY <3>1, <3>2, <3>3, <2>0, <1>0, <1>p
  <2>3. CASE b.i <= b.hi /\ st[b.i] # "disk"
    <3>1. Becomes(r, [b EXCEPT !.pc = "fetch", !.seg = b.i, !.back = "ensure"])
      BY <1>4, <2>3, <1>0 DEF Ensure
    <3>2. b.i \in b.lo .. b.hi
      BY <1>0, <2>0, <2>3
    <3> QED  BY <3>1, <3>2, <2>0, <1>f
  <2> QED  BY <2>1, <2>2, <2>3, <1>0
<1>5. CASE Wait(r)
  <2>0. b.pc = "wait" /\ b.i \in b.lo .. b.hi
    BY <1>5, <1>0 DEF Wait, At, Fits
  <2>1. CASE Goes(r, "read")
    <3>1. [b EXCEPT !.pc = "read"] = [b EXCEPT !.pc = "read", !.i = b.i]
      BY <1>0 DEF ActRec
    <3> QED  BY <3>1, <2>0, <2>1, <1>0, <1>p DEF Goes
  <2>2. CASE ~Goes(r, "read")
    BY <1>5, <2>2, <2>0, <1>u DEF Wait, Results
  <2> QED  BY <2>1, <2>2
<1>6. CASE Read(r)
  <2>0. b.pc = "read" /\ b.i \in b.lo .. b.hi
    BY <1>6, <1>0 DEF Read, At, Fits
  <2>1. CASE Readable(b.i)
    BY <1>6, <2>1, <2>0, CopiedGood DEF Read
  <2>2. CASE ~Readable(b.i)
    BY <1>6, <2>2, <2>0, <1>f DEF Read
  <2> QED  BY <2>1, <2>2
<1>7. CASE Reread(r)
  <2>0. b.pc = "reread"
    BY <1>7 DEF Reread, At
  <2>1. CASE Readable(b.i)
    BY <1>7, <2>1, <2>0, CopiedGood DEF Reread
  <2>2. CASE ~Readable(b.i)
    BY <1>7, <2>2, <2>0, <1>u DEF Reread, Results
  <2> QED  BY <2>1, <2>2
<1> QED  BY <1>1, <1>2, <1>3, <1>4, <1>5, <1>6, <1>7 DEF ReadStep

-----------------------------------------------------------------------------
(* Type correctness. *)

(* Whose goroutines move and whose pins: one of five. *)
LEMMA ActGood ==
    ASSUME TypeOK, [Next]_vars
    PROVE  act' \in [Actors -> ActRec] /\ \A a \in Actors : Fits(a, act'[a])
<1> DEFINE Goal == act' \in [Actors -> ActRec] /\ \A a \in Actors : Fits(a, act'[a])
<1>0. Readers \subseteq Actors /\ Workers \subseteq Actors
  BY DEF Actors
<1>o. \A a \in Actors : act[a] \in ActRec /\ Fits(a, act[a])
  BY DEF TypeOK
<1>c. ASSUME NEW a \in Actors, NEW c \in ActRec, Fits(a, c), Becomes(a, c)
      PROVE  Goal
  BY <1>c DEF TypeOK, Becomes
<1>1. ASSUME NEW a \in Actors, FetchStep(a) PROVE Goal
  BY <1>1, FetchStepGood DEF Good
<1>2. ASSUME NEW r \in Readers, ReadStep(r) PROVE Goal
  <2>1. CASE Unpin(r)
    <3> DEFINE c == [Resting EXCEPT !.res = act[r].res]
    <3>1. c \in ActRec /\ c.pc = "idle" /\ c.lo = 1 /\ c.hi = 1
      BY <1>0, <1>o, RestingType DEF Resting, ActRec
    <3>2. Fits(r, c)
      BY <3>1 DEF Fits, FetchPcs
    <3> QED  BY <2>1, <3>1, <3>2, <1>c, <1>0 DEF Unpin
  <2>2. CASE ~Unpin(r)
    BY <1>2, <2>2, <1>0, <1>c, ReadStepGood DEF Good
  <2> QED  BY <2>1, <2>2
<1>3. ASSUME NEW r \in Readers, NEW lo \in Segs, NEW hi \in Segs, ReadBegin(r, lo, hi) PROVE Goal
  <2> DEFINE c == [Resting EXCEPT !.pc = "hint", !.lo = lo, !.hi = hi, !.i = hi + 1, !.back = "ensure"]
  <2>0. hi + 1 \in Nat \ {0} /\ lo <= hi
    BY <1>3 DEF Segs, ReadBegin
  <2>1. c \in ActRec /\ c.pc = "hint" /\ c.lo = lo /\ c.hi = hi
    BY <2>0, RestingType DEF Resting, ActRec, Pcs
  <2>2. Fits(r, c)
    BY <2>0, <2>1 DEF Fits, FetchPcs
  <2> QED  BY <1>3, <2>1, <2>2, <1>c, <1>0 DEF ReadBegin
<1>4. ASSUME NEW w \in Workers, WorkerTakes(w) PROVE Goal
  <2> DEFINE c == [Resting EXCEPT !.pc = "fetch", !.seg = Received]
  <2>0. Received \in Segs
    BY DEF Received, TypeOK, Segs
  <2>1. c \in ActRec /\ c.pc = "fetch" /\ c.lo = 1 /\ c.hi = 1 /\ c.back = "work"
    BY <2>0, RestingType DEF Resting, ActRec, Pcs, FetchPcs
  <2>2. Fits(w, c)
    BY <2>1, <1>0 DEF Fits, FetchPcs
  <2>3. CASE Becomes(w, c)
    BY <2>3, <2>1, <2>2, <1>c, <1>0
  <2>4. CASE UNCHANGED act
    BY <2>4 DEF TypeOK
  <2> QED  BY <1>4, <2>3, <2>4 DEF WorkerTakes
<1>5. ASSUME NEW w \in Workers, WorkerStops(w) PROVE Goal
  <2> DEFINE c == [act[w] EXCEPT !.pc = "stopped"]
  <2>1. c \in ActRec /\ c.pc = "stopped" /\ c.lo = act[w].lo /\ c.hi = act[w].hi /\ c.back = act[w].back
    BY <1>0, <1>o DEF ActRec, Pcs
  <2>2. Fits(w, c)
    BY <2>1, <1>0, <1>o DEF Fits, FetchPcs
  <2> QED  BY <1>5, <2>1, <2>2, <1>c, <1>0 DEF WorkerStops, Goes
<1>6. CASE EvictStep \/ CloseCancels \/ CloseStep
  <2>1. UNCHANGED act
    BY <1>6 DEF EvictStep, EvictWakes, EvictFinds, EvictChecks, EvictSwaps, EvictDrops, EvictStops,
                CloseCancels, CloseStep, CloseChannel, CloseFile
  <2> QED  BY <2>1 DEF TypeOK
<1>7. CASE UNCHANGED vars
  BY <1>7 DEF TypeOK, vars
<1> QED  BY <1>1, <1>2, <1>3, <1>4, <1>5, <1>6, <1>7 DEF Next

(* Every other variable keeps its type. *)
CacheTypes ==
    /\ st \in [Segs -> {"empty", "fetching", "disk", "failed"}] /\ error \in [Segs -> Results]
    /\ onDisk \in SUBSET Segs /\ pins \in [Segs -> Int] /\ used \in Int
    /\ prom \in [Segs -> [owner : Actors \cup {Nobody}, done : BOOLEAN, err : Results]]
    /\ queue \in Seq(Segs)
    /\ ev \in [pc : {"idle", "find", "check", "swap", "drop", "stopped"}, seg : Segs]
    /\ signal \in BOOLEAN /\ stage \in {"open", "cancelled", "shut", "closed"}

(* The steps that change nothing but a goroutine's own variables. *)
Local(a) == FetchFast(a) \/ JoinGivesUp(a) \/ Look(a) \/ TakeSlot(a)
ReadLocal(r) == HintPanics(r) \/ Hinted(r) \/ Ensure(r) \/ Wait(r) \/ Read(r) \/ Reread(r)

LEMMA LocalFrame ==
    ASSUME NEW a, Local(a) \/ ReadLocal(a) \/ WorkerStops(a)
    PROVE  UNCHANGED <<st, error, onDisk, used, pins, prom, queue, ev, signal, stage>>
BY DEF Local, ReadLocal, cache, FetchFast, JoinGivesUp, Look, TakeSlot, HintPanics, Hinted, Ensure, Wait, Read, Reread, WorkerStops

LEMMA SegType ==
    ASSUME TypeOK, NEW a \in Actors
    PROVE  Seg(a) \in Segs /\ act[a] \in ActRec
BY DEF TypeOK, ActRec, Seg

LEMMA PinnedType ==
    ASSUME TypeOK, NEW S, NEW d \in Int
    PROVE  Pinned(S, d) \in [Segs -> Int]
BY DEF TypeOK, Pinned

LEMMA CacheStep ==
    ASSUME TypeOK, [Next]_vars
    PROVE  CacheTypes'
<1> USE DEF CacheTypes
<1>0. CacheTypes /\ Readers \subseteq Actors /\ Workers \subseteq Actors
  BY DEF TypeOK, Actors
<1>f. ASSUME NEW a, Local(a) \/ ReadLocal(a) \/ WorkerStops(a) PROVE CacheTypes'
  BY <1>0, <1>f, LocalFrame
<1>1. ASSUME NEW a \in Actors, FetchStep(a) PROVE CacheTypes'
  <2>0. Seg(a) \in Segs /\ act[a].res \in Results
    BY SegType DEF ActRec
  <2>1. CASE Local(a)
    BY <2>1, <1>f
  <2>2. CASE Claim(a)
    <3>1. [owner |-> a, done |-> FALSE, err |-> "ok"] \in [owner : Actors \cup {Nobody}, done : BOOLEAN, err : Results]
      BY DEF Results
    <3>2. prom' \in [Segs -> [owner : Actors \cup {Nobody}, done : BOOLEAN, err : Results]]
      BY <1>0, <2>2, <3>1 DEF Claim
    <3> QED  BY <1>0, <2>2, <3>2 DEF Claim, cache
  <2>3. CASE Mark(a)
    BY <1>0, <2>3 DEF Mark
  <2>4. CASE SlotGivesUp(a)
    BY <1>0, <2>4 DEF SlotGivesUp, Results
  <2>5. CASE DownOk(a)
    BY <1>0, <2>0, <2>5 DEF DownOk
  <2>6. CASE DownFails(a)
    BY ZenonT(120), <1>0, <2>6 DEF DownFails, Results
  <2>7. CASE Resolve(a)
    BY ZenonT(120), <1>0, <2>0, <2>7 DEF Resolve, cache
  <2>8. CASE Clear(a)
    BY <1>0, <2>0, <2>8 DEF Clear, cache, NoPromise, Results
  <2> QED  BY <1>1, <2>1, <2>2, <2>3, <2>4, <2>5, <2>6, <2>7, <2>8 DEF FetchStep, Local
<1>2. ASSUME NEW r \in Readers, ReadStep(r) PROVE CacheTypes'
  <2>1. CASE ReadLocal(r)
    BY <2>1, <1>f
  <2>2. CASE Hint(r)
    <3>1. act[r].i \in Nat \ {0}
      BY <1>0, SegType DEF ActRec
    <3>a. act[r].i \in Segs
      BY <2>2, <3>1 DEF Hint, Segs
    <3>b. queue' = Append(queue, act[r].i) \/ queue' = queue
      BY <2>2 DEF Hint
    <3>2. queue' \in Seq(Segs)
      BY <1>0, <3>a, <3>b
    <3> QED  BY <1>0, <2>2, <3>2 DEF Hint, cache
  <2>3. CASE Unpin(r)
    BY <1>0, <2>3, PinnedType DEF Unpin, cache
  <2> QED  BY <1>2, <2>1, <2>2, <2>3 DEF ReadStep, ReadLocal
<1>3. ASSUME NEW r \in Readers, NEW lo \in Segs, NEW hi \in Segs, ReadBegin(r, lo, hi) PROVE CacheTypes'
  BY <1>0, <1>3, PinnedType DEF ReadBegin, cache
<1>4. ASSUME NEW w \in Workers, WorkerTakes(w) PROVE CacheTypes'
  <2>1. queue' \in Seq(Segs)
    BY <1>0, <1>4 DEF WorkerTakes
  <2> QED  BY <1>0, <1>4, <2>1 DEF WorkerTakes, cache
<1>5. ASSUME NEW w \in Workers, WorkerStops(w) PROVE CacheTypes'
  BY <1>5, <1>f
<1>6. CASE EvictStep
  <2>1. CASE EvictWakes \/ EvictStops
    BY <1>0, <2>1 DEF EvictWakes, EvictStops, cache
  <2>2. CASE EvictFinds
    <3>1. ev' \in [pc : {"idle", "find", "check", "swap", "drop", "stopped"}, seg : Segs]
      <4>1. ASSUME NEW s \in Segs PROVE [pc |-> "check", seg |-> s] \in [pc : {"idle", "find", "check", "swap", "drop", "stopped"}, seg : Segs]
        OBVIOUS
      <4>2. [ev EXCEPT !.pc = "idle"] \in [pc : {"idle", "find", "check", "swap", "drop", "stopped"}, seg : Segs]
        BY <1>0
      <4>3. \/ ev' = [ev EXCEPT !.pc = "idle"] 
            \/ \E s \in Segs : ev' = [pc |-> "check", seg |-> s]
        BY <2>2 DEF EvictFinds, Evictable
      <4> QED  BY <4>1, <4>2, <4>3
    <3> QED  BY <1>0, <2>2, <3>1 DEF EvictFinds, cache
  <2>3. CASE EvictChecks
    BY <1>0, <2>3 DEF EvictChecks, cache
  <2>4. CASE EvictSwaps
    BY <1>0, <2>4 DEF EvictSwaps, cache
  <2>5. CASE EvictDrops
    BY SMTT(30), <1>0, <2>5 DEF EvictDrops, cache
  <2> QED  BY <1>6, <2>1, <2>2, <2>3, <2>4, <2>5 DEF EvictStep
<1>7. CASE CloseCancels \/ CloseStep
  BY <1>0, <1>7 DEF CloseCancels, CloseStep, CloseChannel, CloseFile, cache
<1>8. CASE UNCHANGED vars
  BY <1>0, <1>8 DEF vars
<1> QED  BY <1>1, <1>2, <1>3, <1>4, <1>5, <1>6, <1>7, <1>8 DEF Next

LEMMA TypeStep == TypeOK /\ [Next]_vars => TypeOK'
BY ActGood, CacheStep DEF TypeOK, CacheTypes

-----------------------------------------------------------------------------
(* The promise of a segment belongs to the one goroutine that is fetching it. *)

LEMMA OneOwning ==
    ASSUME OwnersAgree, NEW a \in Actors, NEW b \in Actors, act[a].pc \in Owning, act[b].pc \in Owning, Seg(a) = Seg(b)
    PROVE  a = b
BY DEF OwnersAgree

(* A step of Fetch moves its own goroutine and wakes those that joined. *)
LEMMA FetchActs ==
    ASSUME TypeOK, NEW a \in Actors, FetchStep(a)
    PROVE  /\ \A b \in Actors \ {a} : act'[b] = act[b] \/ (act[b].pc = "join" /\ act'[b].pc \notin Owning)
           /\ act'[a].pc \in Owning => act'[a].seg = act[a].seg
           /\ act'[a].pc \in Owning /\ ~Claim(a) => act[a].pc \in Owning
           /\ Claim(a) /\ UNCHANGED prom => act'[a].pc \notin Owning
<1> DEFINE Goal == /\ \A b \in Actors \ {a} : act'[b] = act[b] \/ (act[b].pc = "join" /\ act'[b].pc \notin Owning)
                   /\ act'[a].pc \in Owning => act'[a].seg = act[a].seg
                   /\ act'[a].pc \in Owning /\ ~Claim(a) => act[a].pc \in Owning
                   /\ Claim(a) /\ UNCHANGED prom => act'[a].pc \notin Owning
<1>0. act \in [Actors -> ActRec] /\ \A b \in Actors : act[b] \in ActRec /\ Fits(b, act[b]) /\ Seg(b) \in Segs /\ act[b].res \in Results
  BY SegType DEF TypeOK, ActRec
<1>e. \A s \in Segs : error[s] \in Results /\ prom[s].err \in Results
  BY DEF TypeOK
<1>r. ASSUME NEW b \in Actors, act[b].pc \in FetchPcs, NEW e \in Results
      PROVE  Returned(act[b], e).pc \notin Owning
  BY <1>r, <1>0, ReturnedGood
<1>b. ASSUME NEW c, Becomes(a, c) PROVE act'[a] = c /\ \A b \in Actors \ {a} : act'[b] = act[b]
  BY <1>b, <1>0 DEF Becomes
<1>g. ASSUME NEW pc, Goes(a, pc)
      PROVE  act'[a].pc = pc /\ act'[a].seg = act[a].seg /\ \A b \in Actors \ {a} : act'[b] = act[b]
  BY <1>g, <1>b, <1>0 DEF Goes, ActRec
<1>d. ASSUME NEW e, Done(a, e)
      PROVE  act'[a].pc = "resolve" /\ act'[a].seg = act[a].seg /\ \A b \in Actors \ {a} : act'[b] = act[b]
  <2>1. act'[a] = [act[a] EXCEPT !.pc = "resolve", !.res = e] /\ \A b \in Actors \ {a} : act'[b] = act[b]
    BY <1>d, <1>b DEF Done
  <2>2. act[a] \in ActRec
    BY <1>0
  <2> QED  BY <2>1, <2>2 DEF ActRec
<1>t. ASSUME NEW e \in Results, act[a].pc \in FetchPcs, Returns(a, e)
      PROVE  act'[a].pc \notin Owning /\ \A b \in Actors \ {a} : act'[b] = act[b]
  BY <1>t, <1>b, <1>r DEF Returns
<1>1. CASE FetchFast(a)
  BY <1>1, <1>0, <1>e, <1>g, <1>t DEF FetchFast, Claim, At, Owning, FetchPcs, Results
<1>2. CASE Claim(a)
  <2>0. At(a, "claim") /\ act[a].pc \in FetchPcs
    BY <1>2 DEF Claim, At, FetchPcs
  <2>1. CASE prom[Seg(a)] = NoPromise
    <3>1. prom'[Seg(a)] # prom[Seg(a)]
      <4>1. prom'[Seg(a)].owner = a /\ prom[Seg(a)].owner = Nobody
        BY <1>2, <2>1, <1>0 DEF Claim, NoPromise, TypeOK
      <4> QED  BY <4>1
    <3>2. Goes(a, "mark")
      BY <1>2, <2>1 DEF Claim
    <3> QED  BY <1>2, <3>1, <3>2, <1>g DEF Owning
  <2>2. CASE prom[Seg(a)] # NoPromise
    <3>1. Returns(a, prom[Seg(a)].err) \/ Goes(a, "join")
      BY <1>2, <2>2 DEF Claim
    <3> QED  BY <1>2, <2>0, <3>1, <1>0, <1>e, <1>g, <1>t DEF Owning
  <2> QED  BY <2>1, <2>2
<1>3. CASE JoinGivesUp(a)
  <2>1. \E e \in Results : \/ At(a, "join") /\ Returns(a, e)
                           \/ At(a, "await") /\ Done(a, e)
    BY <1>3 DEF JoinGivesUp, At, Results
  <2> QED  BY <1>3, <2>1, <1>d, <1>t DEF JoinGivesUp, Claim, At, Owning, FetchPcs
<1>4. CASE Mark(a)
  BY <1>4, <1>g DEF Mark, Claim, At, Owning
<1>5. CASE Look(a)
  <2>1. act[a].pc \in {"look", "await"} /\ st[Seg(a)] \in {"empty", "fetching", "disk", "failed"}
    BY <1>5, <1>0 DEF Look, TypeOK
  <2>2. (\E e : Done(a, e)) \/ (\E pc \in {"slot", "await"} : Goes(a, pc))
    BY <1>5, <2>1 DEF Look
  <2> QED  BY <2>1, <2>2, <1>d, <1>g DEF Claim, At, Owning
<1>6. CASE TakeSlot(a)
  BY <1>6, <1>g DEF TakeSlot, Claim, At, Owning
<1>7. CASE SlotGivesUp(a)
  BY <1>7, <1>d DEF SlotGivesUp, Claim, At, Owning
<1>8. CASE DownOk(a)
  BY <1>8, <1>d DEF DownOk, Claim, At, Owning
<1>9. CASE DownFails(a)
  BY <1>9, <1>d DEF DownFails, Claim, At, Owning
<1>10. CASE Resolve(a)
  <2>a. act'[a] = [act[a] EXCEPT !.pc = "clear"]
    BY <1>10 DEF Resolve, At
  <2>1. act'[a] = [act[a] EXCEPT !.pc = "clear"] /\ At(a, "resolve")
    BY <1>10, <2>a DEF Resolve
  <2>2. act'[a].seg = act[a].seg
    BY <2>1, <1>0 DEF ActRec
  <2>3. ASSUME NEW b \in Actors \ {a} PROVE act'[b] = act[b] \/ (act[b].pc = "join" /\ act'[b].pc \notin Owning)
    <3>1. CASE At(b, "join") /\ Seg(b) = Seg(a)
      <4>1. act'[b] = Returned(act[b], act[a].res) /\ act[b].pc \in FetchPcs
        BY <1>10, <3>1 DEF Resolve, At, FetchPcs
      <4> QED  BY <4>1, <1>r, <1>0, <3>1 DEF At
    <3>2. CASE ~(At(b, "join") /\ Seg(b) = Seg(a))
      BY <1>10, <3>2 DEF Resolve
    <3> QED  BY <3>1, <3>2
  <2> QED  BY <2>1, <2>2, <2>3 DEF Claim, At, Owning
<1>11. CASE Clear(a)
  BY <1>11, <1>0, <1>t DEF Clear, Claim, At, Owning, FetchPcs
<1> QED  BY <1>1, <1>2, <1>3, <1>4, <1>5, <1>6, <1>7, <1>8, <1>9, <1>10, <1>11 DEF FetchStep

(* Every other step leaves the promises alone, and the goroutines that hold one. *)
LEMMA OtherSteps ==
    ASSUME TypeOK, [Next]_vars, \A a \in Actors : ~FetchStep(a)
    PROVE  /\ UNCHANGED prom
           /\ \A b \in Actors : act'[b] = act[b] \/ (act[b].pc \notin Owning /\ act'[b].pc \notin Owning)
           /\ UNCHANGED st \/ EvictSwaps
<1> DEFINE Goal == /\ UNCHANGED prom
                   /\ \A b \in Actors : act'[b] = act[b] \/ (act[b].pc \notin Owning /\ act'[b].pc \notin Owning)
                   /\ UNCHANGED st \/ EvictSwaps
<1>0. Readers \subseteq Actors /\ Workers \subseteq Actors /\ act \in [Actors -> ActRec]
  BY DEF Actors, TypeOK
<1>b. ASSUME NEW a \in Actors, NEW c, Becomes(a, c), act[a].pc \notin Owning, c.pc \notin Owning
      PROVE  \A b \in Actors : act'[b] = act[b] \/ (act[b].pc \notin Owning /\ act'[b].pc \notin Owning)
  BY <1>b, <1>0 DEF Becomes
<1>1. ASSUME NEW r \in Readers, ReadStep(r) PROVE Goal
  <2>1. act[r].pc \notin Owning
    BY <1>1 DEF ReadStep, Hint, HintPanics, Hinted, Ensure, Wait, Read, Reread, Unpin, At, Owning
  <2>2. UNCHANGED <<prom, st>>
    BY <1>1 DEF ReadStep, Hint, HintPanics, Hinted, Ensure, Wait, Read, Reread, Unpin, cache
  <2>3. \E c : Becomes(r, c) /\ c.pc \notin Owning
    <3>1. CASE Unpin(r)
      <4> DEFINE c == [Resting EXCEPT !.res = act[r].res]
      <4>1. c.pc = "idle" /\ Becomes(r, c)
        BY <3>1 DEF Resting, Unpin
      <4> QED  BY <4>1 DEF Owning
    <3>2. CASE ~Unpin(r)
      BY <1>1, <3>2, ReadStepGood
    <3> QED  BY <3>1, <3>2
  <2> QED  BY <2>1, <2>2, <2>3, <1>0, <1>b
<1>2. ASSUME NEW r \in Readers, NEW lo \in Segs, NEW hi \in Segs, ReadBegin(r, lo, hi) PROVE Goal
  <2> DEFINE c == [Resting EXCEPT !.pc = "hint", !.lo = lo, !.hi = hi, !.i = hi + 1, !.back = "ensure"]
  <2>1. c.pc = "hint" /\ Becomes(r, c) /\ act[r].pc = "idle"
    BY <1>2 DEF Resting, ReadBegin, At
  <2>2. \A b \in Actors : act'[b] = act[b] \/ (act[b].pc \notin Owning /\ act'[b].pc \notin Owning)
    BY <2>1, <1>0, <1>b DEF Owning
  <2> QED  BY <1>2, <2>2 DEF ReadBegin, cache
<1>3. ASSUME NEW w \in Workers, WorkerTakes(w) PROVE Goal
  <2> DEFINE c == [Resting EXCEPT !.pc = "fetch", !.seg = Received]
  <2>1. c.pc = "fetch" /\ act[w].pc = "idle"
    BY <1>3 DEF Resting, WorkerTakes, At
  <2>2. Becomes(w, c) \/ UNCHANGED act
    BY <1>3 DEF WorkerTakes
  <2>3. \A b \in Actors : act'[b] = act[b] \/ (act[b].pc \notin Owning /\ act'[b].pc \notin Owning)
    BY <2>1, <2>2, <1>0, <1>b DEF Owning
  <2> QED  BY <1>3, <2>3 DEF WorkerTakes, cache
<1>4. ASSUME NEW w \in Workers, WorkerStops(w) PROVE Goal
  <2> DEFINE c == [act[w] EXCEPT !.pc = "stopped"]
  <2>1. c.pc = "stopped" /\ Becomes(w, c) /\ act[w].pc = "idle"
    BY <1>4, <1>0 DEF WorkerStops, Goes, At, ActRec
  <2>2. \A b \in Actors : act'[b] = act[b] \/ (act[b].pc \notin Owning /\ act'[b].pc \notin Owning)
    BY <2>1, <1>0, <1>b DEF Owning
  <2> QED  BY <1>4, <2>2 DEF WorkerStops, cache
<1>5. CASE EvictStep
  BY <1>5 DEF EvictStep, EvictWakes, EvictFinds, EvictChecks, EvictSwaps, EvictDrops, EvictStops, cache
<1>6. CASE CloseCancels \/ CloseStep \/ UNCHANGED vars
  BY <1>6 DEF CloseCancels, CloseStep, CloseChannel, CloseFile, cache, vars
<1> QED  BY <1>1, <1>2, <1>3, <1>4, <1>5, <1>6 DEF Next

LEMMA OwnersStep == TypeOK /\ OwnersAgree /\ [Next]_vars => OwnersAgree'
<1> SUFFICES ASSUME TypeOK, OwnersAgree, [Next]_vars, NEW b \in Actors, act'[b].pc \in Owning
             PROVE  prom'[act'[b].seg].owner = b
  BY DEF OwnersAgree, Seg
<1>0. prom \in [Segs -> [owner : Actors \cup {Nobody}, done : BOOLEAN, err : Results]] /\ act[b] \in ActRec /\ act[b].seg \in Segs
  BY DEF TypeOK, ActRec
<1>1. ASSUME NEW a \in Actors, FetchStep(a) PROVE prom'[act'[b].seg].owner = b
  <2>0. Seg(a) \in Segs
    BY SegType
  <2>1. CASE b = a
    <3>1. act'[b].seg = Seg(a)
      BY <2>1, <1>1, FetchActs DEF Seg
    <3>2. CASE Claim(a)
      <4>1. prom' # prom
        BY <2>1, <1>1, <3>2, FetchActs
      <4>2. prom' = [prom EXCEPT ![Seg(a)] = [owner |-> a, done |-> FALSE, err |-> "ok"]]
        BY <3>2, <4>1 DEF Claim
      <4> QED  BY <2>0, <2>1, <3>1, <4>2, <1>0
    <3>3. CASE Resolve(a)
      <4>1. act[a].pc \in Owning /\ prom[Seg(a)].owner = a
        BY <3>3 DEF Resolve, At, Owning, OwnersAgree
      <4>2. prom' = [prom EXCEPT ![Seg(a)].done = TRUE, ![Seg(a)].err = act[a].res]
        BY <3>3 DEF Resolve
      <4>3. prom'[Seg(a)].owner = prom[Seg(a)].owner
        BY <4>2, <2>0, <1>0
      <4> QED  BY <2>1, <3>1, <4>1, <4>3
    <3>4. CASE Clear(a)
      <4>1. Returns(a, act[a].res) /\ act[a].pc \in FetchPcs /\ act[a].res \in Results /\ Fits(a, act[a])
        BY <3>4, <1>0, <2>1 DEF Clear, At, FetchPcs, ActRec, TypeOK
      <4>2. act'[a] = Returned(act[a], act[a].res)
        BY <4>1 DEF Returns, Becomes, TypeOK
      <4>3. act'[a].pc \notin Owning
        BY <4>1, <4>2, <1>0, <2>1, ReturnedGood
      <4> QED  BY <4>3, <2>1
    <3>5. CASE ~Claim(a) /\ ~Resolve(a) /\ ~Clear(a)
      <4>1. act[a].pc \in Owning /\ prom[Seg(a)].owner = a
        BY <1>1, <2>1, <3>5, FetchActs DEF OwnersAgree
      <4>2. UNCHANGED prom
        BY <1>1, <3>5 DEF FetchStep, FetchFast, JoinGivesUp, Mark, Look, TakeSlot, SlotGivesUp, DownOk, DownFails
      <4> QED  BY <2>1, <3>1, <4>1, <4>2
    <3> QED  BY <3>2, <3>3, <3>4, <3>5
  <2>2. CASE b # a
    <3>1. act'[b] = act[b]
      BY <2>2, <1>1, FetchActs
    <3>2. prom[Seg(b)].owner = b /\ act'[b].seg = Seg(b) /\ Seg(b) \in Segs
      BY <3>1, <1>0 DEF OwnersAgree, Seg
    <3>3. CASE Claim(a)
      <4>1. Seg(b) = Seg(a) => prom[Seg(a)] # NoPromise
        BY <3>2 DEF NoPromise
      <4>2. Seg(b) = Seg(a) => UNCHANGED prom
        BY <3>3, <4>1 DEF Claim
      <4>3. prom' = prom \/ prom' = [prom EXCEPT ![Seg(a)] = [owner |-> a, done |-> FALSE, err |-> "ok"]]
        BY <3>3 DEF Claim
      <4> QED  BY <3>2, <4>2, <4>3, <1>0
    <3>4. CASE Resolve(a)
      <4>2. prom' = [prom EXCEPT ![Seg(a)].done = TRUE, ![Seg(a)].err = act[a].res]
        BY <3>4 DEF Resolve
      <4>3. prom'[Seg(b)].owner = prom[Seg(b)].owner
        BY <4>2, <2>0, <1>0, <3>2
      <4> QED  BY <3>2, <4>3
    <3>5. CASE Clear(a)
      <4>1. act[a].pc \in Owning
        BY <3>5 DEF Clear, At, Owning
      <4>2. Seg(a) # Seg(b)
        BY <4>1, <3>1, <2>2, OneOwning
      <4> QED  BY <3>2, <4>2, <3>5, <1>0 DEF Clear
    <3>6. CASE ~Claim(a) /\ ~Resolve(a) /\ ~Clear(a)
      <4>2. UNCHANGED prom
        BY <1>1, <3>6 DEF FetchStep, FetchFast, JoinGivesUp, Mark, Look, TakeSlot, SlotGivesUp, DownOk, DownFails
      <4> QED  BY <3>2, <4>2
    <3> QED  BY <3>3, <3>4, <3>5, <3>6
  <2> QED  BY <2>1, <2>2
<1>2. CASE \A a \in Actors : ~FetchStep(a)
  <2>1. UNCHANGED prom /\ act'[b] = act[b]
    BY <1>2, OtherSteps
  <2> QED  BY <2>1 DEF OwnersAgree, Seg
<1> QED  BY <1>1, <1>2

-----------------------------------------------------------------------------
(* One download of a segment, and nothing waits for one nobody makes. *)

LEMMA FetchesStep == TypeOK /\ OwnersAgree /\ FetchesAgree /\ [Next]_vars => FetchesAgree'
<1> SUFFICES ASSUME TypeOK, OwnersAgree, FetchesAgree, [Next]_vars PROVE FetchesAgree'
  OBVIOUS
<1> DEFINE Down == {"slot", "down"}
           Stays(b) == act'[b] = act[b] \/ (act[b].pc \notin Owning /\ act'[b].pc \notin Owning)
<1>0. /\ st \in [Segs -> {"empty", "fetching", "disk", "failed"}] /\ act \in [Actors -> ActRec]
      /\ \A b \in Actors : act[b] \in ActRec /\ Seg(b) \in Segs
      /\ Down \subseteq Owning
  BY SegType DEF TypeOK, Owning
<1>g. ASSUME NEW a \in Actors, NEW pc, Goes(a, pc)
      PROVE  act'[a].pc = pc /\ act'[a].seg = Seg(a)
  BY <1>g, <1>0 DEF Goes, Becomes, ActRec, Seg
<1>d. ASSUME NEW a \in Actors, NEW e, Done(a, e)
      PROVE  act'[a].pc = "resolve"
  <2>1. act'[a] = [act[a] EXCEPT !.pc = "resolve", !.res = e]
    BY <1>d, <1>0 DEF Done, Becomes
  <2>2. act[a] \in ActRec
    BY <1>0
  <2> QED  BY <2>1, <2>2 DEF ActRec
<1>k. ASSUME \A b \in Actors : Stays(b),
             UNCHANGED st \/ \E s \in Segs : st[s] = "disk" /\ st' = [st EXCEPT ![s] = "empty"]
      PROVE  FetchesAgree'
  <2>1. \A b \in Actors : act[b].pc \in Down \/ act'[b].pc \in Down => act'[b] = act[b]
    BY <1>k, <1>0
  <2>2. ASSUME NEW b \in Actors, act'[b].pc \in Down PROVE st'[act'[b].seg] \in {"fetching", "empty"}
    BY <2>1, <2>2, <1>k, <1>0 DEF FetchesAgree, Seg
  <2>3. ASSUME NEW s \in Segs, st'[s] = "fetching" PROVE \E b \in Actors : act'[b].pc \in Down /\ act'[b].seg = s
    BY <2>1, <2>3, <1>k, <1>0 DEF FetchesAgree, Seg
  <2> QED  BY <2>2, <2>3 DEF FetchesAgree, Seg
(* A step of the one goroutine that works on s: v is what becomes of the state of s. *)
<1>w. ASSUME NEW a \in Actors, \A b \in Actors \ {a} : Stays(b), act[a].pc \in Owning,
             NEW v \in {"empty", "fetching", "disk", "failed"}, st' = [st EXCEPT ![Seg(a)] = v],
             act'[a].pc \in Down => act'[a].seg = Seg(a) /\ v \in {"fetching", "empty"},
             v = "fetching" => act'[a].pc \in Down /\ act'[a].seg = Seg(a)
      PROVE  FetchesAgree'
  <2>1. ASSUME NEW b \in Actors \ {a}, act[b].pc \in Down \/ act'[b].pc \in Down
        PROVE  act'[b] = act[b] /\ Seg(b) # Seg(a)
    BY <2>1, <1>w, <1>0, OneOwning
  <2>2. ASSUME NEW b \in Actors, act'[b].pc \in Down PROVE st'[act'[b].seg] \in {"fetching", "empty"}
    <3>1. CASE b = a
      BY <2>2, <3>1, <1>w, <1>0
    <3>2. CASE b # a
      BY <2>1, <2>2, <3>2, <1>w, <1>0 DEF FetchesAgree, Seg
    <3> QED  BY <3>1, <3>2
  <2>3. ASSUME NEW s \in Segs, st'[s] = "fetching" PROVE \E b \in Actors : act'[b].pc \in Down /\ act'[b].seg = s
    <3>1. CASE s = Seg(a)
      BY <2>3, <3>1, <1>w, <1>0
    <3>2. CASE s # Seg(a)
      <4>1. st[s] = "fetching"
        BY <2>3, <3>2, <1>w, <1>0
      <4>2. PICK b \in Actors : act[b].pc \in Down /\ Seg(b) = s
        BY <4>1 DEF FetchesAgree
      <4>3. b # a /\ act'[b] = act[b]
        BY <2>1, <3>2, <4>2
      <4> QED  BY <4>2, <4>3 DEF Seg
    <3> QED  BY <3>1, <3>2
  <2> QED  BY <2>2, <2>3 DEF FetchesAgree, Seg
<1>e. \A a \in Actors : st = [st EXCEPT ![Seg(a)] = st[Seg(a)]]
  BY <1>0
<1>1. ASSUME NEW a \in Actors, FetchStep(a) PROVE FetchesAgree'
  <2>0. \A b \in Actors \ {a} : Stays(b)
    BY <1>1, FetchActs DEF Owning
  <2>1. CASE FetchFast(a) \/ Claim(a) \/ JoinGivesUp(a) \/ Resolve(a) \/ Clear(a)
    <3>1. UNCHANGED st
      BY <2>1 DEF FetchFast, Claim, JoinGivesUp, Resolve, Clear, cache
    <3>2. act[a].pc \notin Down
      BY <2>1 DEF FetchFast, Claim, JoinGivesUp, Resolve, Clear, At
    <3>3. act'[a].pc \notin Down
      <4>1. CASE Claim(a)
        <5>1. CASE UNCHANGED prom
          BY <4>1, <5>1, <1>1, <1>0, FetchActs
        <5>2. CASE ~UNCHANGED prom
          BY <4>1, <5>2, <1>g DEF Claim
        <5> QED  BY <5>1, <5>2
      <4>2. CASE Resolve(a)
        <5>1. act'[a] = [act[a] EXCEPT !.pc = "clear"]
          BY <4>2 DEF Resolve, At
        <5> QED  BY <5>1, <1>0 DEF ActRec
      <4>3. CASE ~Claim(a) /\ act[a].pc \notin Owning
        BY <4>3, <1>1, <1>0, FetchActs
      <4>4. CASE JoinGivesUp(a) /\ At(a, "await")
        BY <4>4, <1>d DEF JoinGivesUp, At
      <4>5. CASE Clear(a)
        <5>1. Returns(a, act[a].res) /\ act[a].pc \in FetchPcs /\ act[a].res \in Results /\ Fits(a, act[a])
          BY <4>5, <1>0 DEF Clear, At, FetchPcs, ActRec, TypeOK
        <5>2. act'[a] = Returned(act[a], act[a].res)
          BY <5>1, <1>0 DEF Returns, Becomes
        <5> QED  BY <5>1, <5>2, <1>0, ReturnedGood
      <4> QED  BY <2>1, <4>1, <4>2, <4>3, <4>4, <4>5 DEF FetchFast, JoinGivesUp, At, Owning
    <3> QED
      <4>1. ASSUME NEW b \in Actors, act[b].pc \in Down \/ act'[b].pc \in Down PROVE act'[b] = act[b]
        BY <4>1, <2>0, <3>2, <3>3, <1>0
      <4> QED  BY <4>1, <3>1 DEF FetchesAgree, Seg
  <2>2. CASE Mark(a)
    <3>1. act[a].pc \in Owning
      BY <2>2 DEF Mark, At, Owning
    <3>2. CASE st[Seg(a)] = "empty"
      <4>1. st' = [st EXCEPT ![Seg(a)] = "fetching"] /\ act'[a].pc = "slot" /\ act'[a].seg = Seg(a)
        BY <2>2, <3>2, <1>g DEF Mark
      <4> QED  BY <2>0, <3>1, <4>1, <1>w
    <3>3. CASE st[Seg(a)] # "empty"
      <4>1. UNCHANGED st /\ act'[a].pc = "look" /\ act[a].pc = "mark"
        BY <2>2, <3>3, <1>g DEF Mark, At
      <4>2. ASSUME NEW b \in Actors, act[b].pc \in Down \/ act'[b].pc \in Down PROVE act'[b] = act[b]
        BY <4>1, <4>2, <2>0, <1>0
      <4> QED  BY <4>1, <4>2 DEF FetchesAgree, Seg
    <3> QED  BY <3>2, <3>3
  <2>3. CASE Look(a)
    <3>1. UNCHANGED st /\ act[a].pc \in {"look", "await"} /\ act[a].pc \in Owning
      BY <2>3 DEF Look, cache, Owning
    <3>2. CASE Goes(a, "slot") /\ st[Seg(a)] = "empty"
      BY <2>0, <3>1, <3>2, <1>g, <1>e, <1>w
    <3>3. CASE ~(Goes(a, "slot") /\ st[Seg(a)] = "empty")
      <4>0. st[Seg(a)] \in {"empty", "fetching", "disk", "failed"}
        BY <1>0
      <4>1. (\E e : Done(a, e)) \/ Goes(a, "await")
        BY <2>3, <3>3, <4>0 DEF Look
      <4>2. act'[a].pc \notin Down
        BY <4>1, <1>g, <1>d
      <4>3. ASSUME NEW b \in Actors, act[b].pc \in Down \/ act'[b].pc \in Down PROVE act'[b] = act[b]
        BY <3>1, <4>2, <4>3, <2>0, <1>0
      <4> QED  BY <3>1, <4>3 DEF FetchesAgree, Seg
    <3> QED  BY <3>2, <3>3
  <2>4. CASE TakeSlot(a)
    <3>1. UNCHANGED st /\ act[a].pc \in Down /\ act'[a].pc = "down" /\ act'[a].seg = Seg(a)
      BY <2>4, <1>g DEF TakeSlot, At, cache
    <3>2. st[Seg(a)] \in {"fetching", "empty"}
      BY <3>1 DEF FetchesAgree
    <3> QED  BY <2>0, <3>1, <3>2, <1>0, <1>e, <1>w
  <2>5. CASE SlotGivesUp(a) \/ DownOk(a) \/ DownFails(a)
    <3>1. act[a].pc \in Down /\ \E e : Done(a, e)
      BY <2>5 DEF SlotGivesUp, DownOk, DownFails, At
    <3>2. act'[a].pc = "resolve" /\ act[a].pc \in Owning
      BY <3>1, <1>d, <1>0
    <3>3. \E v \in {"empty", "disk", "failed"} : st' = [st EXCEPT ![Seg(a)] = v]
      BY <2>5 DEF SlotGivesUp, DownOk, DownFails
    <3> QED  BY <2>0, <3>2, <3>3, <1>w
  <2> QED  BY <1>1, <2>1, <2>2, <2>3, <2>4, <2>5 DEF FetchStep
<1>2. CASE \A a \in Actors : ~FetchStep(a)
  <2>1. EvictSwaps => UNCHANGED st \/ \E s \in Segs : st[s] = "disk" /\ st' = [st EXCEPT ![s] = "empty"]
    BY DEF EvictSwaps, TypeOK
  <2> QED  BY <1>2, <2>1, OtherSteps, <1>k
<1> QED  BY <1>1, <1>2

LEMMA OneDownloadHolds == TypeOK /\ OwnersAgree /\ FetchesAgree => OneDownload
<1> SUFFICES ASSUME TypeOK, OwnersAgree, FetchesAgree, NEW s \in Segs
             PROVE  Cardinality(Working(s)) <= 1 /\ (st[s] = "fetching" => Working(s) # {})
  BY DEF OneDownload
<1>1. \A a \in Working(s) : a = prom[s].owner
  BY DEF Working, OwnersAgree, Owning
<1>2. Working(s) \subseteq {prom[s].owner}
  BY <1>1
<1>3. Cardinality(Working(s)) <= 1
  <2>1. IsFiniteSet({prom[s].owner}) /\ Cardinality({prom[s].owner}) = 1
    BY FS_Singleton
  <2> QED  BY <1>2, <2>1, FS_Subset
<1>4. st[s] = "fetching" => Working(s) # {}
  BY DEF FetchesAgree, Working
<1> QED  BY <1>3, <1>4

-----------------------------------------------------------------------------
(* The pins of a segment are the reads over it. *)

Reading(s) == {r \in Readers : ~At(r, "idle") /\ s \in act[r].lo .. act[r].hi}

LEMMA ReadingFinite ==
    ASSUME NEW s
    PROVE  /\ IsFiniteSet(Reading(s)) /\ Cardinality(Reading(s)) \in Nat
           /\ IsFiniteSet(Reading(s)') /\ Cardinality(Reading(s)') \in Nat
<1>1. Reading(s) \in SUBSET Readers /\ Reading(s)' \in SUBSET Readers
  BY DEF Reading
<1> QED  BY <1>1, FS_Subset, FS_CardinalityType

(* Everything but the start and the end of a read leaves both alone. *)
LEMMA PinsKept ==
    ASSUME TypeOK, [Next]_vars,
           \A r \in Readers : ~Unpin(r) /\ \A lo, hi \in Segs : ~ReadBegin(r, lo, hi)
    PROVE  UNCHANGED pins /\ \A r \in Readers : Kept(act[r], act'[r])
<1> DEFINE Goal == UNCHANGED pins /\ \A r \in Readers : Kept(act[r], act'[r])
<1>0. Readers \subseteq Actors /\ act \in [Actors -> ActRec] /\ Readers \cap Workers = {} /\ Workers \subseteq Actors
  BY DEF Actors, TypeOK
<1>k. \A r \in Readers : Kept(act[r], act[r])
  BY DEF Kept
<1>1. ASSUME NEW a \in Actors, FetchStep(a) PROVE Goal
  <2>1. UNCHANGED pins
    BY <1>1 DEF FetchStep, FetchFast, Claim, JoinGivesUp, Mark, Look, TakeSlot, SlotGivesUp, DownOk, DownFails, Resolve, Clear
  <2> QED  BY <1>0, <1>1, <2>1, FetchStepGood DEF Good
<1>2. ASSUME NEW r \in Readers, ReadStep(r), ~Unpin(r) PROVE Goal
  <2>1. UNCHANGED pins
    BY <1>2 DEF ReadStep, Hint, HintPanics, Hinted, Ensure, Wait, Read, Reread
  <2>2. PICK c : Good(r, act[r], c) /\ Becomes(r, c)
    BY <1>2, ReadStepGood
  <2> QED  BY <1>0, <2>1, <2>2, OneActor DEF Good
<1>3. ASSUME NEW w \in Workers, WorkerTakes(w) \/ WorkerStops(w) PROVE Goal
  <2>1. \A r \in Readers : act'[r] = act[r]
    BY <1>0, <1>3 DEF WorkerTakes, WorkerStops, Goes, Becomes
  <2>2. UNCHANGED pins
    BY <1>3 DEF WorkerTakes, WorkerStops
  <2> QED  BY <1>k, <2>1, <2>2
<1>4. CASE EvictStep \/ CloseCancels \/ CloseStep \/ UNCHANGED vars
  <2>1. UNCHANGED <<act, pins>>
    BY <1>4 DEF EvictStep, EvictWakes, EvictFinds, EvictChecks, EvictSwaps, EvictDrops, EvictStops,
                CloseCancels, CloseStep, CloseChannel, CloseFile, vars
  <2> QED  BY <1>k, <2>1
<1> QED  BY <1>1, <1>2, <1>3, <1>4 DEF Next

LEMMA PinsStep == TypeOK /\ PinsAreReads /\ [Next]_vars => PinsAreReads'
<1> SUFFICES ASSUME TypeOK, PinsAreReads, [Next]_vars, NEW s \in Segs
             PROVE  pins'[s] = Cardinality(Reading(s)')
  BY DEF PinsAreReads, Reading
<1>0. Readers \subseteq Actors /\ act \in [Actors -> ActRec] /\ pins[s] = Cardinality(Reading(s))
  BY DEF Actors, TypeOK, PinsAreReads, Reading
<1>1. ASSUME NEW r \in Readers, Unpin(r) PROVE pins'[s] = Cardinality(Reading(s)')
  <2> DEFINE c == [Resting EXCEPT !.res = act[r].res]
  <2>1. c.pc = "idle"
    BY DEF Resting
  <2>2. act' = [act EXCEPT ![r] = c] /\ act[r].pc # "idle"
    BY <1>1 DEF Unpin, Becomes, At
  <2> HIDE DEF c
  <2>3. Reading(s)' = Reading(s) \ {r}
    BY <1>0, <2>1, <2>2 DEF Reading, At
  <2>4. pins'[s] = IF s \in act[r].lo .. act[r].hi THEN pins[s] + (-1) ELSE pins[s]
    BY <1>1 DEF Unpin, Pinned
  <2>5. r \in Reading(s) <=> s \in act[r].lo .. act[r].hi
    BY <2>2 DEF Reading, At
  <2>6. Cardinality(Reading(s) \ {r}) = IF r \in Reading(s) THEN Cardinality(Reading(s)) - 1 ELSE Cardinality(Reading(s))
    BY ReadingFinite, FS_RemoveElement
  <2> QED  BY <1>0, <2>3, <2>4, <2>5, <2>6, ReadingFinite
<1>2. ASSUME NEW r \in Readers, NEW lo \in Segs, NEW hi \in Segs, ReadBegin(r, lo, hi) PROVE pins'[s] = Cardinality(Reading(s)')
  <2> DEFINE c == [Resting EXCEPT !.pc = "hint", !.lo = lo, !.hi = hi, !.i = hi + 1, !.back = "ensure"]
  <2>1. c.pc # "idle" /\ c.lo = lo /\ c.hi = hi
    BY DEF Resting
  <2>2. act' = [act EXCEPT ![r] = c] /\ act[r].pc = "idle"
    BY <1>2 DEF ReadBegin, Becomes, At
  <2> HIDE DEF c
  <2>3. Reading(s)' = IF s \in lo .. hi THEN Reading(s) \cup {r} ELSE Reading(s)
    BY <1>0, <2>1, <2>2 DEF Reading, At
  <2>4. pins'[s] = IF s \in lo .. hi THEN pins[s] + 1 ELSE pins[s]
    BY <1>2 DEF ReadBegin, Pinned
  <2>5. r \notin Reading(s)
    BY <2>2 DEF Reading, At
  <2>6. Cardinality(Reading(s) \cup {r}) = Cardinality(Reading(s)) + 1
    BY <2>5, ReadingFinite, FS_AddElement
  <2> QED  BY <1>0, <2>3, <2>4, <2>6
<1>3. CASE \A r \in Readers : ~Unpin(r) /\ \A lo, hi \in Segs : ~ReadBegin(r, lo, hi)
  <2>1. UNCHANGED pins /\ \A r \in Readers : Kept(act[r], act'[r])
    BY <1>3, PinsKept
  <2>2. Reading(s)' = Reading(s)
    BY <2>1 DEF Reading, Kept, At
  <2> QED  BY <1>0, <2>1, <2>2
<1> QED  BY <1>1, <1>2, <1>3

-----------------------------------------------------------------------------
(* The count of the segments on disk. *)

OnDisk == {s \in Segs : st[s] = "disk"}

LEMMA OnDiskFinite == IsFiniteSet(OnDisk) /\ Cardinality(OnDisk) \in Nat
<1>1. IsFiniteSet(Segs)
  BY FS_Interval DEF Segs
<1>2. OnDisk \in SUBSET Segs
  BY DEF OnDisk
<1> QED  BY <1>1, <1>2, FS_Subset, FS_CardinalityType

LEMMA DiskStep == TypeOK /\ FetchesAgree /\ DiskCounted /\ [Next]_vars => DiskCounted'
<1> SUFFICES ASSUME TypeOK, FetchesAgree, DiskCounted, [Next]_vars PROVE DiskCounted'
  OBVIOUS
<1> DEFINE Dropping == IF ev.pc = "drop" THEN 1 ELSE 0
<1>0. /\ st \in [Segs -> {"empty", "fetching", "disk", "failed"}] /\ used = Cardinality(OnDisk) + Dropping
      /\ ev \in [pc : {"idle", "find", "check", "swap", "drop", "stopped"}, seg : Segs]
      /\ \A a \in Actors : Seg(a) \in Segs
  BY SegType DEF TypeOK, DiskCounted, OnDisk
<1>c. IsFiniteSet(OnDisk) /\ Cardinality(OnDisk) \in Nat
  BY OnDiskFinite
<1>q. used' = Cardinality(OnDisk') + Dropping' => DiskCounted'
  BY DEF DiskCounted, OnDisk
<1>s. ASSUME OnDisk' = OnDisk, UNCHANGED used, Dropping' = Dropping PROVE DiskCounted'
  BY <1>0, <1>q, <1>s
<1>1. ASSUME NEW a \in Actors, FetchStep(a) PROVE DiskCounted'
  <2>0. UNCHANGED ev
    BY <1>1 DEF FetchStep, FetchFast, Claim, JoinGivesUp, Mark, Look, TakeSlot, SlotGivesUp, DownOk, DownFails, Resolve, Clear
  <2>1. CASE FetchFast(a) \/ Claim(a) \/ JoinGivesUp(a) \/ Look(a) \/ TakeSlot(a) \/ Resolve(a) \/ Clear(a)
    <3>1. UNCHANGED <<st, used>>
      BY <2>1 DEF FetchFast, Claim, JoinGivesUp, Look, TakeSlot, Resolve, Clear, cache
    <3> QED  BY <2>0, <3>1, <1>s DEF OnDisk
  <2>2. CASE Mark(a)
    <3>1. UNCHANGED used /\ (UNCHANGED st \/ (st[Seg(a)] = "empty" /\ st' = [st EXCEPT ![Seg(a)] = "fetching"]))
      BY <2>2 DEF Mark
    <3>2. OnDisk' = OnDisk
      BY <3>1, <1>0 DEF OnDisk
    <3> QED  BY <2>0, <3>1, <3>2, <1>s
  <2>3. CASE SlotGivesUp(a) \/ DownFails(a)
    <3>1. st[Seg(a)] \in {"fetching", "empty"}
      BY <2>3 DEF SlotGivesUp, DownFails, At, FetchesAgree
    <3>2. UNCHANGED used /\ \E v \in {"empty", "failed"} : st' = [st EXCEPT ![Seg(a)] = v]
      BY <2>3 DEF SlotGivesUp, DownFails
    <3>3. OnDisk' = OnDisk
      BY <3>1, <3>2, <1>0 DEF OnDisk
    <3> QED  BY <2>0, <3>2, <3>3, <1>s
  <2>4. CASE DownOk(a)
    <3>1. st[Seg(a)] \in {"fetching", "empty"}
      BY <2>4 DEF DownOk, At, FetchesAgree
    <3>2. used' = used + 1 /\ st' = [st EXCEPT ![Seg(a)] = "disk"]
      BY <2>4 DEF DownOk
    <3>3. OnDisk' = OnDisk \cup {Seg(a)} /\ Seg(a) \notin OnDisk
      BY <3>1, <3>2, <1>0 DEF OnDisk
    <3>4. Cardinality(OnDisk') = Cardinality(OnDisk) + 1
      BY <3>3, <1>c, FS_AddElement
    <3> QED  BY <2>0, <3>2, <3>4, <1>0, <1>c, <1>q
  <2> QED  BY <1>1, <2>1, <2>2, <2>3, <2>4 DEF FetchStep
<1>2. CASE EvictSwaps
  <2>1. CASE st[ev.seg] = "disk"
    <3>1. ev.seg \in Segs /\ ev.pc = "swap" /\ ev'.pc = "drop" /\ UNCHANGED used /\ st' = [st EXCEPT ![ev.seg] = "empty"]
      BY <1>2, <2>1, <1>0 DEF EvictSwaps
    <3>2. OnDisk' = OnDisk \ {ev.seg} /\ ev.seg \in OnDisk
      BY <2>1, <3>1, <1>0 DEF OnDisk
    <3>3. Cardinality(OnDisk') = Cardinality(OnDisk) - 1
      BY <3>2, <1>c, FS_RemoveElement
    <3> QED  BY <3>1, <3>3, <1>0, <1>c, <1>q
  <2>2. CASE st[ev.seg] # "disk"
    <3>1. ev.pc = "swap" /\ ev'.pc = "find" /\ UNCHANGED <<st, used>>
      BY <1>2, <2>2, <1>0 DEF EvictSwaps
    <3> QED  BY <3>1, <1>s DEF OnDisk
  <2> QED  BY <2>1, <2>2
<1>3. CASE EvictDrops
  <2>1. ev.pc = "drop" /\ ev'.pc = "find" /\ UNCHANGED st /\ used' = used - 1
    BY <1>3, <1>0 DEF EvictDrops
  <2>2. OnDisk' = OnDisk
    BY <2>1 DEF OnDisk
  <2> QED  BY <2>1, <2>2, <1>0, <1>c, <1>q
<1>4. CASE EvictWakes \/ EvictFinds \/ EvictChecks \/ EvictStops
  <2>1. UNCHANGED <<st, used>>
    BY <1>4 DEF EvictWakes, EvictFinds, EvictChecks, EvictStops, cache
  <2>2. ev.pc # "drop" /\ ev'.pc # "drop"
    <3>1. CASE EvictFinds
      <4>1. ev.pc = "find" /\ ((\E s : ev' = [pc |-> "check", seg |-> s]) \/ ev' = [ev EXCEPT !.pc = "idle"])
        BY <3>1 DEF EvictFinds
      <4> QED  BY <4>1, <1>0
    <3>2. CASE ~EvictFinds
      BY <1>4, <3>2, <1>0 DEF EvictWakes, EvictChecks, EvictStops
    <3> QED  BY <3>1, <3>2
  <2> QED  BY <2>1, <2>2, <1>s DEF OnDisk
<1>5. ASSUME NEW r \in Readers, ReadStep(r) \/ \E lo, hi \in Segs : ReadBegin(r, lo, hi) PROVE DiskCounted'
  <2>1. UNCHANGED <<st, used, ev>>
    BY <1>5 DEF ReadStep, Hint, HintPanics, Hinted, Ensure, Wait, Read, Reread, Unpin, ReadBegin, cache
  <2> QED  BY <2>1, <1>s DEF OnDisk
<1>6. ASSUME NEW w \in Workers, WorkerTakes(w) \/ WorkerStops(w) PROVE DiskCounted'
  <2>1. UNCHANGED <<st, used, ev>>
    BY <1>6 DEF WorkerTakes, WorkerStops, cache
  <2> QED  BY <2>1, <1>s DEF OnDisk
<1>7. CASE CloseCancels \/ CloseStep \/ UNCHANGED vars
  <2>1. UNCHANGED <<st, used, ev>>
    BY <1>7 DEF CloseCancels, CloseStep, CloseChannel, CloseFile, cache, vars
  <2> QED  BY <2>1, <1>s DEF OnDisk
<1> QED  BY <1>1, <1>2, <1>3, <1>4, <1>5, <1>6, <1>7 DEF Next, EvictStep

-----------------------------------------------------------------------------

LEMMA Start == Init => IInv
<1> SUFFICES ASSUME Init PROVE IInv
  OBVIOUS
<1> USE DEF Init
<1>0. Segs \subseteq Nat /\ 1 \in Segs
  BY DEF Segs
<1>1. TypeOK
  <2>1. \A a \in Actors : Fits(a, act[a]) /\ act[a] \in ActRec
    <3>1. \A a \in Actors : act[a] = Resting
      OBVIOUS
    <3>2. \A a \in Actors : Fits(a, Resting)
      BY DEF Resting, Fits, FetchPcs
    <3> QED  BY <3>1, <3>2, RestingType
  <2>2. NoPromise \in [owner : Actors \cup {Nobody}, done : BOOLEAN, err : Results]
    BY DEF NoPromise, Results
  <2>3. act \in [Actors -> ActRec]
    BY <2>1
  <2>4. error \in [Segs -> Results] /\ prom \in [Segs -> [owner : Actors \cup {Nobody}, done : BOOLEAN, err : Results]]
    BY <2>2 DEF Results
  <2>5. ev \in [pc : {"idle", "find", "check", "swap", "drop", "stopped"}, seg : Segs]
    BY <1>0
  <2> HIDE DEF Init
  <2>6. st \in [Segs -> {"empty", "fetching", "disk", "failed"}] /\ pins \in [Segs -> Int] /\ used \in Int /\ onDisk = {} /\ queue = <<>>
        /\ stage = "open"
    BY DEF Init
  <2>7. signal \in BOOLEAN
    BY DEF Init
  <2> QED  BY <2>1, <2>3, <2>4, <2>5, <2>6, <2>7 DEF TypeOK
<1>2. \A a \in Actors : act[a].pc = "idle"
  BY DEF Resting
<1>3. OwnersAgree /\ FetchesAgree
  BY <1>2 DEF OwnersAgree, FetchesAgree, Owning
<1>4. PinsAreReads
  <2>1. \A s \in Segs : {r \in Readers : ~At(r, "idle") /\ s \in act[r].lo .. act[r].hi} = {}
    BY <1>2 DEF At, Actors
  <2> QED  BY <2>1, FS_EmptySet DEF PinsAreReads
<1>5. DiskCounted
  <2>1. {s \in Segs : st[s] = "disk"} = {}
    OBVIOUS
  <2>2. Cardinality({}) = 0
    BY FS_EmptySet
  <2>3. used = 0 /\ ev.pc # "drop"
    OBVIOUS
  <2> HIDE DEF Init
  <2>4. Cardinality({s \in Segs : st[s] = "disk"}) = 0
    BY <2>1, <2>2
  <2> QED  BY <2>3, <2>4 DEF DiskCounted
<1> QED  BY <1>1, <1>3, <1>4, <1>5 DEF IInv

THEOREM ReaderInv == Spec => []IInv
<1>1. IInv /\ [Next]_vars => IInv'
  BY TypeStep, OwnersStep, FetchesStep, PinsStep, DiskStep DEF IInv
<1> QED  BY Start, <1>1, PTL DEF Spec

(* The type invariant: a read keeps to the range it was asked for through all *)
(* its retries, and a prefetch worker never does what only a read may do.     *)
THEOREM ReaderTypes == Spec => []TypeOK
<1>1. IInv => TypeOK
  BY DEF IInv
<1> QED  BY <1>1, ReaderInv, PTL

(* fetcher.go:87-88: whatever the number of reads and workers and however     *)
(* they are scheduled, no two goroutines download the same segment, and a     *)
(* segment marked as being fetched has a goroutine that downloads it or waits *)
(* for a connection to do so.                                                 *)
THEOREM DownloadsOnce == Spec => []OneDownload
<1>1. IInv => OneDownload
  BY OneDownloadHolds DEF IInv
<1> QED  BY <1>1, ReaderInv, PTL

(* cache.go:487-488, the deferred UnpinRange of ReadAt: every pin is a read   *)
(* that has not returned, so a segment without reads can be evicted and one   *)
(* with reads has its pins, also after a panic, an error or Close.            *)
THEOREM PinsBelongToReads == Spec => []PinsAreReads
<1>1. IInv => PinsAreReads
  BY DEF IInv
<1> QED  BY <1>1, ReaderInv, PTL

(* Finalize and evictFromDisk: curDisk, which is updated apart from the state *)
(* of the segment, is at every moment the number of segments on disk, with    *)
(* the one the evictor has marked and not yet dropped: no download counts     *)
(* twice and no eviction is lost.                                             *)
THEOREM DiskIsCounted == Spec => []DiskCounted
<1>1. IInv => DiskCounted
  BY DEF IInv
<1> QED  BY <1>1, ReaderInv, PTL
===============================================================================
