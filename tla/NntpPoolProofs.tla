---------------------------- MODULE NntpPoolProofs ----------------------------
(***************************************************************************)
(* What holds of the connection pool for any number of providers,          *)
(* goroutines and connections, whatever the goroutines do with it.         *)
(***************************************************************************)
EXTENDS NntpPool, FiniteSetTheorems, FunctionTheorems, SequenceTheorems, TLAPS

USE PoolAssumption DEF Conns

LEMMA CutSeq ==
    ASSUME NEW S, NEW s \in Seq(S), NEW m \in 1 .. Len(s) + 1, NEW n \in 0 .. Len(s)
    PROVE  /\ SubSeq(s, m, n) \in Seq(S)
           /\ \A i \in DOMAIN SubSeq(s, m, n) : \E j \in DOMAIN s : SubSeq(s, m, n)[i] = s[j]
BY SMTT(30)

LEMMA DropSeq ==
    ASSUME NEW S, NEW s \in Seq(S), NEW n \in 0 .. Len(s), NEW i \in n + 1 .. Len(s)
    PROVE  /\ i - n \in DOMAIN SubSeq(s, n + 1, Len(s))
           /\ SubSeq(s, n + 1, Len(s))[i - n] = s[i]
BY SMTT(30)

(* A hand is busy exactly when it holds a slot of its provider. *)
LEMMA HoldingFinite ==
    ASSUME NEW p \in Provs
    PROVE  IsFiniteSet(Holding(p)) /\ Cardinality(Holding(p)) \in Nat
<1>1. Holding(p) \in SUBSET Hands
  BY DEF Holding
<1>2. IsFiniteSet(Holding(p))
  BY <1>1, FS_Subset
<1> QED  BY <1>2, FS_CardinalityType

(* There is something to take out of the channel when a slot is given back. *)
LEMMA HasSlot ==
    ASSUME TypeOK, SlotsAccounted, NEW h \in Hands, at[h] # "none"
    PROVE  /\ prov[h] \in Provs
           /\ slots[prov[h]] >= 1
<1>1. prov[h] \in Provs
  BY DEF TypeOK
<1>2. h \in Holding(prov[h])
  BY DEF Holding
<1>3. Cardinality(Holding(prov[h])) # 0
  BY <1>1, <1>2, HoldingFinite, FS_EmptySet
<1> QED  BY <1>1, <1>3, HoldingFinite DEF SlotsAccounted

LEMMA ReleaseType ==
    ASSUME TypeOK, SlotsAccounted, NEW h \in Hands, at[h] # "none", ReleaseSlot(h)
    PROVE  /\ slots' \in [Provs -> Nat] /\ at' \in [Hands -> Stages]
           /\ prov' \in [Hands -> Provs \cup {Nil}] /\ conn' \in [Hands -> Conns \cup {Nil}]
           /\ \A g \in Hands : (at'[g] = "none") <=> (prov'[g] = Nil)
           /\ \A g \in Hands : at'[g] \in {"check", "out", "push"} <=> conn'[g] # Nil
<1>1. prov[h] \in Provs /\ slots[prov[h]] - 1 \in Nat
  BY HasSlot DEF TypeOK
<1> QED  BY <1>1 DEF ReleaseSlot, TypeOK, Stages

LEMMA TypeStep == TypeOK /\ SlotsAccounted /\ [Next]_vars => TypeOK'
<1> SUFFICES ASSUME TypeOK, SlotsAccounted, [Next]_vars PROVE TypeOK'
    OBVIOUS
<1> USE DEF TypeOK, Stages
<1>1. ASSUME NEW h \in Hands, HandNext(h) PROVE TypeOK'
  <2>1. ASSUME NEW p \in Provs, Take(h, p) PROVE TypeOK'
    <3>1. slots' \in [Provs -> Nat] /\ at' \in [Hands -> Stages] /\ prov' \in [Hands -> Provs \cup {Nil}]
      BY <2>1 DEF Take
    <3>2. \A g \in Hands : (at'[g] = "none") <=> (prov'[g] = Nil)
      BY <2>1 DEF Take
    <3>3. \A g \in Hands : at'[g] \in {"check", "out", "push"} <=> conn'[g] # Nil
      BY <2>1 DEF Take
    <3> QED  BY <2>1, <3>1, <3>2, <3>3 DEF Take
  <2>2. CASE Pop(h)
    <3>1. prov[h] \in Provs /\ stack[prov[h]] \in Seq(Conns)
      BY <2>2 DEF Pop
    <3>2. SubSeq(stack[prov[h]], 1, Len(stack[prov[h]]) - 1) \in Seq(Conns)
          /\ stack[prov[h]][Len(stack[prov[h]])] \in Conns
      BY <3>1, <2>2 DEF Pop
    <3> QED  BY <2>2, <3>1, <3>2 DEF Pop
  <2>3. CASE Empty(h)
    BY <2>3 DEF Empty
  <2>4. CASE Reject(h)
    BY <2>4 DEF Reject, CloseConns
  <2>5. CASE Accept(h)
    BY <2>5 DEF Accept
  <2>6. CASE DialOk(h)
    <3>1. (CHOOSE x \in Fresh(prov[h]) : TRUE) \in Fresh(prov[h])
      BY <2>6 DEF DialOk
    <3>2. prov[h] \in Provs /\ Fresh(prov[h]) \subseteq Conns
      BY <2>6 DEF DialOk, Fresh
    <3> QED  BY ZenonT(60), <2>6, <3>1, <3>2 DEF DialOk
  <2>7. CASE DialFails(h)
    BY <2>7, ReleaseType DEF DialFails
  <2>8. CASE Spoil(h)
    BY <2>8 DEF Spoil
  <2>9. CASE Release(h)
    BY <2>9, ReleaseType DEF Release, CloseConns
  <2>10. CASE PutCheck(h)
    <3>1. CASE IsClosed(conn[h]) \/ shut
      BY <2>10, <3>1, ReleaseType DEF PutCheck, CloseConns
    <3>2. CASE ~(IsClosed(conn[h]) \/ shut)
      BY <2>10, <3>2 DEF PutCheck
    <3> QED  BY <3>1, <3>2
  <2>11. CASE PutPush(h)
    <3>1. CASE Len(stack[prov[h]]) < Max[prov[h]]
      <4>1. prov[h] \in Provs /\ conn[h] \in Conns
        BY <2>11 DEF PutPush
      <4>2. Append(stack[prov[h]], conn[h]) \in Seq(Conns)
        BY <4>1
      <4>3. stack' \in [Provs -> Seq(Conns)]
        BY ZenonT(60), <2>11, <3>1, <4>1, <4>2 DEF PutPush
      <4>4. at' \in [Hands -> Stages] /\ conn' \in [Hands -> Conns \cup {Nil}]
            /\ \A g \in Hands : (at'[g] = "none") <=> (prov'[g] = Nil)
        BY <2>11, <3>1 DEF PutPush
      <4>5. \A g \in Hands : at'[g] \in {"check", "out", "push"} <=> conn'[g] # Nil
        BY ZenonT(60), <2>11, <3>1 DEF PutPush
      <4> QED  BY <2>11, <3>1, <4>3, <4>4, <4>5 DEF PutPush
    <3>2. CASE ~(Len(stack[prov[h]]) < Max[prov[h]])
      BY <2>11, <3>2, ReleaseType DEF PutPush, CloseConns
    <3> QED  BY <3>1, <3>2
  <2>12. CASE PutUnslot(h)
    BY <2>12, ReleaseType DEF PutUnslot
  <2> QED  BY <1>1, <2>1, <2>2, <2>3, <2>4, <2>5, <2>6, <2>7, <2>8, <2>9, <2>10, <2>11, <2>12 DEF HandNext
<1>2. CASE Upkeep
  <2>1. CASE ReapTick
    BY <2>1 DEF ReapTick, hands
  <2>2. ASSUME NEW p \in Provs, NEW n \in 0 .. Len(stack[p]), ReapPool(p, n) PROVE TypeOK'
    <3>1. SubSeq(stack[p], n + 1, Len(stack[p])) \in Seq(Conns)
      OBVIOUS
    <3> QED  BY <2>2, <3>1 DEF ReapPool, CloseConns, hands
  <2>3. CASE CloseBegin
    BY <2>3 DEF CloseBegin, hands
  <2>4. ASSUME NEW p \in Provs, CloseIdle(p) PROVE TypeOK'
    BY <2>4 DEF CloseIdle, CloseConns, hands
  <2>5. ASSUME NEW p \in Provs, CloseActive(p) PROVE TypeOK'
    BY <2>5 DEF CloseActive, CloseConns, hands
  <2> QED  BY <1>2, <2>1, <2>2, <2>3, <2>4, <2>5 DEF Upkeep
<1>3. CASE UNCHANGED vars
  BY <1>3 DEF vars
<1> QED  BY <1>1, <1>2, <1>3 DEF Next
-----------------------------------------------------------------------------
(* Slots: taking one adds a holder, giving one back removes that holder, and *)
(* nothing else touches the semaphore or the set of holders.                 *)

SlotsInv == SlotsAccounted /\ \A p \in Provs : slots[p] <= Max[p]

LEMMA SlotsAfterTake ==
    ASSUME TypeOK, SlotsInv, NEW h \in Hands, NEW p \in Provs, Take(h, p)
    PROVE  SlotsInv'
<1> SUFFICES ASSUME NEW q \in Provs
             PROVE  slots'[q] = Cardinality(Holding(q)') /\ slots'[q] <= Max[q]
    BY DEF SlotsInv, SlotsAccounted
<1>1. CASE q = p
  <2>1. Holding(p)' = Holding(p) \cup {h} /\ h \notin Holding(p)
    BY DEF Holding, Take, TypeOK, Stages
  <2>2. Cardinality(Holding(p)') = Cardinality(Holding(p)) + 1
    BY <2>1, HoldingFinite, FS_AddElement
  <2>3. slots'[p] = slots[p] + 1 /\ slots[p] < Max[p] /\ slots[p] \in Nat /\ Max[p] \in Nat
    BY DEF Take, SlotFree, TypeOK
  <2> QED  BY <1>1, <2>2, <2>3 DEF SlotsInv, SlotsAccounted
<1>2. CASE q # p
  <2>1. Holding(q)' = Holding(q)
    BY <1>2 DEF Holding, Take, TypeOK, Stages
  <2> QED  BY <1>2, <2>1 DEF SlotsInv, SlotsAccounted, Take, TypeOK
<1> QED  BY <1>1, <1>2

LEMMA SlotsAfterRelease ==
    ASSUME TypeOK, SlotsInv, NEW h \in Hands, at[h] # "none", ReleaseSlot(h)
    PROVE  SlotsInv'
<1> SUFFICES ASSUME NEW q \in Provs
             PROVE  slots'[q] = Cardinality(Holding(q)') /\ slots'[q] <= Max[q]
    BY DEF SlotsInv, SlotsAccounted
<1>p. PICK p \in Provs : p = prov[h]
  BY DEF TypeOK
<1>0. p \in Provs /\ prov[h] = p /\ slots[p] \in Nat /\ Max[p] \in Nat
  BY <1>p DEF TypeOK
<1>1. CASE q = p
  <2>1. Holding(p)' = Holding(p) \ {h} /\ h \in Holding(p)
    BY <1>0 DEF Holding, ReleaseSlot, TypeOK, Stages
  <2>2. Cardinality(Holding(p)') = Cardinality(Holding(p)) - 1
    BY ZenonT(60), <1>0, <2>1, HoldingFinite, FS_RemoveElement
  <2>3. slots'[p] = slots[p] - 1
    BY <1>0 DEF ReleaseSlot, TypeOK
  <2> QED  BY <1>0, <1>1, <2>2, <2>3 DEF SlotsInv, SlotsAccounted
<1>2. CASE q # p
  <2>1. Holding(q)' = Holding(q)
    BY <1>0, <1>2 DEF Holding, ReleaseSlot, TypeOK, Stages
  <2> QED  BY <1>0, <1>2, <2>1 DEF SlotsInv, SlotsAccounted, ReleaseSlot, TypeOK
<1> QED  BY <1>1, <1>2

LEMMA SlotsAfterOther ==
    ASSUME TypeOK, SlotsInv, slots' = slots, prov' = prov,
           \A h \in Hands : (at'[h] = "none") <=> (at[h] = "none")
    PROVE  SlotsInv'
<1>1. \A p \in Provs : Holding(p)' = Holding(p)
  BY DEF Holding
<1> QED  BY <1>1 DEF SlotsInv, SlotsAccounted

LEMMA SlotsStep == TypeOK /\ SlotsInv /\ [Next]_vars => SlotsInv'
<1> SUFFICES ASSUME TypeOK, SlotsInv, [Next]_vars PROVE SlotsInv'
    OBVIOUS
<1>1. ASSUME NEW h \in Hands, HandNext(h) PROVE SlotsInv'
  <2>1. ASSUME NEW p \in Provs, Take(h, p) PROVE SlotsInv'
    BY <2>1, SlotsAfterTake
  <2>2. CASE DialFails(h) \/ Release(h) \/ PutUnslot(h)
    BY <2>2, SlotsAfterRelease DEF DialFails, Release, PutUnslot
  <2>3. CASE PutCheck(h)
    <3>1. CASE IsClosed(conn[h]) \/ shut
      BY <2>3, <3>1, SlotsAfterRelease DEF PutCheck
    <3>2. CASE ~(IsClosed(conn[h]) \/ shut)
      BY <2>3, <3>2, SlotsAfterOther DEF PutCheck, TypeOK
    <3> QED  BY <3>1, <3>2
  <2>4. CASE PutPush(h)
    <3>1. CASE Len(stack[prov[h]]) < Max[prov[h]]
      BY <2>4, <3>1, SlotsAfterOther DEF PutPush, TypeOK
    <3>2. CASE ~(Len(stack[prov[h]]) < Max[prov[h]])
      BY <2>4, <3>2, SlotsAfterRelease DEF PutPush
    <3> QED  BY <3>1, <3>2
  <2>5. CASE Pop(h) \/ Empty(h) \/ Reject(h) \/ Accept(h) \/ DialOk(h) \/ Spoil(h)
    BY <2>5, SlotsAfterOther DEF Pop, Empty, Reject, Accept, DialOk, Spoil, TypeOK
  <2> QED  BY <1>1, <2>1, <2>2, <2>3, <2>4, <2>5 DEF HandNext
<1>2. CASE Upkeep
  BY <1>2, SlotsAfterOther DEF Upkeep, ReapTick, ReapPool, CloseBegin, CloseIdle, CloseActive, hands
<1>3. CASE UNCHANGED vars
  BY <1>3, SlotsAfterOther DEF vars
<1> QED  BY <1>1, <1>2, <1>3 DEF Next

-----------------------------------------------------------------------------
(* Places: an open connection is on its provider's stack or in a hand that   *)
(* has one of that provider's slots.                                         *)

OpenFinite == IsFiniteSet(open)
HandAddr   == \A h \in Hands : conn[h] # Nil => Address(conn[h]) = prov[h]
StackAddr  == \A p \in Provs : \A i \in DOMAIN stack[p] : Address(stack[p][i]) = p
OnStack(c) == \E i \in DOMAIN stack[Address(c)] : stack[Address(c)][i] = c
InHand(c)  == \E h \in Hands : conn[h] = c
Reachable  == \A c \in open : OnStack(c) \/ InHand(c)

InPlace == OpenFinite /\ HandAddr /\ StackAddr /\ Reachable

LEMMA OpenFiniteStep == OpenFinite /\ [Next]_vars => OpenFinite'
<1> SUFFICES ASSUME OpenFinite, [Next]_vars PROVE OpenFinite'
    OBVIOUS
<1> USE DEF OpenFinite
<1>1. CASE open' \in SUBSET open
  BY <1>1, FS_Subset
<1>2. ASSUME NEW c, open' = open \cup {c} PROVE OpenFinite'
  BY <1>2, FS_AddElement
<1>3. ASSUME NEW h \in Hands, HandNext(h) PROVE open' \in SUBSET open \/ \E c : open' = open \cup {c}
  BY <1>3 DEF HandNext, Take, Pop, Empty, Reject, Accept, DialOk, DialFails, Spoil, Release,
              PutCheck, PutPush, PutUnslot, CloseConns
<1>4. ASSUME Upkeep \/ UNCHANGED vars PROVE open' \in SUBSET open
  BY <1>4 DEF Upkeep, ReapTick, ReapPool, CloseBegin, CloseIdle, CloseActive, CloseConns, vars
<1> QED  BY <1>1, <1>2, <1>3, <1>4 DEF Next

LEMMA HandAddrStep == TypeOK /\ HandAddr /\ StackAddr /\ [Next]_vars => HandAddr'
<1> SUFFICES ASSUME TypeOK, HandAddr, StackAddr, [Next]_vars, NEW g \in Hands, conn'[g] # Nil
             PROVE  Address(conn'[g]) = prov'[g]
    BY DEF HandAddr
<1>1. ASSUME NEW h \in Hands, HandNext(h) PROVE Address(conn'[g]) = prov'[g]
  <2>1. ASSUME NEW p \in Provs, Take(h, p) PROVE Address(conn'[g]) = prov'[g]
    BY <2>1 DEF Take, TypeOK, Stages, HandAddr
  <2>2. CASE Pop(h)
    <3>1. prov[h] \in Provs /\ Len(stack[prov[h]]) \in DOMAIN stack[prov[h]]
      BY <2>2 DEF Pop, TypeOK
    <3> QED  BY <2>2, <3>1 DEF Pop, TypeOK, HandAddr, StackAddr
  <2>3. CASE DialOk(h)
    <3>1. (CHOOSE x \in Fresh(prov[h]) : TRUE) \in Fresh(prov[h])
      BY <2>3 DEF DialOk
    <3>2. \A c \in Fresh(prov[h]) : Address(c) = prov[h]
      BY DEF Fresh, Address
    <3> QED  BY <2>3, <3>1, <3>2 DEF DialOk, TypeOK, HandAddr
  <2>4. CASE Empty(h) \/ Reject(h) \/ Accept(h) \/ DialFails(h) \/ Spoil(h) \/ Release(h) \/ PutUnslot(h)
    BY <2>4 DEF Empty, Reject, Accept, DialFails, Spoil, Release, PutUnslot, ReleaseSlot, TypeOK, HandAddr
  <2>5. CASE PutCheck(h) \/ PutPush(h)
    BY <2>5 DEF PutCheck, PutPush, ReleaseSlot, TypeOK, HandAddr
  <2> QED  BY <1>1, <2>1, <2>2, <2>3, <2>4, <2>5 DEF HandNext
<1>2. CASE Upkeep \/ UNCHANGED vars
  BY <1>2 DEF Upkeep, ReapTick, ReapPool, CloseBegin, CloseIdle, CloseActive, hands, vars, HandAddr
<1> QED  BY <1>1, <1>2 DEF Next

LEMMA StackAddrStep == TypeOK /\ HandAddr /\ StackAddr /\ [Next]_vars => StackAddr'
<1> SUFFICES ASSUME TypeOK, HandAddr, StackAddr, [Next]_vars, NEW q \in Provs, NEW i \in DOMAIN stack'[q]
             PROVE  Address(stack'[q][i]) = q
    BY DEF StackAddr
<1>1. CASE stack' = stack
  BY <1>1 DEF StackAddr
<1>2. ASSUME NEW p \in Provs, NEW m \in 1 .. Len(stack[p]) + 1, NEW n \in 0 .. Len(stack[p]),
             stack' = [stack EXCEPT ![p] = SubSeq(stack[p], m, n)]
      PROVE  Address(stack'[q][i]) = q
  <2>1. CASE q = p
    <3>1. stack'[p] = SubSeq(stack[p], m, n)
      BY <1>2 DEF TypeOK
    <3>0. stack[p] \in Seq(Conns)
      BY DEF TypeOK
    <3>2. PICK j \in DOMAIN stack[p] : SubSeq(stack[p], m, n)[i] = stack[p][j]
      BY SMTT(30), <2>1, <3>0, <3>1, CutSeq
    <3> QED  BY <2>1, <3>1, <3>2 DEF StackAddr
  <2>2. CASE q # p
    BY <1>2, <2>2 DEF StackAddr, TypeOK
  <2> QED  BY <2>1, <2>2
<1>3. ASSUME NEW h \in Hands, HandNext(h) PROVE Address(stack'[q][i]) = q
  <2>1. CASE Pop(h)
    <3>1. prov[h] \in Provs /\ stack[prov[h]] \in Seq(Conns) /\ stack[prov[h]] # <<>>
      BY <2>1 DEF Pop, TypeOK
    <3>2. Len(stack[prov[h]]) - 1 \in 0 .. Len(stack[prov[h]]) /\ 1 \in 1 .. Len(stack[prov[h]]) + 1
      BY <3>1
    <3>3. stack' = [stack EXCEPT ![prov[h]] = SubSeq(stack[prov[h]], 1, Len(stack[prov[h]]) - 1)]
      BY <2>1 DEF Pop
    <3> QED  BY <1>2, <3>1, <3>2, <3>3
  <2>2. CASE PutPush(h)
    <3>1. CASE Len(stack[prov[h]]) < Max[prov[h]]
      <4>1. prov[h] \in Provs /\ conn[h] # Nil
        BY <2>2 DEF PutPush, TypeOK
      <4>2. Address(conn[h]) = prov[h] /\ stack[prov[h]] \in Seq(Conns)
        BY <4>1 DEF HandAddr, TypeOK
      <4>3. stack' = [stack EXCEPT ![prov[h]] = Append(stack[prov[h]], conn[h])]
        BY <2>2, <3>1 DEF PutPush
      <4>4. CASE q = prov[h]
        <5>1. stack'[q] = Append(stack[q], conn[h])
          BY <4>3, <4>4 DEF TypeOK
        <5>2. stack[q] \in Seq(Conns) /\ i \in 1 .. Len(stack[q]) + 1
          BY <5>1, <4>2, <4>4
        <5>3. CASE i = Len(stack[q]) + 1
          BY <5>1, <5>2, <5>3, <4>2, <4>4
        <5>4. CASE i \in DOMAIN stack[q]
          BY <5>1, <5>2, <5>4 DEF StackAddr
        <5>5. DOMAIN stack[q] = 1 .. Len(stack[q]) /\ Len(stack[q]) \in Nat
          BY <5>2
        <5> QED  BY <5>2, <5>3, <5>4, <5>5
      <4>5. CASE q # prov[h]
        BY <4>3, <4>5 DEF StackAddr, TypeOK
      <4> QED  BY <4>4, <4>5
    <3>2. CASE ~(Len(stack[prov[h]]) < Max[prov[h]])
      BY <2>2, <3>2, <1>1 DEF PutPush
    <3> QED  BY <3>1, <3>2
  <2>3. CASE stack' = stack
    BY <2>3, <1>1
  <2> QED  BY <1>3, <2>1, <2>2, <2>3 DEF HandNext, Take, Empty, Reject, Accept, DialOk, DialFails,
              Spoil, Release, PutCheck, PutUnslot
<1>4. CASE Upkeep
  <2>1. ASSUME NEW p \in Provs, NEW n \in 0 .. Len(stack[p]), ReapPool(p, n)
        PROVE  Address(stack'[q][i]) = q
    <3>1. n + 1 \in 1 .. Len(stack[p]) + 1 /\ Len(stack[p]) \in 0 .. Len(stack[p])
      BY DEF TypeOK
    <3> QED  BY <1>2, <2>1, <3>1 DEF ReapPool
  <2>2. ASSUME NEW p \in Provs, CloseIdle(p) PROVE Address(stack'[q][i]) = q
    BY <2>2 DEF CloseIdle, StackAddr, TypeOK
  <2>3. CASE stack' = stack
    BY <2>3, <1>1
  <2> QED  BY <1>4, <2>1, <2>2, <2>3 DEF Upkeep, ReapTick, CloseBegin, CloseActive
<1>5. CASE UNCHANGED vars
  BY <1>5, <1>1 DEF vars
<1> QED  BY <1>3, <1>4, <1>5 DEF Next
LEMMA ReachableStep == TypeOK /\ InPlace /\ [Next]_vars => Reachable'
<1> SUFFICES ASSUME TypeOK, InPlace, [Next]_vars, NEW c \in open'
             PROVE  OnStack(c)' \/ InHand(c)'
    BY DEF Reachable
<1> USE DEF InPlace, Reachable
<1>0. c \in open => Address(c) \in Provs
  BY DEF TypeOK, Address
<1>1. CASE /\ c \in open /\ stack' = stack
           /\ \A g \in Hands : conn[g] = c => \E h \in Hands : conn'[h] = c
  BY <1>1 DEF OnStack, InHand
<1>3. ASSUME NEW h \in Hands, HandNext(h) PROVE OnStack(c)' \/ InHand(c)'
  <2>1. CASE Pop(h)
    <3>1. prov[h] \in Provs /\ stack[prov[h]] \in Seq(Conns) /\ stack[prov[h]] # <<>> /\ c \in open
      BY <2>1 DEF Pop, TypeOK
    <3>2. CASE InHand(c)
      BY ZenonT(60), <2>1, <3>2 DEF Pop, InHand, TypeOK
    <3>3. ASSUME OnStack(c), Address(c) # prov[h] PROVE OnStack(c)'
      BY <2>1, <3>1, <3>3, <1>0 DEF Pop, OnStack, TypeOK
    <3>4. ASSUME OnStack(c), Address(c) = prov[h] PROVE OnStack(c)' \/ InHand(c)'
      <4> DEFINE s == stack[prov[h]]
      <4>1. PICK i \in DOMAIN s : s[i] = c
        BY <3>4 DEF OnStack
      <4>2. CASE i = Len(s)
        <5>1. conn'[h] = c
          BY <2>1, <4>1, <4>2 DEF Pop, TypeOK
        <5> QED  BY <5>1 DEF InHand
      <4>3. CASE i # Len(s)
        <5>1. i \in 1 .. Len(s) - 1
          BY <3>1, <4>1, <4>3
        <5>2. stack'[Address(c)] = SubSeq(s, 1, Len(s) - 1)
          BY <2>1, <3>1, <3>4 DEF Pop, TypeOK
        <5>3. i \in DOMAIN SubSeq(s, 1, Len(s) - 1) /\ SubSeq(s, 1, Len(s) - 1)[i] = c
          BY <3>1, <4>1, <5>1
        <5> QED  BY <5>2, <5>3 DEF OnStack
      <4> QED  BY <4>2, <4>3
    <3> QED  BY <3>1, <3>2, <3>3, <3>4
  <2>2. CASE PutPush(h)
    <3>1. CASE Len(stack[prov[h]]) < Max[prov[h]]
      <4>1. prov[h] \in Provs /\ conn[h] # Nil /\ stack[prov[h]] \in Seq(Conns) /\ c \in open
        BY <2>2, <3>1 DEF PutPush, TypeOK
      <4>2. stack' = [stack EXCEPT ![prov[h]] = Append(stack[prov[h]], conn[h])]
        BY <2>2, <3>1 DEF PutPush
      <4>3. CASE conn[h] = c
        <5>1. Address(c) = prov[h]
          BY <4>1, <4>3 DEF HandAddr
        <5>2. stack'[Address(c)] = Append(stack[prov[h]], c)
          BY <4>1, <4>2, <4>3, <5>1 DEF TypeOK
        <5>3. Len(stack[prov[h]]) + 1 \in DOMAIN Append(stack[prov[h]], c)
              /\ Append(stack[prov[h]], c)[Len(stack[prov[h]]) + 1] = c
          BY <4>1, <4>3
        <5> QED  BY <5>2, <5>3 DEF OnStack
      <4>4. CASE conn[h] # c /\ InHand(c)
        BY <2>2, <3>1, <4>4 DEF PutPush, InHand, TypeOK
      <4>5. CASE OnStack(c)
        <5>1. PICK i \in DOMAIN stack[Address(c)] : stack[Address(c)][i] = c
          BY <4>5 DEF OnStack
        <5>2. CASE Address(c) = prov[h]
          <6>1. i \in DOMAIN Append(stack[prov[h]], conn[h]) /\ Append(stack[prov[h]], conn[h])[i] = c
            BY <4>1, <5>1, <5>2
          <6> QED  BY SMTT(90), <4>1, <4>2, <5>2, <6>1 DEF OnStack, TypeOK
        <5>3. CASE Address(c) # prov[h]
          BY <1>0, <4>1, <4>2, <5>1, <5>3 DEF OnStack, TypeOK
        <5> QED  BY <5>2, <5>3
      <4> QED  BY <4>1, <4>3, <4>4, <4>5
    <3>2. CASE ~(Len(stack[prov[h]]) < Max[prov[h]])
      <4>1. c \in open /\ c # conn[h] /\ stack' = stack
        BY <2>2, <3>2 DEF PutPush, CloseConns
      <4>2. \A g \in Hands : conn[g] = c => conn'[g] = c
        BY <2>2, <3>2, <4>1 DEF PutPush, ReleaseSlot, TypeOK
      <4> QED  BY <1>1, <4>1, <4>2
    <3> QED  BY <3>1, <3>2
  <2>3. CASE DialOk(h)
    <3>1. CASE c \in open
      <4>1. conn[h] = Nil /\ Nil # c
        BY <2>3, <3>1 DEF DialOk, TypeOK
      <4> QED  BY <1>1, <2>3, <3>1, <4>1 DEF DialOk, TypeOK
    <3>2. CASE c \notin open
      BY <2>3, <3>2 DEF DialOk, InHand, TypeOK
    <3> QED  BY <3>1, <3>2
  <2>4. CASE Reject(h) \/ Release(h)
    <3>1. c \in open /\ c # conn[h] /\ stack' = stack
      BY <2>4 DEF Reject, Release, CloseConns
    <3>2. \A g \in Hands : conn[g] = c => conn'[g] = c
      BY <2>4, <3>1 DEF Reject, Release, ReleaseSlot, TypeOK
    <3> QED  BY <1>1, <3>1, <3>2
  <2>5. CASE PutCheck(h)
    <3>1. CASE IsClosed(conn[h]) \/ shut
      <4>1. c \in open /\ c # conn[h] /\ stack' = stack
        BY <2>5, <3>1 DEF PutCheck, CloseConns
      <4>2. \A g \in Hands : conn[g] = c => conn'[g] = c
        BY <2>5, <3>1, <4>1 DEF PutCheck, ReleaseSlot, TypeOK
      <4> QED  BY <1>1, <4>1, <4>2
    <3>2. CASE ~(IsClosed(conn[h]) \/ shut)
      BY <1>1, <2>5, <3>2 DEF PutCheck
    <3> QED  BY <3>1, <3>2
  <2>6. CASE DialFails(h) \/ PutUnslot(h)
    <3>1. c \in open /\ stack' = stack /\ conn[h] = Nil /\ c # Nil
      BY <2>6 DEF DialFails, PutUnslot, TypeOK
    <3> QED  BY <1>1, <2>6, <3>1 DEF DialFails, PutUnslot, ReleaseSlot, TypeOK
  <2>7. CASE Empty(h) \/ Accept(h) \/ Spoil(h) \/ \E p \in Provs : Take(h, p)
    BY <1>1, <2>7 DEF Empty, Accept, Spoil, Take
  <2> QED  BY <1>3, <2>1, <2>2, <2>3, <2>4, <2>5, <2>6, <2>7 DEF HandNext
<1>4. CASE Upkeep
  <2>0. c \in open /\ conn' = conn
    BY <1>4 DEF Upkeep, ReapTick, ReapPool, CloseBegin, CloseIdle, CloseActive, CloseConns, hands
  <2>1. CASE InHand(c)
    BY <2>0, <2>1 DEF InHand
  <2>2. CASE OnStack(c)
    <3>1. PICK i \in DOMAIN stack[Address(c)] : stack[Address(c)][i] = c
      BY <2>2 DEF OnStack
    <3>2. ASSUME NEW p \in Provs, NEW n \in 0 .. Len(stack[p]), ReapPool(p, n) PROVE OnStack(c)'
      <4>1. CASE Address(c) = p
        <5>0. stack[p] \in Seq(Conns) /\ i \in 1 .. Len(stack[p]) /\ stack[p][i] = c
          BY SMTT(30), <3>1, <4>1 DEF TypeOK
        <5>1. ~(i \in 1 .. n)
          BY <2>0, <3>2, <5>0 DEF ReapPool, CloseConns
        <5>2. stack'[p] = SubSeq(stack[p], n + 1, Len(stack[p]))
          BY <3>2 DEF ReapPool, TypeOK
        <5>4. Len(stack[p]) \in Nat /\ i \in n + 1 .. Len(stack[p]) /\ n \in Nat
          BY <5>0, <5>1
        <5>3. /\ i - n \in DOMAIN SubSeq(stack[p], n + 1, Len(stack[p]))
              /\ SubSeq(stack[p], n + 1, Len(stack[p]))[i - n] = c
          BY <5>0, <5>4, DropSeq
        <5> QED  BY <4>1, <5>2, <5>3 DEF OnStack
      <4>2. CASE Address(c) # p
        BY <1>0, <2>0, <3>1, <3>2, <4>2 DEF ReapPool, OnStack, TypeOK
      <4> QED  BY <4>1, <4>2
    <3>3. ASSUME NEW p \in Provs, CloseIdle(p) PROVE OnStack(c)'
      <4>1. Address(c) # p
        BY <3>1, <3>3 DEF CloseIdle, CloseConns, Idle
      <4> QED  BY <1>0, <2>0, <3>1, <3>3, <4>1 DEF CloseIdle, OnStack, TypeOK
    <3>4. CASE stack' = stack
      BY <2>2, <3>4 DEF OnStack
    <3> QED  BY <1>4, <3>2, <3>3, <3>4 DEF Upkeep, ReapTick, CloseBegin, CloseActive
  <2> QED  BY <2>0, <2>1, <2>2
<1>5. CASE UNCHANGED vars
  BY <1>1, <1>5 DEF vars
<1> QED  BY <1>3, <1>4, <1>5 DEF Next
-----------------------------------------------------------------------------
(* The bound.  A goroutine dials only after it saw the stack empty, and then *)
(* every open connection is in a hand with a slot of its own.                *)

Connected(p) == {h \in Hands : conn[h] # Nil /\ prov[h] = p}

LEMMA SetsFinite ==
    ASSUME InPlace, NEW p \in Provs
    PROVE  /\ IsFiniteSet(OpenOf(p)) /\ Cardinality(OpenOf(p)) \in Nat
           /\ IsFiniteSet(Dialing(p)) /\ Cardinality(Dialing(p)) \in Nat
           /\ IsFiniteSet(Connected(p)) /\ Cardinality(Connected(p)) \in Nat
<1>1. OpenOf(p) \in SUBSET open /\ Dialing(p) \in SUBSET Hands /\ Connected(p) \in SUBSET Hands
  BY DEF OpenOf, Dialing, Connected
<1>2. IsFiniteSet(OpenOf(p)) /\ IsFiniteSet(Dialing(p)) /\ IsFiniteSet(Connected(p))
  BY <1>1, FS_Subset DEF InPlace, OpenFinite
<1> QED  BY <1>2, FS_CardinalityType

LEMMA EveryConnectionInUse ==
    ASSUME TypeOK, InPlace, NEW p \in Provs, stack[p] = <<>>
    PROVE  Cardinality(OpenOf(p)) <= Cardinality(Connected(p))
<1>1. \A c \in OpenOf(p) : \E h \in Connected(p) : conn[h] = c
  <2> SUFFICES ASSUME NEW c \in OpenOf(p) PROVE \E h \in Connected(p) : conn[h] = c
      OBVIOUS
  <2>1. c \in open /\ Address(c) = p /\ c # Nil
    BY DEF OpenOf, Address, TypeOK
  <2>2. ~OnStack(c)
    BY <2>1 DEF OnStack
  <2>3. PICK h \in Hands : conn[h] = c
    BY <2>1, <2>2 DEF InPlace, Reachable, InHand
  <2> QED  BY <2>1, <2>3 DEF InPlace, HandAddr, Connected
<1> DEFINE f == [c \in OpenOf(p) |-> CHOOSE h \in Connected(p) : conn[h] = c]
<1>2. f \in [OpenOf(p) -> Connected(p)] /\ \A c \in OpenOf(p) : conn[f[c]] = c
  BY <1>1
<1>3. f \in Injection(OpenOf(p), Connected(p))
  BY <1>2, Fun_IsInj
<1> HIDE DEF f
<1> QED  BY <1>3, SetsFinite, FS_Injection

LEMMA BoundAtDial ==
    ASSUME TypeOK, SlotsInv, InPlace, NEW h \in Hands, Empty(h), NEW p \in Provs, prov[h] = p
    PROVE  Cardinality(OpenOf(p)) + Cardinality(Dialing(p)) + 1 <= Max[p]
<1>0. stack[p] = <<>> /\ at[h] = "get"
  BY DEF Empty
<1> DEFINE U == Connected(p) \cup Dialing(p)
<1>1. Connected(p) \cap Dialing(p) = {}
  BY DEF Connected, Dialing, TypeOK, Stages
<1>2. IsFiniteSet(U) /\ Cardinality(U) = Cardinality(Connected(p)) + Cardinality(Dialing(p))
  <2>1. /\ IsFiniteSet(U)
        /\ Cardinality(U) = Cardinality(Connected(p)) + Cardinality(Dialing(p))
                             - Cardinality(Connected(p) \cap Dialing(p))
    BY SetsFinite, FS_Union
  <2>2. Cardinality(Connected(p) \cap Dialing(p)) = 0
    BY <1>1, FS_EmptySet
  <2> QED  BY <2>1, <2>2, SetsFinite
<1>3. h \notin U
  BY <1>0 DEF Connected, Dialing, TypeOK
<1>4. IsFiniteSet(U \cup {h}) /\ Cardinality(U \cup {h}) = Cardinality(U) + 1
  BY <1>2, <1>3, FS_AddElement
<1>5. U \cup {h} \in SUBSET Holding(p)
  BY <1>0 DEF Connected, Dialing, Holding, TypeOK, Stages
<1> HIDE DEF U
<1>6. Cardinality(U \cup {h}) <= Cardinality(Holding(p))
  BY <1>5, HoldingFinite, FS_Subset
<1>7. Cardinality(Holding(p)) <= Max[p] /\ Max[p] \in Nat
  BY DEF SlotsInv, SlotsAccounted
<1>8. Cardinality(OpenOf(p)) <= Cardinality(Connected(p))
  BY <1>0, EveryConnectionInUse
<1> QED  BY <1>2, <1>4, <1>6, <1>7, <1>8, SetsFinite, HoldingFinite

LEMMA BoundStep == TypeOK /\ SlotsInv /\ InPlace /\ ConnBound /\ [Next]_vars => ConnBound'
<1> SUFFICES ASSUME TypeOK, SlotsInv, InPlace, ConnBound, [Next]_vars, NEW p \in Provs
             PROVE  Cardinality(OpenOf(p)') + Cardinality(Dialing(p)') <= Max[p]
    BY DEF ConnBound
<1> DEFINE Goal == Cardinality(OpenOf(p)') + Cardinality(Dialing(p)') <= Max[p]
<1>0. /\ Cardinality(OpenOf(p)) + Cardinality(Dialing(p)) <= Max[p]
      /\ Cardinality(OpenOf(p)) \in Nat /\ Cardinality(Dialing(p)) \in Nat /\ Max[p] \in Nat
  BY SetsFinite DEF ConnBound
<1>1. ASSUME OpenOf(p)' \in SUBSET OpenOf(p), Dialing(p)' \in SUBSET Dialing(p) PROVE Goal
  <2>1. Cardinality(OpenOf(p)') <= Cardinality(OpenOf(p)) /\ Cardinality(Dialing(p)') <= Cardinality(Dialing(p))
    BY <1>1, SetsFinite, FS_Subset
  <2>2. Cardinality(OpenOf(p)') \in Nat /\ Cardinality(Dialing(p)') \in Nat
    BY <1>1, SetsFinite, FS_Subset, FS_CardinalityType
  <2> QED  BY <1>0, <2>1, <2>2
<1>2. ASSUME NEW h \in Hands, HandNext(h) PROVE Goal
  <2>1. CASE Empty(h)
    <3>1. OpenOf(p)' = OpenOf(p)
      BY <2>1 DEF Empty, OpenOf
    <3>2. CASE prov[h] = p
      <4>1. Dialing(p)' = Dialing(p) \cup {h} /\ h \notin Dialing(p)
        BY <2>1, <3>2 DEF Empty, Dialing, TypeOK
      <4>2. Cardinality(Dialing(p)') = Cardinality(Dialing(p)) + 1
        BY <4>1, SetsFinite, FS_AddElement
      <4> QED  BY <1>0, <2>1, <3>1, <3>2, <4>2, BoundAtDial
    <3>3. CASE prov[h] # p
      <4>1. Dialing(p)' = Dialing(p)
        BY <2>1, <3>3 DEF Empty, Dialing, TypeOK
      <4> QED  BY <1>1, <3>1, <4>1
    <3> QED  BY <3>2, <3>3
  <2>2. CASE DialOk(h)
    <3>1. PICK c \in Fresh(prov[h]) : open' = open \cup {c}
      BY <2>2 DEF DialOk
    <3>2. CASE prov[h] = p
      <4>1. OpenOf(p)' = OpenOf(p) \cup {c} /\ c \notin OpenOf(p)
        BY <3>1, <3>2 DEF OpenOf, Fresh
      <4>2. Dialing(p)' = Dialing(p) \ {h} /\ h \in Dialing(p)
        BY <2>2, <3>2 DEF DialOk, Dialing, TypeOK
      <4>3. Cardinality(OpenOf(p)') = Cardinality(OpenOf(p)) + 1
        BY <4>1, SetsFinite, FS_AddElement
      <4>4. Cardinality(Dialing(p)') = Cardinality(Dialing(p)) - 1
        BY <4>2, SetsFinite, FS_RemoveElement
      <4> QED  BY <1>0, <4>3, <4>4
    <3>3. CASE prov[h] # p
      <4>1. OpenOf(p)' = OpenOf(p)
        BY <3>1, <3>3 DEF OpenOf, Fresh
      <4>2. Dialing(p)' = Dialing(p)
        BY <2>2, <3>3 DEF DialOk, Dialing, TypeOK
      <4> QED  BY <1>1, <4>1, <4>2
    <3> QED  BY <3>2, <3>3
  <2>3. CASE ~Empty(h) /\ ~DialOk(h)
    <3>1. open' \in SUBSET open
      BY <1>2, <2>3 DEF HandNext, Take, Pop, Reject, Accept, DialFails, Spoil, Release,
                        PutCheck, PutPush, PutUnslot, CloseConns
    <3>2. Dialing(p)' \in SUBSET Dialing(p)
      BY <1>2, <2>3 DEF HandNext, Take, Pop, Reject, Accept, DialFails, Spoil, Release,
                        PutCheck, PutPush, PutUnslot, ReleaseSlot, Dialing, TypeOK
    <3> QED  BY <1>1, <3>1, <3>2 DEF OpenOf
  <2> QED  BY <2>1, <2>2, <2>3
<1>3. ASSUME Upkeep \/ UNCHANGED vars PROVE Goal
  <2>1. open' \in SUBSET open /\ at' = at /\ prov' = prov
    BY <1>3 DEF Upkeep, ReapTick, ReapPool, CloseBegin, CloseIdle, CloseActive, CloseConns, hands, vars
  <2> QED  BY <1>1, <2>1 DEF OpenOf, Dialing
<1> QED  BY <1>2, <1>3 DEF Next

-----------------------------------------------------------------------------
(* One place for each connection: no two hands hold it, it is on the stack   *)
(* once, and never in both.  This is so of the closed ones too.              *)

Unique ==
    /\ \A g, h \in Hands : conn[g] = conn[h] /\ conn[g] # Nil => g = h
    /\ \A p \in Provs : \A i, j \in DOMAIN stack[p] : stack[p][i] = stack[p][j] => i = j
    /\ \A p \in Provs : \A i \in DOMAIN stack[p] : \A h \in Hands : stack[p][i] # conn[h]

(* What is put away, or about to be, is open. *)
Live ==
    /\ \A p \in Provs : \A i \in DOMAIN stack[p] : stack[p][i] \in open
    /\ \A h \in Hands : at[h] = "push" => conn[h] \in open

LEMMA CutOnce ==
    ASSUME NEW S, NEW s \in Seq(S), NEW m \in 1 .. Len(s) + 1, NEW n \in 0 .. Len(s),
           \A i, j \in DOMAIN s : s[i] = s[j] => i = j
    PROVE  /\ \A i, j \in DOMAIN SubSeq(s, m, n) : SubSeq(s, m, n)[i] = SubSeq(s, m, n)[j] => i = j
           /\ \A i \in DOMAIN SubSeq(s, m, n) : \E k \in m .. n : k \in DOMAIN s /\ SubSeq(s, m, n)[i] = s[k]
<1> DEFINE t == SubSeq(s, m, n)
<1>1. \A i \in DOMAIN t : i + m - 1 \in m .. n /\ i + m - 1 \in DOMAIN s /\ t[i] = s[i + m - 1] /\ i \in Nat
  BY SMTT(30)
<1> HIDE DEF t
<1>2. ASSUME NEW i \in DOMAIN t, NEW j \in DOMAIN t, t[i] = t[j] PROVE i = j
  <2>1. i + m - 1 = j + m - 1 /\ i \in Nat /\ j \in Nat /\ m \in Nat
    BY <1>1, <1>2
  <2> QED  BY <2>1
<1> QED  BY <1>1, <1>2 DEF t

(* A stack loses its top or its bottom, and no hand gains anything. *)
LEMMA UniqueAfterCut ==
    ASSUME TypeOK, Unique, NEW p \in Provs, NEW m \in 1 .. Len(stack[p]) + 1, NEW n \in 0 .. Len(stack[p]),
           stack' = [stack EXCEPT ![p] = SubSeq(stack[p], m, n)]
    PROVE  /\ \A q \in Provs : \A i, j \in DOMAIN stack'[q] : stack'[q][i] = stack'[q][j] => i = j
           /\ \A q \in Provs : \A i \in DOMAIN stack'[q] :
                \E k \in DOMAIN stack[q] : stack'[q][i] = stack[q][k] /\ (q = p => k \in m .. n)
<1>1. stack[p] \in Seq(Conns) /\ \A i, j \in DOMAIN stack[p] : stack[p][i] = stack[p][j] => i = j
  BY DEF TypeOK, Unique
<1>2. stack'[p] = SubSeq(stack[p], m, n) /\ \A q \in Provs \ {p} : stack'[q] = stack[q]
  BY DEF TypeOK
<1> DEFINE s == stack[p]
           t == SubSeq(s, m, n)
<1>a. s \in Seq(Conns) /\ \A i, j \in DOMAIN s : s[i] = s[j] => i = j
  BY <1>1
<1>b. m \in 1 .. Len(s) + 1 /\ n \in 0 .. Len(s)
  OBVIOUS
<1> HIDE DEF s
<1>c. /\ \A i, j \in DOMAIN t : t[i] = t[j] => i = j
      /\ \A i \in DOMAIN t : \E k \in m .. n : k \in DOMAIN s /\ t[i] = s[k]
  BY <1>a, <1>b, CutOnce
<1>d. stack'[p] = t
  BY <1>2 DEF s
<1>3. /\ \A i, j \in DOMAIN stack'[p] : stack'[p][i] = stack'[p][j] => i = j
      /\ \A i \in DOMAIN stack'[p] : \E k \in m .. n : k \in DOMAIN stack[p] /\ stack'[p][i] = stack[p][k]
  <2> HIDE DEF t
  <2> QED  BY ZenonT(120), <1>c, <1>d DEF s
<1>4. ASSUME NEW q \in Provs \ {p}
      PROVE  /\ \A i, j \in DOMAIN stack'[q] : stack'[q][i] = stack'[q][j] => i = j
             /\ \A i \in DOMAIN stack'[q] : \E k \in DOMAIN stack[q] : stack'[q][i] = stack[q][k]
  BY <1>2 DEF Unique
<1>5. ASSUME NEW q \in Provs, NEW i \in DOMAIN stack'[q], NEW j \in DOMAIN stack'[q], stack'[q][i] = stack'[q][j]
      PROVE  i = j
  <2>1. CASE q = p
    BY <1>3, <1>5, <2>1
  <2>2. CASE q # p
    BY <1>4, <1>5, <2>2
  <2> QED  BY <2>1, <2>2
<1>6. ASSUME NEW q \in Provs, NEW i \in DOMAIN stack'[q]
      PROVE  \E k \in DOMAIN stack[q] : stack'[q][i] = stack[q][k] /\ (q = p => k \in m .. n)
  <2>1. CASE q = p
    BY <1>3, <2>1
  <2>2. CASE q # p
    BY <1>4, <2>2
  <2> QED  BY <2>1, <2>2
<1> QED  BY <1>5, <1>6

(* Hands keep what they hold or let go of it. *)
LEMMA UniqueAfterLetGo ==
    ASSUME TypeOK, Unique, stack' = stack, \A h \in Hands : conn'[h] = conn[h] \/ conn'[h] = Nil
    PROVE  Unique'
<1>1. \A p \in Provs : \A i \in DOMAIN stack[p] : stack[p][i] # Nil
  BY DEF TypeOK
<1>2. \A g, h \in Hands : conn'[g] = conn'[h] /\ conn'[g] # Nil => g = h
  BY DEF Unique
<1>3. \A p \in Provs : \A i, j \in DOMAIN stack'[p] : stack'[p][i] = stack'[p][j] => i = j
  BY DEF Unique
<1>4. \A p \in Provs : \A i \in DOMAIN stack'[p] : \A h \in Hands : stack'[p][i] # conn'[h]
  BY <1>1 DEF Unique
<1> QED  BY <1>2, <1>3, <1>4 DEF Unique

LEMMA UniqueStep == TypeOK /\ InPlace /\ Unique /\ [Next]_vars => Unique'
<1> SUFFICES ASSUME TypeOK, InPlace, Unique, [Next]_vars PROVE Unique'
    OBVIOUS
<1>a. \A p \in Provs : stack[p] \in Seq(Conns) /\ Len(stack[p]) \in Nat /\ DOMAIN stack[p] = 1 .. Len(stack[p])
  BY DEF TypeOK
<1>b. \A p, q \in Provs : \A i \in DOMAIN stack[p], j \in DOMAIN stack[q] : p # q => stack[p][i] # stack[q][j]
  BY DEF InPlace, StackAddr
<1>1. ASSUME NEW h \in Hands, HandNext(h) PROVE Unique'
  <2>1. CASE Pop(h)
    <3> DEFINE p == prov[h]
               s == stack[p]
    <3>1. p \in Provs /\ s \in Seq(Conns) /\ s # <<>> /\ Len(s) \in DOMAIN s /\ Len(s) - 1 \in 0 .. Len(s) /\ 1 \in 1 .. Len(s) + 1
      BY <2>1, <1>a DEF Pop, TypeOK
    <3>2. stack' = [stack EXCEPT ![p] = SubSeq(s, 1, Len(s) - 1)] /\ conn' = [conn EXCEPT ![h] = s[Len(s)]]
      BY <2>1 DEF Pop
    <3>3. /\ \A q \in Provs : \A i, j \in DOMAIN stack'[q] : stack'[q][i] = stack'[q][j] => i = j
          /\ \A q \in Provs : \A i \in DOMAIN stack'[q] :
               \E k \in DOMAIN stack[q] : stack'[q][i] = stack[q][k] /\ (q = p => k \in 1 .. Len(s) - 1)
      BY <3>1, <3>2, UniqueAfterCut
    <3>4. conn'[h] = s[Len(s)] /\ \A g \in Hands \ {h} : conn'[g] = conn[g] /\ conn[g] # s[Len(s)]
      BY <3>1, <3>2 DEF TypeOK, Unique
    <3>5. \A f, g \in Hands : conn'[f] = conn'[g] /\ conn'[f] # Nil => f = g
      BY <3>4 DEF Unique
    <3>6. ASSUME NEW q \in Provs, NEW i \in DOMAIN stack'[q], NEW g \in Hands PROVE stack'[q][i] # conn'[g]
      <4>1. PICK k \in DOMAIN stack[q] : stack'[q][i] = stack[q][k] /\ (q = p => k \in 1 .. Len(s) - 1)
        BY <3>3
      <4>2. CASE g # h
        BY <3>4, <4>1, <4>2 DEF Unique
      <4>3. CASE g = h /\ q # p
        BY <3>1, <3>4, <4>1, <4>3, <1>b
      <4>4. CASE g = h /\ q = p
        <5>1. k # Len(s) /\ k \in DOMAIN s /\ stack'[q][i] = s[k]
          BY <3>1, <4>1, <4>4
        <5> QED  BY <3>1, <3>4, <4>4, <5>1 DEF Unique
      <4> QED  BY <4>2, <4>3, <4>4
    <3> QED  BY <3>3, <3>5, <3>6 DEF Unique
  <2>2. CASE PutPush(h)
    <3>1. CASE Len(stack[prov[h]]) < Max[prov[h]]
      <4> DEFINE p == prov[h]
                 s == stack[p]
      <4>1. p \in Provs /\ s \in Seq(Conns) /\ conn[h] \in Conns
        BY <2>2 DEF PutPush, TypeOK
      <4>2. stack' = [stack EXCEPT ![p] = Append(s, conn[h])] /\ conn' = [conn EXCEPT ![h] = Nil]
        BY <2>2, <3>1 DEF PutPush
      <4>3. stack'[p] = Append(s, conn[h]) /\ \A q \in Provs \ {p} : stack'[q] = stack[q]
        BY <4>1, <4>2 DEF TypeOK
      <4>4. \A i \in DOMAIN stack'[p] : IF i \in DOMAIN s THEN stack'[p][i] = s[i] ELSE i = Len(s) + 1 /\ stack'[p][i] = conn[h]
        BY <4>1, <4>3
      <4>5. \A g \in Hands : conn'[g] = IF g = h THEN Nil ELSE conn[g]
        BY <4>2 DEF TypeOK
      <4>6. \A f, g \in Hands : conn'[f] = conn'[g] /\ conn'[f] # Nil => f = g
        BY <4>5 DEF Unique
      <4>7. \A i, j \in DOMAIN stack'[p] : stack'[p][i] = stack'[p][j] => i = j
        BY SMTT(30), <4>1, <4>4 DEF Unique
      <4>8. \A q \in Provs \ {p} : \A i, j \in DOMAIN stack'[q] : stack'[q][i] = stack'[q][j] => i = j
        BY <4>3 DEF Unique
      <4>9. ASSUME NEW q \in Provs, NEW i \in DOMAIN stack'[q], NEW g \in Hands PROVE stack'[q][i] # conn'[g]
        <5>1. stack'[q][i] = conn[h] \/ (i \in DOMAIN stack[q] /\ stack'[q][i] = stack[q][i])
          BY <4>3, <4>4
        <5>2. stack'[q][i] # Nil
          BY SMTT(30), <5>1, <4>1 DEF TypeOK
        <5>3. g # h => stack'[q][i] # conn[g]
          BY <5>1, <4>1 DEF Unique
        <5> QED  BY <4>5, <5>2, <5>3
      <4> QED  BY <4>6, <4>7, <4>8, <4>9 DEF Unique
    <3>2. CASE ~(Len(stack[prov[h]]) < Max[prov[h]])
      BY <2>2, <3>2, UniqueAfterLetGo DEF PutPush, ReleaseSlot, TypeOK
    <3> QED  BY <3>1, <3>2
  <2>3. CASE DialOk(h)
    <3>1. PICK c \in Fresh(prov[h]) : conn' = [conn EXCEPT ![h] = c]
      BY <2>3 DEF DialOk
    <3>2. prov[h] \in Provs /\ stack' = stack
      BY <2>3 DEF DialOk, TypeOK
    <3>3. /\ \A g \in Hands : conn[g] # c
          /\ \A q \in Provs : \A i \in DOMAIN stack[q] : stack[q][i] # c
      <4>1. c \in Conns /\ Address(c) = prov[h] /\ c # Nil /\ c \notin Held /\ c \notin Idle(prov[h])
        BY <3>1, <3>2 DEF Fresh, Address
      <4>2. \A g \in Hands : conn[g] # c
        BY <4>1 DEF Held
      <4>3. ASSUME NEW q \in Provs, NEW i \in DOMAIN stack[q] PROVE stack[q][i] # c
        <5>1. CASE q = prov[h]
          BY <4>1, <5>1 DEF Idle
        <5>2. CASE q # prov[h]
          BY <4>1, <5>2 DEF InPlace, StackAddr
        <5> QED  BY <5>1, <5>2
      <4> QED  BY <4>2, <4>3
    <3>4. \A g \in Hands : conn'[g] = IF g = h THEN c ELSE conn[g]
      BY <3>1 DEF TypeOK
    <3> QED  BY <3>2, <3>3, <3>4 DEF Unique
  <2>4. CASE Reject(h) \/ DialFails(h) \/ Release(h) \/ PutUnslot(h)
    BY <2>4, UniqueAfterLetGo DEF Reject, DialFails, Release, PutUnslot, ReleaseSlot, TypeOK
  <2>5. CASE PutCheck(h)
    BY <2>5, UniqueAfterLetGo DEF PutCheck, ReleaseSlot, TypeOK
  <2>6. CASE Empty(h) \/ Accept(h) \/ Spoil(h) \/ \E p \in Provs : Take(h, p)
    BY <2>6, UniqueAfterLetGo DEF Empty, Accept, Spoil, Take
  <2> QED  BY <1>1, <2>1, <2>2, <2>3, <2>4, <2>5, <2>6 DEF HandNext
<1>2. ASSUME NEW p \in Provs, NEW m \in 1 .. Len(stack[p]) + 1, NEW n \in 0 .. Len(stack[p]),
             stack' = [stack EXCEPT ![p] = SubSeq(stack[p], m, n)], conn' = conn
      PROVE  Unique'
  <2>1. \A q \in Provs : \A i, j \in DOMAIN stack'[q] : stack'[q][i] = stack'[q][j] => i = j
    BY <1>2, UniqueAfterCut
  <2>2. \A q \in Provs : \A i \in DOMAIN stack'[q] : \E k \in DOMAIN stack[q] : stack'[q][i] = stack[q][k]
    <3>1. \A q \in Provs : \A i \in DOMAIN stack'[q] :
                \E k \in DOMAIN stack[q] : stack'[q][i] = stack[q][k] /\ (q = p => k \in m .. n)
      BY <1>2, UniqueAfterCut
    <3> QED  BY ONLY <3>1, Zenon
  <2> QED  BY SMTT(30), <1>2, <2>1, <2>2 DEF Unique
<1>3. CASE Upkeep
  <2>1. ASSUME NEW p \in Provs, NEW n \in 0 .. Len(stack[p]), ReapPool(p, n) PROVE Unique'
    <3>1. n + 1 \in 1 .. Len(stack[p]) + 1 /\ Len(stack[p]) \in 0 .. Len(stack[p])
      BY <1>a
    <3> QED  BY <2>1, <3>1, <1>2 DEF ReapPool, hands
  <2>2. ASSUME NEW p \in Provs, CloseIdle(p) PROVE Unique'
    <3>1. stack'[p] = <<>> /\ conn' = conn /\ \A q \in Provs \ {p} : stack'[q] = stack[q]
      BY <2>2 DEF CloseIdle, hands, TypeOK
    <3>2. DOMAIN stack'[p] = {}
      BY <3>1
    <3>3. ASSUME NEW q \in Provs, NEW i \in DOMAIN stack'[q] PROVE q # p /\ stack'[q] = stack[q]
      BY <3>1, <3>2, <3>3
    <3> QED  BY <3>1, <3>3 DEF Unique
  <2>3. CASE stack' = stack /\ conn' = conn
    BY <2>3, UniqueAfterLetGo
  <2> QED  BY <1>3, <2>1, <2>2, <2>3 DEF Upkeep, ReapTick, CloseBegin, CloseActive, hands
<1>4. CASE UNCHANGED vars
  BY <1>4, UniqueAfterLetGo DEF vars
<1> QED  BY <1>1, <1>3, <1>4 DEF Next

LEMMA LiveStep == TypeOK /\ InPlace /\ Unique /\ Live /\ [Next]_vars => Live'
<1> SUFFICES ASSUME TypeOK, InPlace, Unique, Live, [Next]_vars PROVE Live'
    OBVIOUS
<1>a. \A p \in Provs : stack[p] \in Seq(Conns) /\ Len(stack[p]) \in Nat /\ DOMAIN stack[p] = 1 .. Len(stack[p])
  BY DEF TypeOK
<1>b. \A p, q \in Provs : \A i \in DOMAIN stack[p], j \in DOMAIN stack[q] : p # q => stack[p][i] # stack[q][j]
  BY DEF InPlace, StackAddr
(* A step that closes at most what hand h holds, and puts nothing away. *)
<1>c. ASSUME NEW h \in Hands, stack' = stack, open \ {conn[h]} \subseteq open', 
             \A g \in Hands : at'[g] = "push" => at[g] = "push" /\ g # h /\ conn'[g] = conn[g]
      PROVE  Live'
  <2>1. \A p \in Provs : \A i \in DOMAIN stack[p] : stack[p][i] \in open'
    BY <1>c DEF Live, Unique
  <2>2. ASSUME NEW g \in Hands, at'[g] = "push" PROVE conn'[g] \in open'
    <3>1. at[g] = "push" /\ g # h /\ conn'[g] = conn[g] /\ conn[g] \in open /\ conn[g] # Nil
      BY <1>c, <2>2 DEF Live, TypeOK
    <3>2. conn[g] # conn[h]
      BY <3>1 DEF Unique
    <3> QED  BY <1>c, <3>1, <3>2
  <2> QED  BY <1>c, <2>1, <2>2 DEF Live
<1>1. ASSUME NEW h \in Hands, HandNext(h) PROVE Live'
  <2>1. CASE Pop(h)
    <3> DEFINE p == prov[h]
               s == stack[p]
    <3>1. p \in Provs /\ s \in Seq(Conns) /\ s # <<>> /\ Len(s) - 1 \in 0 .. Len(s) /\ 1 \in 1 .. Len(s) + 1
      BY <2>1, <1>a DEF Pop, TypeOK
    <3>2. stack' = [stack EXCEPT ![p] = SubSeq(s, 1, Len(s) - 1)]
      BY <2>1 DEF Pop
    <3>3. \A q \in Provs : \A i \in DOMAIN stack'[q] : \E k \in DOMAIN stack[q] : stack'[q][i] = stack[q][k]
      BY <3>1, <3>2, UniqueAfterCut
    <3>4. open' = open /\ \A g \in Hands : at'[g] = "push" => at[g] = "push" /\ conn'[g] = conn[g]
      BY <2>1 DEF Pop, TypeOK
    <3> QED  BY <3>3, <3>4 DEF Live
  <2>2. CASE PutPush(h)
    <3>1. CASE Len(stack[prov[h]]) < Max[prov[h]]
      <4> DEFINE p == prov[h]
                 s == stack[p]
      <4>1. p \in Provs /\ s \in Seq(Conns) /\ conn[h] \in open /\ open' = open
        BY <2>2, <3>1 DEF PutPush, TypeOK, Live
      <4>2. stack'[p] = Append(s, conn[h]) /\ \A q \in Provs \ {p} : stack'[q] = stack[q]
        BY <4>1, <2>2, <3>1 DEF PutPush, TypeOK
      <4>3. \A i \in DOMAIN stack'[p] : stack'[p][i] = conn[h] \/ (i \in DOMAIN s /\ stack'[p][i] = s[i])
        BY <4>1, <4>2
      <4>4. \A g \in Hands : at'[g] = "push" => at[g] = "push" /\ conn'[g] = conn[g]
        BY <2>2, <3>1 DEF PutPush, TypeOK
      <4> QED  BY <4>1, <4>2, <4>3, <4>4 DEF Live
    <3>2. CASE ~(Len(stack[prov[h]]) < Max[prov[h]])
      <4>1. stack' = stack /\ open' = open \ {conn[h]}
        BY <2>2, <3>2 DEF PutPush, CloseConns
      <4>2. \A g \in Hands : at'[g] = "push" => at[g] = "push" /\ g # h /\ conn'[g] = conn[g]
        BY <2>2, <3>2 DEF PutPush, ReleaseSlot, TypeOK
      <4> QED  BY <4>1, <4>2, <1>c
    <3> QED  BY <3>1, <3>2
  <2>3. CASE PutCheck(h)
    <3>1. CASE IsClosed(conn[h]) \/ shut
      <4>1. stack' = stack /\ open' = open \ {conn[h]}
        BY <2>3, <3>1 DEF PutCheck, CloseConns
      <4>2. \A g \in Hands : at'[g] = "push" => at[g] = "push" /\ g # h /\ conn'[g] = conn[g]
        BY <2>3, <3>1 DEF PutCheck, ReleaseSlot, TypeOK
      <4> QED  BY <4>1, <4>2, <1>c
    <3>2. CASE ~(IsClosed(conn[h]) \/ shut)
      BY <2>3, <3>2 DEF PutCheck, IsClosed, Live, TypeOK
    <3> QED  BY <3>1, <3>2
  <2>4. CASE Reject(h) \/ Release(h)
    <3>1. stack' = stack /\ open' = open \ {conn[h]}
      BY <2>4 DEF Reject, Release, CloseConns
    <3>2. \A g \in Hands : at'[g] = "push" => at[g] = "push" /\ g # h /\ conn'[g] = conn[g]
      BY <2>4 DEF Reject, Release, ReleaseSlot, TypeOK
    <3> QED  BY <3>1, <3>2, <1>c
  <2>5. CASE DialFails(h) \/ PutUnslot(h) \/ Empty(h) \/ Accept(h) \/ DialOk(h) \/ \E p \in Provs : Take(h, p)
    <3>1. stack' = stack /\ open \subseteq open'
      BY <2>5 DEF DialFails, PutUnslot, Empty, Accept, DialOk, Take
    <3>2. \A g \in Hands : at'[g] = "push" => at[g] = "push" /\ g # h /\ conn'[g] = conn[g]
      BY <2>5 DEF DialFails, PutUnslot, Empty, Accept, DialOk, Take, ReleaseSlot, TypeOK
    <3> QED  BY <3>1, <3>2, <1>c
  <2>6. CASE Spoil(h)
    BY <2>6 DEF Spoil, Live
  <2> QED  BY <1>1, <2>1, <2>2, <2>3, <2>4, <2>5, <2>6 DEF HandNext
<1>3. CASE Upkeep
  <2>1. ASSUME NEW p \in Provs, NEW n \in 0 .. Len(stack[p]), ReapPool(p, n) PROVE Live'
    <3>1. n + 1 \in 1 .. Len(stack[p]) + 1 /\ Len(stack[p]) \in 0 .. Len(stack[p]) /\ n \in Nat
      BY <1>a
    <3>2. /\ stack' = [stack EXCEPT ![p] = SubSeq(stack[p], n + 1, Len(stack[p]))]
          /\ open' = open \ {stack[p][i] : i \in 1 .. n} /\ at' = at /\ conn' = conn
      BY <2>1 DEF ReapPool, CloseConns, hands
    <3>3. \A q \in Provs : \A i \in DOMAIN stack'[q] :
             \E k \in DOMAIN stack[q] : stack'[q][i] = stack[q][k] /\ (q = p => k \in n + 1 .. Len(stack[p]))
      BY <3>1, <3>2, UniqueAfterCut
    <3>4. \A j \in 1 .. n : j \in DOMAIN stack[p]
      BY <1>a
    <3>5. ASSUME NEW q \in Provs, NEW i \in DOMAIN stack'[q] PROVE stack'[q][i] \in open'
      <4>1. PICK k \in DOMAIN stack[q] : stack'[q][i] = stack[q][k] /\ (q = p => k \in n + 1 .. Len(stack[p]))
        BY <3>3
      <4>2. ASSUME NEW j \in 1 .. n PROVE stack[q][k] # stack[p][j]
        <5>1. CASE q # p
          BY <3>4, <4>1, <5>1, <1>b
        <5>2. CASE q = p
          <6>1. k # j /\ j \in DOMAIN stack[p]
            BY <3>1, <3>4, <4>1, <5>2
          <6> QED  BY <6>1, <4>1, <5>2 DEF Unique
        <5> QED  BY <5>1, <5>2
      <4>3. stack[q][k] \in open
        BY <4>1 DEF Live
      <4> QED  BY SMTT(30), <3>2, <4>1, <4>2, <4>3
    <3>6. ASSUME NEW h \in Hands, at'[h] = "push" PROVE conn'[h] \in open'
      <4>1. conn[h] \in open /\ \A j \in 1 .. n : stack[p][j] # conn[h]
        BY <3>2, <3>4, <3>6 DEF Live, Unique
      <4> QED  BY <3>2, <4>1
    <3> QED  BY <3>5, <3>6 DEF Live
  <2>2. ASSUME NEW p \in Provs, CloseIdle(p) PROVE Live'
    <3>1. /\ stack' = [stack EXCEPT ![p] = <<>>] /\ open' = open \ Idle(p) /\ at' = at /\ conn' = conn
      BY <2>2 DEF CloseIdle, CloseConns, hands
    <3>2. ASSUME NEW q \in Provs, NEW i \in DOMAIN stack'[q] PROVE stack'[q][i] \in open'
      <4>1. q # p /\ stack'[q] = stack[q]
        BY <3>1, <3>2 DEF TypeOK
      <4>2. stack[q][i] \notin Idle(p)
        BY <4>1, <3>2, <1>b DEF Idle
      <4> QED  BY <3>1, <3>2, <4>1, <4>2 DEF Live
    <3>3. ASSUME NEW h \in Hands, at'[h] = "push" PROVE conn'[h] \in open'
      BY <3>1, <3>3 DEF Live, Unique, Idle
    <3> QED  BY <3>2, <3>3 DEF Live
  <2>3. ASSUME NEW p \in Provs, CloseActive(p) PROVE Live'
    <3>1. /\ stack' = stack /\ open' = open \ Active(p) /\ at' = at /\ conn' = conn
      BY <2>3 DEF CloseActive, CloseConns, hands
    <3>2. \A q \in Provs : \A i \in DOMAIN stack[q] : stack[q][i] \notin Active(p)
      BY DEF Active, Unique
    <3>3. ASSUME NEW h \in Hands, at[h] = "push" PROVE conn[h] \notin Active(p)
      <4>1. conn[h] # Nil
        BY <3>3 DEF TypeOK
      <4>2. \A g \in Hands : at[g] = "out" => conn[g] # conn[h]
        BY <3>3, <4>1 DEF Unique
      <4> QED  BY <4>2 DEF Active
    <3> QED  BY <3>1, <3>2, <3>3 DEF Live
  <2>4. CASE UNCHANGED <<stack, open, at, conn>>
    BY <2>4 DEF Live
  <2> QED  BY <1>3, <2>1, <2>2, <2>3, <2>4 DEF Upkeep, ReapTick, CloseBegin, hands
<1>4. CASE UNCHANGED vars
  BY <1>4 DEF vars, Live
<1> QED  BY <1>1, <1>3, <1>4 DEF Next

LEMMA OwnerFound == TypeOK /\ InPlace /\ Unique => OneOwner
<1> SUFFICES ASSUME TypeOK, InPlace, Unique, NEW c \in open
             PROVE  /\ Cardinality({i \in DOMAIN stack[Address(c)] : stack[Address(c)][i] = c})
                        + Cardinality({h \in Hands : conn[h] = c}) = 1
                    /\ \A h \in Hands : conn[h] = c => prov[h] = Address(c)
  BY DEF OneOwner
<1> DEFINE p == Address(c)
           spots == {i \in DOMAIN stack[p] : stack[p][i] = c}
           mine == {h \in Hands : conn[h] = c}
<1>0. p \in Provs /\ c # Nil
  BY DEF TypeOK, Address
<1>1. \A h \in Hands : conn[h] = c => prov[h] = p
  BY <1>0 DEF InPlace, HandAddr
<1>2. CASE OnStack(c)
  <2>1. PICK i \in DOMAIN stack[p] : stack[p][i] = c
    BY <1>2 DEF OnStack
  <2>2. spots = {i}
    BY <1>0, <2>1 DEF Unique
  <2>3. mine = {}
    BY <1>0, <2>1 DEF Unique
  <2>4. Cardinality(spots) = 1 /\ Cardinality(mine) = 0
    BY <2>2, <2>3, FS_Singleton, FS_EmptySet
  <2> QED  BY <1>1, <2>4
<1>3. CASE ~OnStack(c)
  <2>1. spots = {}
    BY <1>3 DEF OnStack
  <2>2. PICK h \in Hands : conn[h] = c
    BY <1>3 DEF InPlace, Reachable, InHand
  <2>3. mine = {h}
    BY <1>0, <2>2 DEF Unique
  <2>4. Cardinality(spots) = 0 /\ Cardinality(mine) = 1
    BY <2>1, <2>3, FS_Singleton, FS_EmptySet
  <2> QED  BY <1>1, <2>4
<1> QED  BY <1>2, <1>3

(* The connections of a stack are so many different open ones, and the one a *)
(* hand is about to push is another.                                         *)
LEMMA RoomFound == TypeOK /\ InPlace /\ ConnBound /\ Unique /\ Live => StackHasRoom
<1> SUFFICES ASSUME TypeOK, InPlace, ConnBound, Unique, Live, NEW h \in Hands, at[h] = "push"
             PROVE  Len(stack[prov[h]]) < Max[prov[h]]
  BY DEF StackHasRoom
<1>0. prov[h] \in Provs /\ conn[h] # Nil /\ conn[h] \in open
  BY DEF TypeOK, Live
<1> DEFINE p == prov[h]
           s == stack[p]
           D == 1 .. Len(s)
           rest == OpenOf(p) \ {conn[h]}
<1>1. s \in Seq(Conns) /\ Len(s) \in Nat /\ DOMAIN s = D /\ Max[p] \in Nat
  BY <1>0 DEF TypeOK
<1>2. conn[h] \in OpenOf(p)
  BY <1>0 DEF InPlace, HandAddr, Address, OpenOf, TypeOK
<1>3. ASSUME NEW i \in D PROVE s[i] \in rest
  <2>1. s[i] \in open /\ s[i] # conn[h]
    BY <1>0, <1>1 DEF Live, Unique
  <2>2. Address(s[i]) = p
    BY <1>0, <1>1 DEF InPlace, StackAddr
  <2>3. s[i] \in {p} \X Ids
    BY <2>1, <2>2 DEF Address, TypeOK
  <2> QED  BY <2>1, <2>3 DEF OpenOf
<1>4. \A i, j \in D : s[i] = s[j] => i = j
  BY <1>0, <1>1 DEF Unique
<1> DEFINE f == [i \in D |-> s[i]]
<1>5. f \in Injection(D, rest)
  <2>1. f \in [D -> rest] /\ \A i, j \in D : f[i] = f[j] => i = j
    BY <1>3, <1>4
  <2> HIDE DEF f, D, rest
  <2> QED  BY <2>1, Fun_IsInj
<1>6. IsFiniteSet(rest) /\ Cardinality(rest) = Cardinality(OpenOf(p)) - 1
  BY <1>0, <1>2, SetsFinite, FS_RemoveElement
<1>7. Cardinality(D) = Len(s)
  <2>1. \A n \in Nat : Cardinality(1 .. n) = n
    BY FS_Interval
  <2> QED  BY <1>1, <2>1
<1>8. Cardinality(D) <= Cardinality(rest)
  BY <1>5, <1>6, FS_Injection
<1>9. Cardinality(OpenOf(p)) <= Max[p] /\ Cardinality(OpenOf(p)) \in Nat
  BY <1>0, <1>1, SetsFinite DEF ConnBound
<1> HIDE DEF D, rest, s, p
<1> QED  BY <1>1, <1>6, <1>7, <1>8, <1>9 DEF s, p
-----------------------------------------------------------------------------
(* Theorems                                                                *)

IInv == TypeOK /\ SlotsInv /\ InPlace /\ ConnBound /\ Unique /\ Live

LEMMA InvInit == Init => IInv
<1> SUFFICES ASSUME Init PROVE IInv
    OBVIOUS
<1>1. TypeOK
  <2>1. stack \in [Provs -> Seq(Conns)] /\ slots \in [Provs -> Nat]
    BY DEF Init
  <2>2. open \subseteq Conns /\ spoiled \subseteq open /\ shut \in BOOLEAN
        /\ toDrain \subseteq Provs /\ toKill \subseteq Provs /\ sweep \subseteq Provs
    BY DEF Init
  <2>3. at \in [Hands -> Stages] /\ prov \in [Hands -> Provs \cup {Nil}] /\ conn \in [Hands -> Conns \cup {Nil}]
    BY DEF Init, Stages
  <2>4. \A h \in Hands : at[h] = "none" /\ prov[h] = Nil /\ conn[h] = Nil
    BY DEF Init
  <2> QED  BY <2>1, <2>2, <2>3, <2>4 DEF TypeOK
<1>2. \A p \in Provs : Holding(p) = {} /\ OpenOf(p) = {} /\ Dialing(p) = {}
  BY DEF Init, Holding, OpenOf, Dialing
<1>3. \A p \in Provs : Max[p] \in Nat
  OBVIOUS
<1>4. SlotsInv
  <2>1. \A p \in Provs : slots[p] = 0 /\ Cardinality(Holding(p)) = 0
    BY <1>2, FS_EmptySet DEF Init
  <2> QED  BY <1>3, <2>1 DEF SlotsInv, SlotsAccounted
<1>5. InPlace
  BY FS_EmptySet DEF Init, InPlace, OpenFinite, HandAddr, StackAddr, Reachable
<1>6. ConnBound
  BY <1>2, <1>3, FS_EmptySet DEF ConnBound
<1>7. Unique /\ Live
  BY DEF Init, Unique, Live
<1> QED  BY <1>1, <1>4, <1>5, <1>6, <1>7 DEF IInv

LEMMA InvStep == IInv /\ [Next]_vars => IInv'
<1> SUFFICES ASSUME IInv, [Next]_vars PROVE IInv'
    OBVIOUS
<1>1. TypeOK'
  BY TypeStep DEF IInv, SlotsInv
<1>2. SlotsInv'
  BY SlotsStep DEF IInv
<1>3. InPlace'
  BY OpenFiniteStep, HandAddrStep, StackAddrStep, ReachableStep DEF IInv, InPlace
<1>4. ConnBound'
  BY BoundStep DEF IInv
<1>5. Unique' /\ Live'
  BY UniqueStep, LiveStep DEF IInv
<1> QED  BY <1>1, <1>2, <1>3, <1>4, <1>5 DEF IInv

LEMMA PoolInvariant == Spec => []IInv
<1> QED  BY InvInit, InvStep, PTL DEF Spec

(* Client.getOrCreateFromPool, put and release keep their variables in the   *)
(* types of the code: a hand has a provider exactly while it has a slot.     *)
THEOREM PoolTypeCorrect == Spec => []TypeOK
<1>1. IInv => TypeOK
  BY DEF IInv
<1> QED  BY <1>1, PoolInvariant, PTL

(* The semaphore of a provider counts the goroutines that will give a slot   *)
(* back, whatever path of acquire, put, release or Close they take.          *)
THEOREM PoolSlotsAccounted == Spec => []SlotsAccounted
<1>1. IInv => SlotsAccounted
  BY DEF IInv, SlotsInv
<1> QED  BY <1>1, PoolInvariant, PTL

(* The account limit: open connections and dials of one provider never       *)
(* exceed MaxConnections, although an idle connection holds no slot.         *)
THEOREM PoolConnBound == Spec => []ConnBound
<1>1. IInv => ConnBound
  BY DEF IInv
<1> QED  BY <1>1, PoolInvariant, PTL

(* An open connection is on its provider's stack or in one goroutine's hands, *)
(* once: getOrCreateFromPool, put, the reaper and Close never leave two       *)
(* goroutines with one connection, or a connection that nobody will close.    *)
THEOREM PoolOneOwner == Spec => []OneOwner
<1>1. IInv => OneOwner
  BY OwnerFound DEF IInv
<1> QED  BY <1>1, PoolInvariant, PTL

(* "Cap stack size (shouldn't happen with semaphore, but be safe)": put never *)
(* finds the stack full, although the slot it pushes under may be one that    *)
(* the semaphore no longer counts against the idle ones.                      *)
THEOREM PoolStackHasRoom == Spec => []StackHasRoom
<1>1. IInv => StackHasRoom
  BY RoomFound DEF IInv
<1> QED  BY <1>1, PoolInvariant, PTL
=============================================================================
