-------------------------------- MODULE NntpPool --------------------------------
(***************************************************************************)
(* internal/nntp/client.go, ProviderPool: the connections to each news     *)
(* provider, a LIFO stack of idle ones under a mutex and a semaphore of    *)
(* MaxConnections slots.                                                   *)
(*                                                                         *)
(* A hand is a place in the code that may hold one slot, and with it one   *)
(* connection: a goroutine's local variable.  Who owns which hand, and     *)
(* when it reaches out, is NntpFailover's business; here every hand does   *)
(* whatever the pool allows.                                               *)
(***************************************************************************)
EXTENDS Integers, Sequences, FiniteSets

CONSTANTS
    Provs,      \* provider hosts
    Max,        \* Max[p]: UsenetProvider.MaxConnections
    Ids,        \* bound: the connections to one provider known at once
    Hands,      \* places that hold a slot
    Nil         \* no connection, no provider

ASSUME PoolAssumption == /\ IsFiniteSet(Provs) /\ IsFiniteSet(Hands)
                         /\ Max \in [Provs -> Nat \ {0}]
                         /\ Nil \notin Provs /\ Nil \notin Provs \X Ids

Conns      == Provs \X Ids
Address(c) == c[1]              \* Connection.address

VARIABLES
    stack,      \* ProviderPool.conns, the idle connections, last one on top
    slots,      \* len(ProviderPool.slots)
    open,       \* connections nobody has called Close on
    spoiled,    \* of those, the ones with unread bytes or a dead socket
    at, prov, conn,  \* what each hand is doing, with which provider's slot and which connection
    shut,       \* Client.closed
    toDrain, toKill, \* Client.Close: pools with idle, with active connections to close
    sweep       \* reaper: pools left in this tick

hands == <<at, prov, conn>>
vars  == <<stack, slots, open, spoiled, at, prov, conn, shut, toDrain, toKill, sweep>>

-----------------------------------------------------------------------------

Idle(p)   == {stack[p][i] : i \in DOMAIN stack[p]}
Held      == {conn[h] : h \in Hands} \ {Nil}
Fresh(p)  == ({p} \X Ids) \ (open \cup Held \cup Idle(p))
Active(p) == {conn[h] : h \in {g \in Hands : at[g] = "out" /\ prov[g] = p}}
IsClosed(c) == c \notin open

SlotFree_OneMore(p) == slots[p] <= Max[p]
SlotFree(p) == slots[p] < Max[p]

Holding(p) == {h \in Hands : at[h] # "none" /\ prov[h] = p}

\* <-pp.slots, the last thing done with a slot.
ReleaseSlot(h) == /\ slots' = [slots EXCEPT ![prov[h]] = @ - 1]
                  /\ at' = [at EXCEPT ![h] = "none"]
                  /\ prov' = [prov EXCEPT ![h] = Nil]
                  /\ conn' = [conn EXCEPT ![h] = Nil]

\* Connection.Close
CloseConns(C) == /\ open' = open \ C
                 /\ spoiled' = spoiled \ C

Init ==
    /\ stack = [p \in Provs |-> <<>>]
    /\ slots = [p \in Provs |-> 0]
    /\ open = {} /\ spoiled = {}
    /\ at = [h \in Hands |-> "none"]
    /\ prov = [h \in Hands |-> Nil]
    /\ conn = [h \in Hands |-> Nil]
    /\ shut = FALSE
    /\ toDrain = {} /\ toKill = {} /\ sweep = {}

-----------------------------------------------------------------------------
(* Acquiring: pp.slots <- struct{}{}, then getOrCreateFromPool *)

Take(h, p) ==
    /\ at[h] = "none" /\ SlotFree(p)
    /\ slots' = [slots EXCEPT ![p] = @ + 1]
    /\ at' = [at EXCEPT ![h] = "get"]
    /\ prov' = [prov EXCEPT ![h] = p]
    /\ UNCHANGED <<stack, open, spoiled, conn, shut, toDrain, toKill, sweep>>

\* Under pp.mu: pop the top of the stack ...
Pop(h) ==
    LET s == stack[prov[h]] IN
    /\ at[h] = "get" /\ s # <<>>
    /\ stack' = [stack EXCEPT ![prov[h]] = SubSeq(s, 1, Len(s) - 1)]
    /\ conn' = [conn EXCEPT ![h] = s[Len(s)]]
    /\ at' = [at EXCEPT ![h] = "check"]
    /\ UNCHANGED <<slots, open, spoiled, prov, shut, toDrain, toKill, sweep>>

\* ... or find it empty and dial.
Empty(h) ==
    /\ at[h] = "get" /\ stack[prov[h]] = <<>>
    /\ at' = [at EXCEPT ![h] = "dial"]
    /\ UNCHANGED <<stack, slots, open, spoiled, prov, conn, shut, toDrain, toKill, sweep>>

\* Outside the mutex: idle for too long, closed, or a failed ping; try the next.
Reject(h) ==
    /\ at[h] = "check"
    /\ CloseConns({conn[h]})
    /\ at' = [at EXCEPT ![h] = "get"]
    /\ conn' = [conn EXCEPT ![h] = Nil]
    /\ UNCHANGED <<stack, slots, prov, shut, toDrain, toKill, sweep>>

\* A connection used within StaleThreshold is not pinged, whatever its state.
Accept(h) ==
    /\ at[h] = "check" /\ ~IsClosed(conn[h])
    /\ at' = [at EXCEPT ![h] = "out"]
    /\ UNCHANGED <<stack, slots, open, spoiled, prov, conn, shut, toDrain, toKill, sweep>>

DialOk(h) ==
    /\ at[h] = "dial" /\ Fresh(prov[h]) # {}
    /\ LET c == CHOOSE x \in Fresh(prov[h]) : TRUE IN
       /\ open' = open \cup {c}
       /\ conn' = [conn EXCEPT ![h] = c]
    /\ at' = [at EXCEPT ![h] = "out"]
    /\ UNCHANGED <<stack, slots, spoiled, prov, shut, toDrain, toKill, sweep>>

DialFails_KeepsSlot(h) ==
    /\ at[h] = "dial"
    /\ at' = [at EXCEPT ![h] = "none"] /\ prov' = [prov EXCEPT ![h] = Nil]
    /\ UNCHANGED <<stack, slots, open, spoiled, conn, shut, toDrain, toKill, sweep>>

\* createConnection fails; every caller of getOrCreateFromPool then gives the slot back.
DialFails(h) ==
    /\ at[h] = "dial"
    /\ ReleaseSlot(h)
    /\ UNCHANGED <<stack, open, spoiled, shut, toDrain, toKill, sweep>>

-----------------------------------------------------------------------------
(* Using a connection *)

\* A body abandoned half-way (decode or writer error), or a socket closed
\* without telling the Connection.
Spoil(h) ==
    /\ at[h] = "out"
    /\ spoiled' = spoiled \cup ({conn[h]} \cap open)
    /\ UNCHANGED <<stack, slots, open, at, prov, conn, shut, toDrain, toKill, sweep>>

\* Client.release, and put of a connection that is already closed.
Release(h) ==
    /\ at[h] = "out"
    /\ CloseConns({conn[h]})
    /\ ReleaseSlot(h)
    /\ UNCHANGED <<stack, shut, toDrain, toKill, sweep>>

-----------------------------------------------------------------------------
(* Client.put, as its own steps: between two of them the mutex is free and  *)
(* Close may run.                                                           *)

PutCheck_SlotFirst(h) ==
    /\ at[h] = "out"
    /\ at' = [at EXCEPT ![h] = "push"]
    /\ slots' = [slots EXCEPT ![prov[h]] = @ - 1]
    /\ UNCHANGED <<stack, open, spoiled, prov, conn, shut, toDrain, toKill, sweep>>

\* activeConns.Delete, then the two checks.
PutCheck(h) ==
    /\ at[h] = "out"
    /\ IF IsClosed(conn[h]) \/ shut
       THEN /\ CloseConns({conn[h]})
            /\ ReleaseSlot(h)
       ELSE /\ at' = [at EXCEPT ![h] = "push"]
            /\ UNCHANGED <<open, spoiled, slots, prov, conn>>
    /\ UNCHANGED <<stack, shut, toDrain, toKill, sweep>>

\* Under pp.mu.  "Cap stack size (shouldn't happen with semaphore, but be safe)"
PutPush(h) ==
    /\ at[h] = "push"
    /\ IF Len(stack[prov[h]]) < Max[prov[h]]
       THEN /\ stack' = [stack EXCEPT ![prov[h]] = Append(@, conn[h])]
            /\ at' = [at EXCEPT ![h] = "unslot"]
            /\ conn' = [conn EXCEPT ![h] = Nil]
            /\ UNCHANGED <<slots, open, spoiled, prov>>
       ELSE /\ CloseConns({conn[h]})
            /\ ReleaseSlot(h)
            /\ UNCHANGED stack
    /\ UNCHANGED <<shut, toDrain, toKill, sweep>>

PutUnslot(h) ==
    /\ at[h] = "unslot"
    /\ ReleaseSlot(h)
    /\ UNCHANGED <<stack, open, spoiled, shut, toDrain, toKill, sweep>>

-----------------------------------------------------------------------------
(* The reaper and Close *)

ReapTick ==
    /\ ~shut /\ sweep = {}
    /\ sweep' = Provs
    /\ UNCHANGED <<stack, slots, open, spoiled, hands, shut, toDrain, toKill>>

\* Under pp.mu: close the n oldest, which sit at the bottom of the stack.
ReapPool(p, n) ==
    LET dead == {stack[p][i] : i \in 1 .. n} IN
    /\ p \in sweep
    /\ stack' = [stack EXCEPT ![p] = SubSeq(@, n + 1, Len(@))]
    /\ CloseConns(dead)
    /\ sweep' = sweep \ {p}
    /\ UNCHANGED <<slots, hands, shut, toDrain, toKill>>

CloseBegin ==
    /\ ~shut
    /\ shut' = TRUE /\ toDrain' = Provs
    /\ UNCHANGED <<stack, slots, open, spoiled, hands, toKill, sweep>>

CloseIdle(p) ==
    /\ p \in toDrain /\ toKill = {}
    /\ stack' = [stack EXCEPT ![p] = <<>>]
    /\ CloseConns(Idle(p))
    /\ toDrain' = toDrain \ {p} /\ toKill' = {p}
    /\ UNCHANGED <<slots, hands, shut, sweep>>

CloseActive(p) ==
    /\ p \in toKill
    /\ CloseConns(Active(p))
    /\ toKill' = toKill \ {p}
    /\ UNCHANGED <<stack, slots, hands, shut, toDrain, sweep>>

HandNext(h) ==
    \/ \E p \in Provs : Take(h, p)
    \/ Pop(h) \/ Empty(h) \/ Reject(h) \/ Accept(h)
    \/ DialOk(h) \/ DialFails(h)
    \/ Spoil(h) \/ Release(h)
    \/ PutCheck(h) \/ PutPush(h) \/ PutUnslot(h)

Upkeep ==
    \/ ReapTick
    \/ \E p \in Provs : \E n \in 0 .. Len(stack[p]) : ReapPool(p, n)
    \/ CloseBegin
    \/ \E p \in Provs : CloseIdle(p) \/ CloseActive(p)

Next == (\E h \in Hands : HandNext(h)) \/ Upkeep

Spec == Init /\ [][Next]_vars

-----------------------------------------------------------------------------
(* Properties *)

Stages == {"none", "get", "check", "dial", "out", "push", "unslot"}

\* Types of the pool's variables; a hand names a provider exactly when it
\* has a slot, a connection exactly when its stage has one.
TypeOK ==
    /\ stack \in [Provs -> Seq(Conns)]
    /\ slots \in [Provs -> Nat]
    /\ open \subseteq Conns /\ spoiled \subseteq open
    /\ at \in [Hands -> Stages]
    /\ prov \in [Hands -> Provs \cup {Nil}]
    /\ conn \in [Hands -> Conns \cup {Nil}]
    /\ \A h \in Hands : (at[h] = "none") <=> (prov[h] = Nil)
    /\ \A h \in Hands : at[h] \in {"check", "out", "push"} <=> conn[h] # Nil
    /\ shut \in BOOLEAN
    /\ toDrain \subseteq Provs /\ toKill \subseteq Provs /\ sweep \subseteq Provs

\* Every token in the semaphore belongs to exactly one place in the code that
\* will give it back: none is released twice, none is forgotten.
SlotsAccounted == \A p \in Provs : slots[p] = Cardinality(Holding(p))

OpenOf(p)  == open \cap ({p} \X Ids)
Dialing(p) == {h \in Hands : at[h] = "dial" /\ prov[h] = p}

\* The connections open to a provider, idle ones included, and the ones being
\* dialled never exceed its MaxConnections, although the semaphore only counts
\* the ones in use and put pushes before it releases the slot.
ConnBound == \A p \in Provs : Cardinality(OpenOf(p)) + Cardinality(Dialing(p)) <= Max[p]

\* An open connection is in one place, once: on its provider's stack or in one
\* hand; two goroutines never share one, and none is left open and unreachable.
OneOwner ==
    \A c \in open :
        LET p == Address(c)
            spots == {i \in DOMAIN stack[p] : stack[p][i] = c}
        IN  /\ Cardinality(spots) + Cardinality({h \in Hands : conn[h] = c}) = 1
            /\ \A h \in Hands : conn[h] = c => prov[h] = p

\* put's cap on the stack, "shouldn't happen with semaphore", never happens.
StackHasRoom == \A h \in Hands : at[h] = "push" => Len(stack[prov[h]]) < Max[prov[h]]

\* Refuted by TLC (README, section 3).  client.go:28-33, 1198-1213: once Close has gone through every pool and no
\* connection is in use, none is left open.
ClosedLeavesNothingOpen ==
    (shut /\ toDrain = {} /\ toKill = {} /\ \A h \in Hands : at[h] = "none") => open = {}
=============================================================================
