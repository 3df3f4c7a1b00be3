------------------------------ MODULE NntpFailover ------------------------------
(***************************************************************************)
(* internal/nntp/client.go, ExecuteWithFailover and what it calls: a call  *)
(* takes a connection of any provider not excluded yet, runs its operation *)
(* with retries, and excludes the provider on failure.                     *)
(*                                                                         *)
(* Each call is a goroutine over the pool of NntpPool.  It has two hands   *)
(* of its own, one for the connection it looks for and one for the one it  *)
(* would rather have; in a race, one more goroutine and hand per provider. *)
(* A worker of BatchStat asks one provider at a time for one connection.   *)
(***************************************************************************)
EXTENDS NntpPool

CONSTANTS
    Callers,    \* goroutines calling ExecuteWithFailover
    Workers,    \* goroutines of BatchStat, at most RepairBank.Capacity
    Order,      \* Client.providers, by priority
    Backbone,   \* Backbone[p]: UsenetProvider.Backbone; Nil when not set
    Retries,    \* Client.retries
    Faults      \* which of "deadline", "decode", "panic", "close", "reap" may happen

N       == Len(Order)
Main(a) == <<a, "main">>
Pref(a) == <<a, "pref">>

ASSUME FailoverAssumption ==
    /\ Order \in [1 .. N -> Provs] /\ \A p \in Provs : \E i \in 1 .. N : Order[i] = p
    /\ Hands = (Callers \X ({"main", "pref"} \cup Provs)) \cup (Workers \X {"stat"})
    /\ Callers \cap Workers = {}
    /\ Retries \in Nat

\* No provider has the name of a hand, and no hand is the value for none.
ASSUME NamesAssumption == {"main", "pref"} \cap Provs = {} /\ Nil \notin Hands

VARIABLES
    call,       \* the local variables of each ExecuteWithFailover
    race        \* of each raceForConnection

allVars == <<vars, call, race>>

NoCall == [pc |-> "idle", done |-> FALSE, round |-> 0, tries |-> 0, i |-> 0, why |-> "first",
           orig |-> Nil, cur |-> Nil, skip |-> {}, gone |-> {}, from |-> Nil, err |-> "none"]
NoRace == [gor |-> [p \in Provs |-> "off"], ch |-> <<>>, win |-> Nil, failed |-> FALSE,
           cancel |-> FALSE, drain |-> FALSE]

\* providerExclusions.excludes, over what was excluded so far; a retry passes none.
Eligible(a) == IF call[a].why = "first" THEN Provs \ (call[a].skip \cup call[a].gone)
                                        ELSE Provs
Cancelled(a) == race[a].cancel \/ call[a].done

\* excludeForArticleNotFound: every provider on the same backbone, or this one alone.
SameBackbone(p) == IF Backbone[p] = Nil THEN {p} ELSE {q \in Provs : Backbone[q] = Backbone[p]}

\* put is called synchronously: a goroutine goes on when it has returned.
\* The hands in "quit" are being put back by the race's own goroutines.
Settled(a) == \A h \in Hands : h[1] = a /\ at[h] \in {"push", "unslot"}
                                => h[2] \in Provs /\ race[a].gor[h[2]] = "quit"

At(a, pc) == call[a].pc = pc /\ Settled(a)

-----------------------------------------------------------------------------
(* The loop over providers *)

Begin(a) ==
    /\ call[a].pc = "idle" /\ race[a] = NoRace
    /\ \A h \in Hands : h[1] = a => at[h] = "none"
    /\ call' = [call EXCEPT ![a].pc = "scan", ![a].i = 1]
    /\ UNCHANGED <<vars, race>>

\* The caller's context is cancelled or its deadline passes.
Deadline(a) ==
    /\ "deadline" \in Faults /\ call[a].pc # "idle" /\ ~call[a].done
    /\ call' = [call EXCEPT ![a].done = TRUE]
    /\ UNCHANGED <<vars, race>>

\* The next turn of the loop.  With every provider excluded, the turns that
\* are left find nobody to ask.
NextRound(c) ==
    IF c.round = N \/ c.done \/ c.skip \cup c.gone = Provs
    THEN NoCall
    ELSE [c EXCEPT !.pc = "scan", !.i = 1, !.why = "first", !.orig = Nil, !.tries = 0,
                    !.err = "none", !.from = Nil]

\* A connection was found: for the first attempt of a round, or for a retry.
Got(h, c) ==
    IF c.why = "first"
    THEN [c EXCEPT !.pc = "run", !.i = 0, !.cur = h, !.orig = prov[h]]
    ELSE [c EXCEPT !.pc = IF prov[h] = c.orig THEN "run" ELSE "prefer", !.i = 0, !.cur = h]

\* None was found.  Without a connection a retry ends its round.
GotNone(c, e) ==
    IF c.why = "first"
    THEN NextRound([c EXCEPT !.round = @ + 1])
    ELSE [c EXCEPT !.pc = "back", !.err = e, !.cur = Nil]

-----------------------------------------------------------------------------
(* getAnyAvailableConnection, phase 1: try every provider in turn *)

ScanTake(a) ==
    /\ At(a, "scan") /\ call[a].i <= N /\ Order[call[a].i] \in Eligible(a)
    /\ Take(Main(a), Order[call[a].i])
    /\ call' = [call EXCEPT ![a].pc = "work"]
    /\ UNCHANGED race

ScanSkip(a) ==
    /\ At(a, "scan") /\ call[a].i <= N
    /\ Order[call[a].i] \in Eligible(a) => ~SlotFree(Order[call[a].i])
    /\ call' = [call EXCEPT ![a].i = @ + 1]
    /\ UNCHANGED <<vars, race>>

WorkGot(a) ==
    /\ At(a, "work") /\ at[Main(a)] = "out"
    /\ call' = [call EXCEPT ![a] = Got(Main(a), @)]
    /\ UNCHANGED <<vars, race>>

WorkFails(a) ==
    /\ At(a, "work") /\ DialFails(Main(a))
    /\ call' = [call EXCEPT ![a].pc = "scan", ![a].i = @ + 1]
    /\ UNCHANGED race

-----------------------------------------------------------------------------
(* Phase 2, raceForConnection: one goroutine per eligible provider *)

RaceStart(a) ==
    /\ At(a, "scan") /\ call[a].i = N + 1
    /\ call' = [call EXCEPT ![a].pc = "race", ![a].i = 0]
    /\ race' = [race EXCEPT ![a].gor = [p \in Provs |-> IF p \in Eligible(a) THEN "wait" ELSE "off"]]
    /\ UNCHANGED vars

RacerTakes(a, p) ==
    /\ race[a].gor[p] = "wait" /\ ~Cancelled(a)
    /\ Take(<<a, p>>, p)
    /\ race' = [race EXCEPT ![a].gor[p] = "work"]
    /\ UNCHANGED call

\* Cancelled while waiting, or found out right after taking the slot.
RacerQuits(a, p) ==
    /\ race[a].gor[p] = "wait" /\ Cancelled(a)
    /\ race' = [race EXCEPT ![a].gor[p] = "quit"]
    /\ UNCHANGED <<vars, call>>

RacerFails(a, p) ==
    /\ race[a].gor[p] = "work" /\ DialFails(<<a, p>>)
    /\ \/ race' = [race EXCEPT ![a].gor[p] = "sent", ![a].ch = Append(@, [p |-> p, ok |-> FALSE])]
       \/ Cancelled(a) /\ race' = [race EXCEPT ![a].gor[p] = "quit"]
    /\ UNCHANGED call

RacerSends(a, p) ==
    /\ race[a].gor[p] = "work" /\ at[<<a, p>>] = "out"
    /\ race' = [race EXCEPT ![a].gor[p] = "sent", ![a].ch = Append(@, [p |-> p, ok |-> TRUE])]
    /\ UNCHANGED <<vars, call>>

RacerPutsBack(a, p) ==
    /\ race[a].gor[p] = "work" /\ Cancelled(a)
    /\ PutCheck(<<a, p>>)
    /\ race' = [race EXCEPT ![a].gor[p] = "quit"]
    /\ UNCHANGED call

\* wg.Wait: every goroutine has returned, from put as well.
RacersDone(a) == \A p \in Provs : /\ race[a].gor[p] \notin {"wait", "work"}
                                  /\ race[a].gor[p] = "quit" => at[<<a, p>>] = "none"

RaceReceives(a) ==
    /\ At(a, "race") /\ race[a].ch # <<>>
    /\ LET r == Head(race[a].ch) IN
       \/ /\ r.ok /\ race[a].win = Nil
          /\ race' = [race EXCEPT ![a].ch = Tail(@), ![a].win = r.p, ![a].cancel = TRUE]
          /\ UNCHANGED vars
       \/ /\ r.ok /\ race[a].win # Nil
          /\ PutCheck(<<a, r.p>>)
          /\ race' = [race EXCEPT ![a].ch = Tail(@)]
       \/ /\ ~r.ok
          /\ race' = [race EXCEPT ![a].ch = Tail(@), ![a].failed = TRUE]
          /\ UNCHANGED vars
    /\ UNCHANGED call

\* The channel is closed and empty.
RaceEnds(a) ==
    /\ At(a, "race") /\ race[a].ch = <<>> /\ RacersDone(a)
    /\ race' = [race EXCEPT ![a] = NoRace]
    /\ IF race[a].win # Nil
       THEN call' = [call EXCEPT ![a] = Got(<<a, race[a].win>>, @)]
       ELSE \E e \in (IF race[a].failed THEN {"conn", "stop"} ELSE {"stop"}) :
                call' = [call EXCEPT ![a] = GotNone(@, e)]
    /\ UNCHANGED vars

\* case <-ctx.Done(): what is still in the channel is left to a background
\* goroutine.  The winner received before, if any, is not in the channel.
RaceAbandons(a) ==
    /\ At(a, "race") /\ call[a].done
    /\ race' = [race EXCEPT ![a].cancel = TRUE, ![a].drain = TRUE]
    /\ call' = [call EXCEPT ![a] = GotNone(@, "stop")]
    /\ UNCHANGED vars

Drain(a) ==
    /\ race[a].drain /\ race[a].ch # <<>>
    /\ LET r == Head(race[a].ch) IN
       /\ race' = [race EXCEPT ![a].gor[r.p] = "quit", ![a].ch = Tail(@)]
       /\ IF r.ok THEN PutCheck(<<a, r.p>>) ELSE UNCHANGED vars
    /\ UNCHANGED call

DrainEnds(a) ==
    /\ race[a].drain /\ race[a].ch = <<>> /\ RacersDone(a)
    /\ race' = [race EXCEPT ![a] = NoRace]
    /\ UNCHANGED <<vars, call>>

-----------------------------------------------------------------------------
(* retry.Do around the operation *)

\* No attempt is left, or the context is done before the next one.
RunStops(a) ==
    /\ At(a, "run")
    /\ \/ call[a].tries = Retries + 1 /\ call' = [call EXCEPT ![a].pc = "back"]
       \/ /\ call[a].tries <= Retries /\ call[a].done
          /\ call' = [call EXCEPT ![a].pc = "back", ![a].err = "stop"]
    /\ UNCHANGED <<vars, race>>

Attempt(a) == At(a, "run") /\ call[a].tries <= Retries /\ ~call[a].done
Usable(a)  == conn[call[a].cur] \in open \ spoiled

\* The operation on the connection, by how it ends.
RunOk(a) ==
    /\ Attempt(a) /\ Usable(a)
    /\ call' = [call EXCEPT ![a].pc = "back", ![a].err = "ok"]
    /\ UNCHANGED <<vars, race>>

RunNotFound(a) ==
    /\ Attempt(a) /\ Usable(a)
    /\ call' = [call EXCEPT ![a].pc = "back", ![a].err = "nf",
                            ![a].from = prov[call[a].cur]]
    /\ UNCHANGED <<vars, race>>

\* Connection error, timeout or busy server: the connection is dropped and a
\* fresh one looked for at once, on the last attempt as well.
RunConnError(a) ==
    /\ Attempt(a)
    /\ Release(call[a].cur)
    /\ call' = [call EXCEPT ![a].pc = "scan", ![a].i = 1, ![a].why = "retry", ![a].tries = @ + 1,
                            ![a].cur = Nil, ![a].err = "conn"]
    /\ UNCHANGED race

\* Any other answer of the server.
RunRefused(a) ==
    /\ Attempt(a) /\ Usable(a)
    /\ call' = [call EXCEPT ![a].pc = "back", ![a].err = "stop"]
    /\ UNCHANGED <<vars, race>>

\* StreamBody, GetDecodedBody: decoding or writing fails in mid-body.
RunDecode(a) ==
    /\ Attempt(a) /\ Usable(a) /\ "decode" \in Faults
    /\ Spoil(call[a].cur)
    /\ call' = [call EXCEPT ![a].pc = "back", ![a].err = "stop"]
    /\ UNCHANGED race

RunPanics_LeavesOpen(a) ==
    /\ Attempt(a) /\ "panic" \in Faults
    /\ ReleaseSlot(call[a].cur)
    /\ call' = [call EXCEPT ![a].pc = "back", ![a].cur = Nil, ![a].err = "panic"]
    /\ UNCHANGED <<stack, open, spoiled, shut, toDrain, toKill, sweep, race>>

RunPanics(a) ==
    /\ Attempt(a) /\ "panic" \in Faults
    /\ Release(call[a].cur)
    /\ call' = [call EXCEPT ![a].pc = "back", ![a].cur = Nil, ![a].err = "panic"]
    /\ UNCHANGED race

\* getConnectionFromProvider, for a retry that landed on another provider:
\* it waits for a slot with the other connection in hand.
PreferTake(a) ==
    /\ At(a, "prefer") /\ at[Pref(a)] = "none"
    /\ call[a].orig \in Provs              \* pp, ok := c.pools[provider.Host]
    /\ Take(Pref(a), call[a].orig)
    /\ UNCHANGED <<call, race>>

PreferGivesUp_Waits(a) == FALSE /\ UNCHANGED <<vars, call, race>>

PreferGivesUp(a) ==
    /\ At(a, "prefer") /\ at[Pref(a)] = "none" /\ call[a].done
    /\ call' = [call EXCEPT ![a].pc = "run"]
    /\ UNCHANGED <<vars, race>>

PreferFails(a) ==
    /\ At(a, "prefer") /\ DialFails(Pref(a))
    /\ call' = [call EXCEPT ![a].pc = "run"]
    /\ UNCHANGED race

PreferGot_KeepsBoth(a) ==
    /\ At(a, "prefer") /\ at[Pref(a)] = "out"
    /\ call' = [call EXCEPT ![a].pc = "run", ![a].cur = Pref(a)]
    /\ UNCHANGED <<vars, race>>

PreferGot(a) ==
    /\ At(a, "prefer") /\ at[Pref(a)] = "out"
    /\ PutCheck(call[a].cur)
    /\ call' = [call EXCEPT ![a].pc = "run", ![a].cur = Pref(a)]
    /\ UNCHANGED race

-----------------------------------------------------------------------------
(* After the attempts *)

GoBack_PushesClosed(a) ==
    /\ At(a, "back")
    /\ call' = [call EXCEPT ![a].pc = "decide", ![a].cur = Nil]
    /\ at' = IF call[a].cur = Nil THEN at ELSE [at EXCEPT ![call[a].cur] = "push"]
    /\ UNCHANGED <<stack, slots, open, spoiled, prov, conn, shut, toDrain, toKill, sweep, race>>

\* returnOrReleaseConn
GoBack(a) ==
    /\ At(a, "back")
    /\ call' = [call EXCEPT ![a].pc = "decide", ![a].cur = Nil]
    /\ IF call[a].cur = Nil THEN UNCHANGED vars ELSE PutCheck(call[a].cur)
    /\ UNCHANGED race

Returns(a) ==
    /\ At(a, "decide") /\ call[a].err \in {"ok", "stop"}
    /\ call' = [call EXCEPT ![a] = NoCall]
    /\ UNCHANGED <<vars, race>>

Excludes(a) ==
    /\ At(a, "decide") /\ call[a].err \in {"nf", "conn", "panic"}
    /\ LET c == [call[a] EXCEPT !.round = @ + 1] IN
       call' = [call EXCEPT ![a] = NextRound(
          IF c.err = "nf" THEN [c EXCEPT !.gone = @ \cup SameBackbone(c.orig)]
                          ELSE [c EXCEPT !.skip = @ \cup {c.orig}])]
    /\ UNCHANGED <<vars, race>>

-----------------------------------------------------------------------------
(* batchStatOnProvider *)

WorkerTakes(w, p) == Take(<<w, "stat">>, p) /\ UNCHANGED <<call, race>>
WorkerFails(w)    == DialFails(<<w, "stat">>) /\ UNCHANGED <<call, race>>

\* After PipelinedStat: released on any error, put back otherwise.
WorkerEnds(w) == /\ Release(<<w, "stat">>) \/ PutCheck(<<w, "stat">>)
                 /\ UNCHANGED <<call, race>>

-----------------------------------------------------------------------------

\* What getOrCreateFromPool and put do by themselves, whoever called them.
PoolSteps(h) == /\ Pop(h) \/ Empty(h) \/ Reject(h) \/ Accept(h) \/ DialOk(h)
                      \/ PutPush(h) \/ PutUnslot(h)
                /\ UNCHANGED <<call, race>>

PoolUpkeep == /\ Upkeep
              /\ shut' # shut => "close" \in Faults
              /\ sweep' # sweep => "reap" \in Faults
              /\ UNCHANGED <<call, race>>

CallNext(a) ==
    \/ ScanTake(a) \/ ScanSkip(a) \/ WorkGot(a) \/ WorkFails(a)
    \/ RaceStart(a) \/ RaceReceives(a) \/ RaceEnds(a) \/ RaceAbandons(a)
    \/ RunStops(a) \/ RunOk(a) \/ RunNotFound(a) \/ RunConnError(a) \/ RunRefused(a)
    \/ RunDecode(a) \/ RunPanics(a)
    \/ PreferTake(a) \/ PreferGivesUp(a) \/ PreferFails(a) \/ PreferGot(a)
    \/ GoBack(a) \/ Returns(a) \/ Excludes(a)

RacerNext(a, p) == \/ RacerTakes(a, p) \/ RacerQuits(a, p) \/ RacerFails(a, p)
                   \/ RacerSends(a, p) \/ RacerPutsBack(a, p)

FInit == /\ Init
         /\ call = [a \in Callers |-> NoCall]
         /\ race = [a \in Callers |-> NoRace]

FNext ==
    \/ \E a \in Callers : \/ Begin(a) \/ Deadline(a) \/ CallNext(a)
                          \/ Drain(a) \/ DrainEnds(a)
                          \/ \E p \in Provs : RacerNext(a, p)
    \/ \E w \in Workers : WorkerFails(w) \/ WorkerEnds(w) \/ \E p \in Provs : WorkerTakes(w, p)
    \/ \E h \in Hands : PoolSteps(h)
    \/ PoolUpkeep

FSpec == FInit /\ [][FNext]_allVars

\* A goroutine that can go on does: the caller's, the race's, the one that
\* drains it, a worker's.  A caller's context has a deadline.
Fairness ==
    /\ \A a \in Callers :
         /\ WF_allVars(CallNext(a) \/ PoolSteps(Main(a)) \/ PoolSteps(Pref(a)))
         /\ WF_allVars(Deadline(a))
         /\ WF_allVars(Drain(a) \/ DrainEnds(a))
         /\ \A p \in Provs : WF_allVars(RacerNext(a, p) \/ PoolSteps(<<a, p>>))
    /\ \A w \in Workers : WF_allVars(WorkerFails(w) \/ WorkerEnds(w) \/ PoolSteps(<<w, "stat">>))

FairSpec == FSpec /\ Fairness

-----------------------------------------------------------------------------
(* Properties *)

Pcs == {"idle", "scan", "work", "race", "run", "prefer", "back", "decide"}

\* The callers and workers change the pool by its own operations only, so that
\* what NntpPool promises holds for them.
UsesPool == Spec

\* client.go:282-286, 479-486: when a call has returned and its race's goroutines
\* have finished, every slot and connection it took has been given back.
NoSlotLeak ==
    \A a \in Callers : call[a].pc = "idle" /\ race[a] = NoRace
                         => \A h \in Hands : h[1] = a => at[h] = "none"

\* Every call returns by the time its context ends, whatever the other calls hold.
CallReturns == \A a \in Callers : call[a].pc # "idle" ~> call[a].pc = "idle"

-----------------------------------------------------------------------------
(* What the code says and does not do: TLC refutes each of these (README,  *)
(* section 3).                                                            *)

\* client.go:323-330, "best-effort": no set of callers, each with a connection in
\* hand, waits for slots that only the callers of that set hold.
NoCrossWait ==
    ~ \E S \in SUBSET Callers :
         /\ S # {}
         /\ \A a \in S : /\ call[a].pc = "prefer" /\ at[Pref(a)] = "none"
                         /\ ~SlotFree(call[a].orig)
                         /\ \A h \in Holding(call[a].orig) : h[1] \in S

\* No call runs its operation on a connection whose last answer was not read to
\* its end.
CleanReuse == \A p \in Provs : Idle(p) \cap spoiled = {}

\* client.go:341, 356-358: the provider written off as not having the article is
\* the one that said so, or is on its backbone.
NotFoundFromThere ==
    \A a \in Callers : call[a].err = "nf" => call[a].from \in SameBackbone(call[a].orig)
=============================================================================
