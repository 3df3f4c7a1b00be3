------------------------------ MODULE LinkService ------------------------------
(***************************************************************************)
(* pkg/manager/link/service.go, pkg/debrid/account and FixTorrent of       *)
(* pkg/manager/fixer.go: how a reader of a torrent gets the download link  *)
(* of a file.                                                              *)
(*                                                                         *)
(* GetLink runs one flight for each file (singleflight).  A flight asks an *)
(* account of the entry's active provider for a link, validates the link   *)
(* with a HEAD request, disables accounts that are over their quota, asks  *)
(* again for links that have expired, and has the entry re-inserted when   *)
(* no account has a link for it.  fetchLink and fetchAndValidate call each *)
(* other; the stack of a flight has one element for each fetchLink that    *)
(* has not returned: "fv" when fetchAndValidate called it, "ir" when       *)
(* invalidateAndRefetch did.                                               *)
(*                                                                         *)
(* All files are those of one entry.  Everything from outside takes one of *)
(* MaxTroubles.                                                            *)
(***************************************************************************)
EXTENDS Integers, Sequences, FiniteSets

CONSTANTS
    Callers,        \* goroutines of GetLink: each calls once
    Keys,           \* the files
    KeysOf,         \* those a caller may ask for
    Providers,      \* debrids
    AccountsOf,     \* how many accounts each has
    Home,           \* the active provider of the entry at first
    MaxReinsertionAttempt,
    Spendable,      \* accounts that may run out of quota
    MaxUrls,        \* links an account makes for a file
    MaxTroubles,
    NoLink, NoKey

Account  == {<<p, i>> : p \in Providers, i \in 1 .. 9}
Accounts == {a \in Account : a[2] <= AccountsOf[a[1]]}
Link     == [acc : Accounts, key : Keys, n : 1 .. MaxUrls]

ASSUME LinkAssumption ==
    /\ AccountsOf \in [Providers -> 1 .. 9]
    /\ MaxReinsertionAttempt \in Nat /\ MaxUrls \in Nat \ {0} /\ MaxTroubles \in Nat
    /\ Spendable \subseteq Accounts
    /\ KeysOf \in [Callers -> SUBSET Keys] /\ Home \in Providers /\ NoKey \notin Keys

VARIABLES
    spent,      \* accounts over their quota
    dead,       \* links that have expired
    alive,      \* providers whose placement of the entry yields links
    made,       \* links made, for each account and file
    links,      \* Account.links
    validated,  \* Service.validated: "-", "ok", or the category of the error
    disabled,   \* Account.Disabled
    current,    \* account.Manager.current of each provider
    stored,     \* the entry in the store
    cooling,    \* Fixer.lastReinsertAt is within the cooldown
    failed,     \* Fixer.failedToReinsert
    inFlight,   \* Fixer.inFlightRepairs: the flight whose request it is
    result,     \* FixerRequest.result of each flight
    caller, flight,
    troubles

linkVars == <<spent, dead, alive, made, links, validated, disabled, current, stored,
              cooling, failed, inFlight, result, caller, flight, troubles>>

Landed == [pc |-> "idle", stack |-> <<>>, ctx |-> TRUE, link |-> NoLink, acc |-> 0,
           active |-> NoKey, bad |-> FALSE, req |-> NoKey, tried |-> {}, checked |-> FALSE]

LinkInit ==
    /\ spent = {} /\ dead = {} /\ alive \in SUBSET Providers
    /\ made = [a \in Accounts |-> [k \in Keys |-> 0]]
    /\ links = [a \in Accounts |-> [k \in Keys |-> 0]]
    /\ validated = [l \in Link |-> "-"]
    /\ disabled = {} /\ current = [p \in Providers |-> 1]
    /\ stored = [active |-> Home, bad |-> FALSE]
    /\ cooling = FALSE /\ failed = {} /\ inFlight = NoKey
    /\ result = [k \in Keys |-> "-"]
    /\ caller = [c \in Callers |-> [pc |-> "idle", key |-> NoKey, res |-> "-", link |-> NoLink]]
    /\ flight = [k \in Keys |-> Landed]
    /\ troubles = 0

Trouble == troubles < MaxTroubles /\ troubles' = troubles + 1

At(k, pc)  == flight[k].pc = pc
Attempt(k) == Len(flight[k].stack) - 1

urlState   == <<spent, dead, alive, made, links>>
accountState == <<disabled, current>>
fixerState == <<stored, cooling, failed, inFlight, result>>

-----------------------------------------------------------------------------
(* account.Manager *)

AccountsAt(p) == 1 .. AccountsOf[p]
Active(p)     == {i \in AccountsAt(p) : <<p, i>> \notin disabled}
Lowest(S)     == CHOOSE i \in S : \A j \in S : i <= j

\* The first active account, or the first of all when none is.
FirstOf(p, active) == IF active # {} THEN Lowest(active) ELSE 1

Current(p) == IF <<p, current[p]>> \notin disabled THEN current[p] ELSE FirstOf(p, Active(p))

\* Disable marks the account; the new current account is stored after that.
ActiveWithout(p, i) == Active(p) \ {i}

-----------------------------------------------------------------------------
(* GetLink: singleflight *)

\* The result of a flight goes to everyone who joined it.
Returns(k, res) ==
    /\ caller' = [c \in Callers |-> IF caller[c].pc = "wait" /\ caller[c].key = k
                                    THEN [caller[c] EXCEPT !.pc = "done", !.res = res, !.link = flight[k].link] ELSE caller[c]]
    /\ flight' = [flight EXCEPT ![k] = Landed]

Goes(k, pc) == flight' = [flight EXCEPT ![k].pc = pc] /\ UNCHANGED caller

\* The first caller starts the flight, with its context and its copy of the
\* entry; the others join it.
GetLink(c, k) ==
    /\ caller[c].pc = "idle" /\ k \in KeysOf[c]
    /\ caller' = [caller EXCEPT ![c] = [pc |-> "wait", key |-> k, res |-> "-", link |-> NoLink]]
    /\ flight' = IF At(k, "idle")
                 THEN [flight EXCEPT ![k] = [Landed EXCEPT !.pc = "enter", !.stack = <<"fv">>,
                                               !.active = stored.active, !.bad = stored.bad]]
                 ELSE flight
    /\ UNCHANGED <<urlState, accountState, fixerState, validated, troubles>>

-----------------------------------------------------------------------------
(* fetchAndValidate and fetchLink *)

Enter(k) ==
    /\ At(k, "enter")
    /\ IF flight[k].ctx THEN Goes(k, "fetch") ELSE Returns(k, "cancelled")
    /\ UNCHANGED <<urlState, accountState, fixerState, validated, troubles>>

\* getPlacementFile: without a link the entry is refreshed; what it lacks
\* then is a permanent error.
RefreshPlacement(k) ==
    /\ At(k, "fetch") /\ Trouble
    /\ \/ Returns(k, "error")
       \/ /\ flight' = [flight EXCEPT ![k].active = stored.active, ![k].bad = stored.bad]
          /\ UNCHANGED caller
    /\ UNCHANGED <<urlState, accountState, fixerState, validated>>

\* Manager.GetDownloadLink.
PickAccount(k) ==
    LET p == flight[k].active
    IN  /\ At(k, "fetch")
        /\ current' = [current EXCEPT ![p] = Current(p)]
        /\ flight' = [flight EXCEPT ![k].pc = "ask", ![k].acc = Current(p)]
        /\ UNCHANGED <<urlState, disabled, fixerState, validated, caller, troubles>>

\* What account i of p may answer: the link it has, unless that has expired
\* by its own date, or a new one; 0 is an error of the provider.  A provider
\* that makes no more links repeats itself.
Offers(p, i, k) ==
    LET a == <<p, i>>
        n == links[a][k]
        new == IF p \notin alive THEN 0 ELSE IF made[a][k] < MaxUrls THEN made[a][k] + 1 ELSE MaxUrls
    IN  (IF n # 0 THEN {n} ELSE {})
        \cup (IF n = 0 \/ [acc |-> a, key |-> k, n |-> n] \in dead THEN {new} ELSE {})

TopOf(k) == flight[k].stack[Len(flight[k].stack)]

Answers(p, i, k, n) ==
    LET a == <<p, i>>
    IN  /\ made' = [made EXCEPT ![a][k] = IF n > @ THEN n ELSE @]
        /\ links' = [links EXCEPT ![a][k] = n]
        /\ flight' = [flight EXCEPT ![k].link = [acc |-> a, key |-> k, n |-> n],
                                    ![k].pc = IF TopOf(k) = "fv" THEN "check" ELSE "linked"]

\* The current account, or one of the other active ones.  The last error
\* becomes an empty link (Manager.GetDownloadLink returns dl, nil).
Others(k) == Active(flight[k].active) \ {flight[k].acc}

AskOthers(k) ==
    LET p == flight[k].active
    IN  \/ \E j \in Others(k) : \E n \in Offers(p, j, k) \ {0} : Answers(p, j, k, n)
        \/ /\ \A j \in Others(k) : 0 \in Offers(p, j, k)
           /\ flight' = [flight EXCEPT ![k].pc = "empty"]
           /\ UNCHANGED <<made, links>>

Ask(k) ==
    /\ At(k, "ask")
    /\ \E n \in Offers(flight[k].active, flight[k].acc, k) :
          \/ n # 0 /\ Answers(flight[k].active, flight[k].acc, k, n) /\ UNCHANGED troubles
          \/ n = 0 /\ AskOthers(k) /\ UNCHANGED troubles
          \/ n # 0 /\ Trouble /\ AskOthers(k)
    /\ UNCHANGED <<spent, dead, alive, accountState, fixerState, validated, caller>>

\* A link comes back to the fetchAndValidate below, past those that only
\* refetched it.
Below(s) == LET B == {i \in 1 .. Len(s) - 1 : s[i] = "fv"}
            IN  SubSeq(s, 1, IF B = {} THEN 0 ELSE CHOOSE i \in B : \A j \in B : j <= i)

Serve(k) ==
    LET s == Below(flight[k].stack)
    IN  IF s = <<>> THEN Returns(k, "link")
        ELSE flight' = [flight EXCEPT ![k].stack = s, ![k].pc = "check"] /\ UNCHANGED caller

\* The link of invalidateAndRefetch is returned as it is.
Refetched(k) ==
    /\ At(k, "linked")
    /\ Serve(k)
    /\ UNCHANGED <<urlState, accountState, fixerState, validated, troubles>>

\* An error of an earlier validation is the answer as long as it is kept.
Check(k) ==
    LET v == validated[flight[k].link]
    IN  /\ At(k, "check")
        /\ CASE v = "-"  -> Goes(k, "head")
             [] v = "ok" -> Serve(k)
             [] OTHER    -> Returns(k, v)
        /\ UNCHANGED <<urlState, accountState, fixerState, validated, troubles>>

\* validateLink and ErrorCodeToLinkError.  A request that fails, for whatever
\* reason, is a retryable error.
Verdicts(l) == IF l.acc \in spent THEN {"account"} ELSE IF l \in dead THEN {"refetch"} ELSE {"ok"}

ValidateLink(k) ==
    /\ At(k, "head")
    /\ \/ /\ flight[k].ctx /\ UNCHANGED troubles
          /\ \E v \in Verdicts(flight[k].link) :
                flight' = [flight EXCEPT ![k].pc = v, ![k].checked = TRUE]
       \/ /\ flight[k].ctx /\ Trouble
          /\ \E v \in {"retryable", "permanent"} : flight' = [flight EXCEPT ![k].pc = v, ![k].checked = TRUE]
       \/ /\ ~flight[k].ctx /\ UNCHANGED troubles
          /\ flight' = [flight EXCEPT ![k].pc = "retryable", ![k].checked = TRUE]
    /\ UNCHANGED <<urlState, accountState, fixerState, validated, caller>>

\* The result is kept and returned.
Keep(k) ==
    /\ flight[k].pc \in {"ok", "retryable", "permanent"}
    /\ validated' = [validated EXCEPT ![flight[k].link] = flight[k].pc]
    /\ IF At(k, "ok") THEN Serve(k) ELSE Returns(k, flight[k].pc)
    /\ UNCHANGED <<urlState, accountState, fixerState, troubles>>

\* Mutant: the account is not marked.
MarkDisabled_Forgets(k) ==
    LET a == flight[k].link.acc
    IN  /\ At(k, "account")
        /\ flight' = [flight EXCEPT ![k].pc = "swap", ![k].acc = FirstOf(a[1], Active(a[1]))]
        /\ UNCHANGED <<urlState, disabled, current, fixerState, validated, caller, troubles>>

\* disableLinkAccount, then fetchAndValidate again at the same attempt.
MarkDisabled(k) ==
    LET a == flight[k].link.acc
    IN  /\ At(k, "account")
        /\ disabled' = disabled \cup {a}
        /\ flight' = [flight EXCEPT ![k].pc = "swap", ![k].acc = FirstOf(a[1], ActiveWithout(a[1], a[2]))]
        /\ UNCHANGED <<urlState, current, fixerState, validated, caller, troubles>>

SwapCurrent(k) ==
    /\ At(k, "swap")
    /\ current' = [current EXCEPT ![flight[k].link.acc[1]] = flight[k].acc]
    /\ validated' = [l \in Link |-> "-"]
    /\ Goes(k, "enter")
    /\ UNCHANGED <<urlState, disabled, fixerState, troubles>>

\* invalidateAndRefetch.
Invalidate(k) ==
    LET l == flight[k].link
    IN  /\ At(k, "refetch")
        /\ validated' = [validated EXCEPT ![l] = "-"]
        /\ links' = [links EXCEPT ![l.acc][k] = 0]
        /\ flight' = [flight EXCEPT ![k].pc = "fetch", ![k].stack[Len(flight[k].stack)] = "ir"]
        /\ UNCHANGED <<spent, dead, alive, made, accountState, fixerState, caller, troubles>>

\* Mutant: the attempts are not counted.
EmptyLink_Unbounded(k) ==
    /\ At(k, "empty")
    /\ IF flight[k].bad THEN Returns(k, "error") ELSE Goes(k, "fix")
    /\ UNCHANGED <<urlState, accountState, stored, cooling, failed, inFlight, result, validated, troubles>>

\* An empty link: the entry is re-inserted, or given up as bad.
EmptyLink(k) ==
    /\ At(k, "empty")
    /\ IF flight[k].bad THEN Returns(k, "error") /\ UNCHANGED stored
       ELSE IF Attempt(k) >= MaxReinsertionAttempt
       THEN Returns(k, "error") /\ stored' = [active |-> flight[k].active, bad |-> TRUE]
       ELSE Goes(k, "fix") /\ UNCHANGED stored
    /\ UNCHANGED <<urlState, accountState, cooling, failed, inFlight, result, validated, troubles>>

-----------------------------------------------------------------------------
(* FixTorrent *)

fixerRest == <<urlState, accountState, validated>>

\* The cooldown is read, and started after that.
ReadCooldown(k) ==
    /\ At(k, "fix")
    /\ IF cooling THEN Returns(k, "error") ELSE Goes(k, "cool")
    /\ UNCHANGED <<fixerRest, fixerState, troubles>>

StartCooldown(k) ==
    /\ At(k, "cool")
    /\ cooling' = TRUE
    /\ IF inFlight # NoKey
       THEN flight' = [flight EXCEPT ![k].pc = "await", ![k].req = inFlight]
       ELSE flight' = [flight EXCEPT ![k].pc = "claim"]
    /\ UNCHANGED <<fixerRest, stored, failed, inFlight, result, caller, troubles>>

\* The waiter gets the result, if no other took it, or gives up.
AwaitRepair(k) ==
    LET req == flight[k].req
    IN  /\ At(k, "await")
        /\ \/ /\ result[req] # "-"
              /\ result' = [result EXCEPT ![req] = "-"]
              /\ IF result[req] = "fixed"
                 THEN flight' = [flight EXCEPT ![k].pc = "enter", ![k].stack = Append(@, "fv")] /\ UNCHANGED caller
                 ELSE Returns(k, "error")
           \/ ~flight[k].ctx /\ Returns(k, "cancelled") /\ UNCHANGED result
           \/ Returns(k, "error") /\ UNCHANGED result      \* after 5 minutes
        /\ UNCHANGED <<fixerRest, stored, cooling, failed, inFlight, troubles>>

ClaimRepair(k) ==
    /\ At(k, "claim")
    /\ inFlight' = k
    /\ result' = [result EXCEPT ![k] = "-"]
    /\ flight' = [flight EXCEPT ![k].pc = "move", ![k].tried = {}]
    /\ UNCHANGED <<fixerRest, stored, cooling, failed, caller, troubles>>

Untried(k) == {p \in Providers \ flight[k].tried : p \notin failed}

\* The deferred Delete of the request, whoever's it is by now.
Released(k, res) ==
    /\ inFlight' = NoKey
    /\ result' = [result EXCEPT ![k] = res]

\* MoveTorrent to the next provider submits the torrent, or activates the
\* placement that another provider than the active one has.  A failure is
\* remembered for good.  The entry is saved either way.
MoveEntry(k) ==
    /\ At(k, "move") /\ flight[k].ctx
    /\ \E p \in Untried(k) :
          \/ /\ \/ alive' = alive \cup {p}
                \/ p # flight[k].active /\ UNCHANGED alive
             /\ stored' = [active |-> p, bad |-> FALSE]
             /\ Released(k, "fixed")
             /\ flight' = [flight EXCEPT ![k].pc = "enter", ![k].stack = Append(@, "fv"),
                                         ![k].active = p, ![k].bad = FALSE]
             /\ UNCHANGED failed
          \/ /\ failed' = failed \cup {p}
             /\ stored' = [active |-> flight[k].active, bad |-> flight[k].bad]
             /\ flight' = [flight EXCEPT ![k].tried = @ \cup {p}]
             /\ UNCHANGED <<alive, inFlight, result>>
    /\ UNCHANGED <<spent, dead, made, links, accountState, validated, cooling, caller, troubles>>

MoveCancelled(k) ==
    /\ At(k, "move") /\ ~flight[k].ctx /\ Untried(k) # {}
    /\ Released(k, "failed")
    /\ Returns(k, "cancelled")
    /\ UNCHANGED <<fixerRest, stored, cooling, failed, troubles>>

\* Mutant: the request stays in the map.
AllFailed_Leaks(k) ==
    /\ At(k, "move") /\ Untried(k) = {}
    /\ stored' = [active |-> flight[k].active, bad |-> TRUE]
    /\ Returns(k, "error")
    /\ UNCHANGED <<fixerRest, cooling, failed, inFlight, result, troubles>>

\* No provider is left: the entry is bad.
AllFailed(k) ==
    /\ At(k, "move") /\ Untried(k) = {}
    /\ stored' = [active |-> flight[k].active, bad |-> TRUE]
    /\ Released(k, "failed")
    /\ Returns(k, "error")
    /\ UNCHANGED <<fixerRest, cooling, failed, troubles>>

-----------------------------------------------------------------------------
(* From outside *)

\* The caller goes away; its context is that of the flight it started.  The
\* caller itself waits for the flight.
Cancel(k) ==
    /\ Trouble /\ flight[k].pc # "idle" /\ flight[k].ctx
    /\ flight' = [flight EXCEPT ![k].ctx = FALSE]
    /\ UNCHANGED <<urlState, accountState, fixerState, validated, caller>>

Spend(a) ==
    /\ Trouble /\ a \in Spendable \ spent
    /\ spent' = spent \cup {a}
    /\ UNCHANGED <<dead, alive, made, links, accountState, fixerState, validated, caller, flight>>

Expire(l) ==
    /\ Trouble /\ l \notin dead /\ l.n <= made[l.acc][l.key]
    /\ dead' = dead \cup {l}
    /\ UNCHANGED <<spent, alive, made, links, accountState, fixerState, validated, caller, flight>>

\* RefreshLinks stores what the provider lists, on a schedule.
RefreshLinks(l) ==
    /\ l.n <= made[l.acc][l.key] /\ links[l.acc][l.key] # l.n
    /\ links' = [links EXCEPT ![l.acc][l.key] = l.n]
    /\ UNCHANGED <<spent, dead, alive, made, accountState, fixerState, validated, caller, flight, troubles>>

\* Midnight comes.
Clear ==
    /\ Trouble
    /\ validated' = [l \in Link |-> "-"]
    /\ cooling' = FALSE
    /\ UNCHANGED <<urlState, accountState, stored, failed, inFlight, result, caller, flight>>

\* Sync finds that an account has expired.
SyncDisables(a) ==
    /\ Trouble /\ a \in Spendable
    /\ disabled' = disabled \cup {a}
    /\ current' = [current EXCEPT ![a[1]] = FirstOf(a[1], ActiveWithout(a[1], a[2]))]
    /\ UNCHANGED <<urlState, fixerState, validated, caller, flight>>

-----------------------------------------------------------------------------
FlightStep(k) ==
    \/ Enter(k) \/ PickAccount(k) \/ Ask(k) \/ Refetched(k) \/ Check(k) \/ ValidateLink(k) \/ Keep(k)
    \/ MarkDisabled(k) \/ SwapCurrent(k) \/ Invalidate(k) \/ EmptyLink(k)
    \/ ReadCooldown(k) \/ StartCooldown(k) \/ AwaitRepair(k) \/ ClaimRepair(k)
    \/ MoveEntry(k) \/ MoveCancelled(k) \/ AllFailed(k)

LinkNext ==
    \/ \E c \in Callers, k \in Keys : GetLink(c, k)
    \/ \E k \in Keys : FlightStep(k) \/ RefreshPlacement(k) \/ Cancel(k)
    \/ \E a \in Accounts : Spend(a) \/ SyncDisables(a)
    \/ \E l \in Link : Expire(l) \/ RefreshLinks(l)
    \/ Clear

\* Requests end, and the goroutine of a flight runs on.
LinkFairness == \A k \in Keys : WF_linkVars(FlightStep(k))

LinkSpec     == LinkInit /\ [][LinkNext]_linkVars
FairLinkSpec == LinkSpec /\ LinkFairness

-----------------------------------------------------------------------------
LinkTypeOK ==
    /\ spent \subseteq Accounts /\ dead \subseteq Link /\ alive \subseteq Providers
    /\ \A a \in Accounts, k \in Keys : links[a][k] <= made[a][k] /\ made[a][k] <= MaxUrls
    /\ validated \in [Link -> {"-", "ok", "retryable", "permanent"}]
    /\ disabled \subseteq Accounts /\ \A p \in Providers : current[p] \in AccountsAt(p)
    /\ stored \in [active : Providers, bad : BOOLEAN]
    /\ inFlight \in Keys \cup {NoKey} /\ failed \subseteq Providers
    /\ \A c \in Callers : caller[c].pc = "wait" => ~At(caller[c].key, "idle")
    /\ \A k \in Keys : ~At(k, "idle") => Attempt(k) \in 0 .. MaxReinsertionAttempt
    /\ troubles \in 0 .. MaxTroubles

\* GetLink returns: accounts are swapped, links refetched and entries
\* re-inserted, but not for ever ("so we can bail out instead of looping
\* forever", fetchAndValidate).
GetLinkReturns == \A c \in Callers : caller[c].pc = "wait" ~> caller[c].pc = "done"

\* A request in inFlightRepairs is one that somebody is working on, even when
\* two got past the look-up: one that stayed behind would make each later
\* repair of the entry wait for nothing.
InFlightMoves == inFlight # NoKey => At(inFlight, "move")

\* Refuted by TLC.  CategoryRetryable is "retry same link": such an answer comes from a request
\* that was made for it.
RetryableRetried ==
    [][\A k \in Keys, c \in Callers :
          caller[c].pc = "wait" /\ caller[c].key = k /\ caller'[c].res = "retryable" => flight[k].checked]_linkVars

\* Refuted by TLC.  reinsertCooldown is the "min interval between re-insertions
\* of the same entry": no two are under way at once.
OneReinsertion == Cardinality({k \in Keys : At(k, "move")}) <= 1

=============================================================================
