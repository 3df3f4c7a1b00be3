----------------------------- MODULE ServicesProofs -----------------------------
(***************************************************************************)
(* What the link service and the downloads keep for any number of callers, *)
(* files, providers, accounts, packs and slots: the types of their         *)
(* variables; that the re-insertions of a flight are bounded and that a    *)
(* request for one is never left behind; that transfers return their       *)
(* slots, and that a row which says completed has its files; and that the  *)
(* listings of the mount tree catch up with a store that no longer changes.*)
(***************************************************************************)
EXTENDS Services, SequenceTheorems, FiniteSetTheorems, WellFoundedInduction, TLAPS

(* A set of numbers has a least one, a bounded one a greatest. *)
LEMMA LeastExists ==
    ASSUME NEW S \in SUBSET Nat, S # {}
    PROVE  \E i \in S : \A j \in S : i <= j
<1>1. PICK i \in S : \A j \in S : ~(<<j, i>> \in OpToRel(<, Nat))
  BY WFMin, NatLessThanWellFounded
<1>2. \A j \in S : <<j, i>> \in OpToRel(<, Nat) <=> j < i
  BY DEF OpToRel
<1>3. \A j \in S : ~(j < i)
  BY <1>1, <1>2
<1> QED  BY <1>3

LEMMA GreatestExists ==
    ASSUME NEW n \in Nat, NEW S \in SUBSET (1 .. n), S # {}
    PROVE  \E i \in S : \A j \in S : j <= i
<1> DEFINE T == {t \in Nat : \E i \in S : t = n - i}
<1>1. T \subseteq Nat /\ T # {}
  <2>1. PICK i \in S : i \in 1 .. n
    OBVIOUS
  <2>2. n - i \in T
    BY <2>1
  <2> QED  BY <2>2
<1>2. PICK t \in T : \A u \in T : t <= u
  BY <1>1, LeastExists
<1>3. PICK i \in S : t = n - i
  BY <1>2
<1>4. ASSUME NEW j \in S PROVE j <= i
  <2>1. j \in 1 .. n /\ i \in 1 .. n
    BY <1>3
  <2>2. n - j \in T
    BY <2>1
  <2>3. n - i <= n - j
    BY <1>2, <1>3, <2>2
  <2> QED  BY <2>1, <2>3
<1> QED  BY <1>3, <1>4

-----------------------------------------------------------------------------
(* The link service *)

LinkPcs == {"idle", "enter", "fetch", "ask", "empty", "linked", "check", "head", "ok", "refetch",
            "account", "retryable", "permanent", "swap", "fix", "cool", "await", "claim", "move"}
HasLink == {"linked", "check", "head", "ok", "refetch", "account", "retryable", "permanent", "swap"}
Repairing == {"fix", "cool", "await", "claim", "move"}

Flight == [pc : LinkPcs, stack : Seq({"fv", "ir"}), ctx : BOOLEAN, link : Link \cup {NoLink},
           acc : Nat, active : Providers \cup {NoKey}, bad : BOOLEAN, req : Keys \cup {NoKey},
           tried : SUBSET Providers, checked : BOOLEAN]

\* The room that is left for re-insertions is what the attempts have not used.
FlightOK(w) ==
    /\ w.pc # "idle" => Len(w.stack) \in 1 .. MaxReinsertionAttempt + 1 /\ w.active \in Providers
    /\ w.pc \in Repairing => Len(w.stack) <= MaxReinsertionAttempt
    /\ w.pc \in HasLink => w.link \in Link
    /\ w.pc = "ask" => w.acc \in AccountsAt(w.active)
    /\ w.pc = "swap" => w.acc \in AccountsAt(w.link.acc[1])
    /\ w.pc = "await" => w.req \in Keys

Caller == [pc : {"idle", "wait", "done"}, key : Keys \cup {NoKey},
           res : {"-", "link", "error", "cancelled", "retryable", "permanent"}, link : Link \cup {NoLink}]

FlightsOK == flight \in [Keys -> Flight] /\ \A k \in Keys : FlightOK(flight[k])
CallersOK ==
    /\ caller \in [Callers -> Caller]
    /\ \A c \in Callers : caller[c].pc = "wait" => caller[c].key \in Keys /\ flight[caller[c].key].pc # "idle"

UrlsOK ==
    /\ spent \subseteq Accounts /\ dead \subseteq Link /\ alive \subseteq Providers
    /\ made \in [Accounts -> [Keys -> Nat]] /\ links \in [Accounts -> [Keys -> Nat]]
    /\ \A a \in Accounts, k \in Keys : links[a][k] <= made[a][k] /\ made[a][k] <= MaxUrls

AccountsOK ==
    /\ disabled \subseteq Accounts
    /\ current \in [Providers -> Nat] /\ \A p \in Providers : current[p] \in AccountsAt(p)

FixerOK ==
    /\ stored \in [active : Providers, bad : BOOLEAN]
    /\ failed \subseteq Providers /\ cooling \in BOOLEAN
    /\ result \in [Keys -> {"-", "fixed", "failed"}]

ValidOK == validated \in [Link -> {"-", "ok", "retryable", "permanent"}]

DataOK == UrlsOK /\ AccountsOK /\ FixerOK /\ ValidOK /\ troubles \in 0 .. MaxTroubles
RunsOK == FlightsOK /\ CallersOK /\ InFlightMoves /\ inFlight \in Keys \cup {NoKey}
LinkInv == DataOK /\ RunsOK

(* An account that is picked is one of its provider's. *)
LEMMA FirstOfIsAccount ==
    ASSUME NEW p \in Providers, NEW S \in SUBSET AccountsAt(p)
    PROVE  FirstOf(p, S) \in AccountsAt(p)
<1>1. 1 \in AccountsAt(p) /\ S \subseteq Nat
  BY LinkAssumption DEF AccountsAt
<1>2. CASE S = {}
  BY <1>1, <1>2 DEF FirstOf
<1>3. CASE S # {}
  <2>1. \E i \in S : \A j \in S : i <= j
    BY <1>1, <1>3, LeastExists
  <2>2. Lowest(S) \in S
    BY <2>1 DEF Lowest
  <2> QED  BY <1>3, <2>2 DEF FirstOf
<1> QED  BY <1>2, <1>3

LEMMA CurrentIsAccount ==
    ASSUME AccountsOK, NEW p \in Providers
    PROVE  Current(p) \in AccountsAt(p) /\ Current(p) \in Nat
<1>1. Active(p) \in SUBSET AccountsAt(p)
  BY DEF Active
<1>2. Current(p) \in AccountsAt(p)
  BY <1>1, FirstOfIsAccount DEF Current, AccountsOK
<1> QED  BY <1>2 DEF AccountsAt

LEMMA AccountAt ==
    ASSUME NEW p \in Providers, NEW i \in AccountsAt(p)
    PROVE  <<p, i>> \in Accounts
<1>1. i \in 1 .. 9 /\ i <= AccountsOf[p]
  BY LinkAssumption DEF AccountsAt
<1>2. <<p, i>> \in Account
  BY <1>1 DEF Account
<1> QED  BY <1>1, <1>2 DEF Accounts

LEMMA AccountParts ==
    ASSUME NEW a \in Accounts
    PROVE  a[1] \in Providers /\ a[2] \in AccountsAt(a[1])
<1>1. PICK p \in Providers, i \in 1 .. 9 : a = <<p, i>>
  BY DEF Accounts, Account
<1>2. a[1] = p /\ a[2] = i
  BY <1>1
<1> QED  BY <1>2 DEF Accounts, AccountsAt

LEMMA LinkParts ==
    ASSUME NEW l \in Link
    PROVE  l.acc \in Accounts /\ l.key \in Keys /\ l.n \in 1 .. MaxUrls
BY DEF Link

(* A flight goes on: what it becomes is sound, it is not idle, and it gives the *)
(* request back when it stops moving the entry.                                *)
LEMMA FlightMoves ==
    ASSUME RunsOK, NEW k \in Keys, NEW w \in Flight, FlightOK(w), w.pc # "idle",
           flight' = [flight EXCEPT ![k] = w], UNCHANGED caller,
           \/ inFlight' = NoKey
           \/ inFlight' = inFlight /\ (flight[k].pc = "move" => w.pc = "move")
           \/ inFlight' = k /\ w.pc = "move"
    PROVE  RunsOK'
<1>0. inFlight' \in Keys \cup {NoKey}
  BY DEF RunsOK
<1>1. flight' \in [Keys -> Flight] /\ \A j \in Keys : flight'[j] = IF j = k THEN w ELSE flight[j]
  BY DEF RunsOK, FlightsOK
<1>2. FlightsOK'
  BY <1>1 DEF RunsOK, FlightsOK, FlightOK, AccountsAt
<1>3. CallersOK'
  BY <1>1 DEF RunsOK, CallersOK
<1>4. InFlightMoves'
  <2>1. ASSUME inFlight' # NoKey PROVE flight'[inFlight'].pc = "move"
    <3>1. CASE inFlight' = k /\ w.pc = "move"
      BY <1>1, <3>1
    <3>2. CASE inFlight' = inFlight /\ (flight[k].pc = "move" => w.pc = "move")
      <4>1. flight[inFlight].pc = "move"
        BY <2>1, <3>2 DEF RunsOK, InFlightMoves, At
      <4>2. CASE inFlight = k
        BY <1>1, <3>2, <4>1, <4>2
      <4>3. CASE inFlight # k
        <5>1. flight'[inFlight] = flight[inFlight]
          BY <4>3 DEF RunsOK, FlightsOK
        <5> QED  BY <3>2, <4>1, <5>1
      <4> QED  BY <4>2, <4>3
    <3> QED  BY <2>1, <3>1, <3>2
  <2> QED  BY <2>1 DEF InFlightMoves, At
<1> QED  BY <1>0, <1>2, <1>3, <1>4 DEF RunsOK

LEMMA LandedOK == Landed \in Flight /\ FlightOK(Landed) /\ Landed.pc = "idle"
BY DEF Landed, Flight, FlightOK, LinkPcs, Repairing, HasLink

(* A flight is over: nobody waits for it. *)
LEMMA FlightLands ==
    ASSUME RunsOK, NEW k \in Keys,
           NEW res \in {"link", "error", "cancelled", "retryable", "permanent"}, Returns(k, res),
           inFlight' = NoKey \/ (inFlight' = inFlight /\ flight[k].pc # "move")
    PROVE  RunsOK'
<1>1. flight' \in [Keys -> Flight] /\ \A j \in Keys : flight'[j] = IF j = k THEN Landed ELSE flight[j]
  BY LandedOK DEF RunsOK, FlightsOK, Returns
<1>2. FlightsOK'
  BY <1>1, LandedOK DEF RunsOK, FlightsOK, FlightOK, AccountsAt
<1>3. \A c \in Callers : caller'[c] = IF caller[c].pc = "wait" /\ caller[c].key = k
                                     THEN [caller[c] EXCEPT !.pc = "done", !.res = res, !.link = flight[k].link]
                                     ELSE caller[c]
  BY DEF Returns
<1>4. ASSUME NEW c \in Callers
      PROVE  /\ caller'[c] \in Caller
             /\ caller'[c].pc = "wait" => caller[c] = caller'[c] /\ caller[c].key # k
  <2>1. caller[c] \in Caller /\ flight[k].link \in Link \cup {NoLink}
    BY DEF RunsOK, CallersOK, FlightsOK, Flight
  <2>2. [caller[c] EXCEPT !.pc = "done", !.res = res, !.link = flight[k].link] \in Caller
        /\ [caller[c] EXCEPT !.pc = "done", !.res = res, !.link = flight[k].link].pc = "done"
    BY <2>1 DEF Caller
  <2> QED  BY <1>3, <2>1, <2>2
<1>5. CallersOK'
  <2>1. caller' \in [Callers -> Caller]
    BY <1>4 DEF Returns
  <2>2. ASSUME NEW c \in Callers, caller'[c].pc = "wait"
        PROVE  caller'[c].key \in Keys /\ flight'[caller'[c].key].pc # "idle"
    BY <1>1, <1>4, <2>2 DEF RunsOK, CallersOK
  <2> QED  BY <2>1, <2>2 DEF CallersOK
<1>6. InFlightMoves' /\ inFlight' \in Keys \cup {NoKey}
  <2>1. CASE inFlight' = NoKey
    BY <2>1 DEF InFlightMoves
  <2>2. CASE inFlight' = inFlight /\ flight[k].pc # "move" /\ inFlight # NoKey
    <3>1. inFlight \in Keys /\ flight[inFlight].pc = "move"
      BY <2>2 DEF RunsOK, InFlightMoves, At
    <3>2. inFlight # k
      BY <2>2, <3>1
    <3>3. flight'[inFlight] = flight[inFlight]
      BY <1>1, <3>1, <3>2
    <3> QED  BY <2>2, <3>1, <3>3 DEF InFlightMoves, At
  <2> QED  BY <2>1, <2>2 DEF RunsOK
<1> QED  BY <1>2, <1>5, <1>6 DEF RunsOK

(* Nothing of a flight changes. *)
LEMMA RunsKept == RunsOK /\ UNCHANGED <<flight, caller, inFlight>> => RunsOK'
BY DEF RunsOK, FlightsOK, FlightOK, CallersOK, InFlightMoves, At, AccountsAt

(* Only the program counter changes. *)
LEMMA FlightGoes ==
    ASSUME RunsOK, NEW k \in Keys, flight[k].pc # "idle", NEW pc \in LinkPcs \ {"idle", "ask", "swap", "await"},
           Goes(k, pc),
           pc \in Repairing => Len(flight[k].stack) <= MaxReinsertionAttempt,
           pc \in HasLink => flight[k].link \in Link,
           UNCHANGED inFlight, flight[k].pc # "move"
    PROVE  RunsOK'
<1> DEFINE w == [flight[k] EXCEPT !.pc = pc]
<1>1. flight[k] \in Flight /\ FlightOK(flight[k])
  BY DEF RunsOK, FlightsOK
<1>2. w \in Flight /\ w.pc = pc /\ w.stack = flight[k].stack /\ w.active = flight[k].active
      /\ w.link = flight[k].link
  BY <1>1 DEF Flight
<1>3. flight' = [flight EXCEPT ![k] = w] /\ UNCHANGED caller
  BY DEF Goes
<1> HIDE DEF w
<1>4. FlightOK(w)
  BY <1>1, <1>2 DEF FlightOK
<1> QED  BY <1>2, <1>3, <1>4, FlightMoves

LEMMA DataKept ==
    /\ UrlsOK /\ UNCHANGED urlState => UrlsOK'
    /\ AccountsOK /\ UNCHANGED accountState => AccountsOK'
    /\ FixerOK /\ UNCHANGED fixerState => FixerOK'
    /\ ValidOK /\ UNCHANGED validated => ValidOK'
BY DEF UrlsOK, urlState, AccountsOK, accountState, AccountsAt, FixerOK, fixerState, ValidOK

LEMMA TroubleCounts ==
    ASSUME troubles \in 0 .. MaxTroubles, Trouble \/ UNCHANGED troubles
    PROVE  (troubles \in 0 .. MaxTroubles)'
BY LinkAssumption DEF Trouble

(* What is below the flight's last fetchLink is shorter. *)
LEMMA BelowIsShorter ==
    ASSUME NEW s \in Seq({"fv", "ir"}), s # <<>>
    PROVE  Below(s) \in Seq({"fv", "ir"}) /\ Len(Below(s)) <= Len(s) /\ (Below(s) # <<>> => Len(Below(s)) >= 1)
<1> DEFINE B == {i \in 1 .. Len(s) - 1 : s[i] = "fv"}
           m == IF B = {} THEN 0 ELSE CHOOSE i \in B : \A j \in B : j <= i
<1>1. Len(s) \in Nat /\ Len(s) - 1 \in Nat
  BY EmptySeq, LenProperties
<1>2. m \in 0 .. Len(s) - 1
  <2>1. CASE B = {}
    BY <1>1, <2>1
  <2>2. CASE B # {}
    <3>1. B \in SUBSET (1 .. Len(s) - 1) /\ B \subseteq 0 .. Len(s) - 1
      OBVIOUS
    <3> HIDE DEF B
    <3>2. \E i \in B : \A j \in B : j <= i
      BY <1>1, <2>2, <3>1, GreatestExists
    <3>3. m \in B
      BY <2>2, <3>2
    <3> QED  BY <1>1, <3>1, <3>3
  <2> QED  BY <2>1, <2>2
<1>3. Below(s) = SubSeq(s, 1, m)
  BY DEF Below
<1> HIDE DEF m
<1>4. Below(s) \in Seq({"fv", "ir"}) /\ Len(Below(s)) = m
  BY <1>1, <1>2, <1>3
<1> QED  BY <1>1, <1>2, <1>4

LEMMA FlightsAre ==
    ASSUME RunsOK, NEW k \in Keys
    PROVE  flight[k] \in Flight /\ FlightOK(flight[k]) /\ Len(flight[k].stack) \in Nat
BY DEF RunsOK, FlightsOK, Flight

LEMMA ServeKeeps ==
    ASSUME RunsOK, NEW k \in Keys, flight[k].pc \in HasLink, Serve(k), UNCHANGED inFlight
    PROVE  RunsOK'
<1>1. flight[k] \in Flight /\ FlightOK(flight[k]) /\ flight[k].pc # "idle" /\ flight[k].pc # "move"
  BY FlightsAre DEF HasLink
<1>2. PICK s : s = Below(flight[k].stack)
  OBVIOUS
<1>3. flight[k].stack \in Seq({"fv", "ir"}) /\ Len(flight[k].stack) \in 1 .. MaxReinsertionAttempt + 1
  BY <1>1 DEF Flight, FlightOK
<1>4. s \in Seq({"fv", "ir"}) /\ Len(s) <= Len(flight[k].stack) /\ (s # <<>> => Len(s) >= 1)
  <2>1. flight[k].stack # <<>>
    BY <1>3
  <2> QED  BY <1>2, <1>3, <2>1, BelowIsShorter
<1>5. CASE s = <<>>
  <2>1. Returns(k, "link")
    BY <1>2, <1>5 DEF Serve
  <2> QED  BY <1>1, <2>1, FlightLands
<1>6. CASE s # <<>>
  <2> DEFINE w == [flight[k] EXCEPT !.stack = s, !.pc = "check"]
  <2>1. flight' = [flight EXCEPT ![k] = w] /\ UNCHANGED caller
    BY <1>2, <1>6 DEF Serve
  <2>2. w \in Flight /\ w.pc = "check" /\ w.stack = s /\ w.link = flight[k].link /\ w.active = flight[k].active
    BY <1>1, <1>4 DEF Flight, LinkPcs
  <2> HIDE DEF w
  <2>3. Len(s) \in 1 .. MaxReinsertionAttempt + 1
    BY <1>3, <1>4, <1>6, LenProperties, LinkAssumption
  <2>4. FlightOK(w)
    BY <1>1, <2>2, <2>3 DEF FlightOK, Repairing, HasLink
  <2> QED  BY <1>1, <2>1, <2>2, <2>4, FlightMoves
<1> QED  BY <1>5, <1>6

LEMMA GetLinkKeeps ==
    ASSUME LinkInv, NEW c \in Callers, NEW k \in Keys, GetLink(c, k)
    PROVE  LinkInv'
<1>1. DataOK'
  BY DataKept DEF LinkInv, DataOK, GetLink
<1>2. \E w \in Flight : FlightOK(w) /\ w.pc # "idle" /\ (flight[k].pc # "idle" => w = flight[k])
                        /\ (w.pc = "move" => flight[k].pc = "move") /\ flight' = [flight EXCEPT ![k] = w]
  <2>1. CASE At(k, "idle")
    <3> DEFINE w == [Landed EXCEPT !.pc = "enter", !.stack = <<"fv">>, !.active = stored.active, !.bad = stored.bad]
    <3>1. stored.active \in Providers /\ stored.bad \in BOOLEAN
      BY DEF LinkInv, DataOK, FixerOK
    <3>0. <<"fv">> \in Seq({"fv", "ir"}) /\ "enter" \in LinkPcs /\ Landed \in Flight
      BY LandedOK DEF LinkPcs
    <3>2. w \in Flight /\ w.pc = "enter" /\ w.stack = <<"fv">> /\ w.active \in Providers
      BY ONLY <3>0, <3>1 DEF Flight
    <3>3. flight' = [flight EXCEPT ![k] = w]
      BY <2>1 DEF GetLink
    <3> HIDE DEF w
    <3>4. Len(w.stack) = 1 /\ 1 \in 1 .. MaxReinsertionAttempt + 1
      BY <3>2, LinkAssumption
    <3>5. FlightOK(w)
      BY <3>2, <3>4 DEF FlightOK, Repairing, HasLink
    <3> QED  BY <2>1, <3>2, <3>3, <3>5 DEF At
  <2>2. CASE ~At(k, "idle")
    <3>1. flight' = flight /\ flight \in [Keys -> Flight]
      BY <2>2 DEF GetLink, LinkInv, RunsOK, FlightsOK
    <3>2. flight' = [flight EXCEPT ![k] = flight[k]]
      BY <3>1
    <3> QED  BY <2>2, <3>2, FlightsAre DEF At, LinkInv
  <2> QED  BY <2>1, <2>2
<1>3. PICK w \in Flight : FlightOK(w) /\ w.pc # "idle" /\ (flight[k].pc # "idle" => w = flight[k])
                        /\ (w.pc = "move" => flight[k].pc = "move") /\ flight' = [flight EXCEPT ![k] = w]
  BY <1>2
<1>4. flight' \in [Keys -> Flight] /\ \A j \in Keys : flight'[j] = IF j = k THEN w ELSE flight[j]
  BY <1>3 DEF LinkInv, RunsOK, FlightsOK
<1>5. FlightsOK'
  BY <1>3, <1>4 DEF LinkInv, RunsOK, FlightsOK, FlightOK, AccountsAt
<1>6. CallersOK'
  <2>1. [pc |-> "wait", key |-> k, res |-> "-", link |-> NoLink] \in Caller
    BY DEF Caller
  <2>2. caller' \in [Callers -> Caller]
    BY <2>1 DEF GetLink, LinkInv, RunsOK, CallersOK
  <2>3. ASSUME NEW d \in Callers, caller'[d].pc = "wait"
        PROVE  caller'[d].key \in Keys /\ flight'[caller'[d].key].pc # "idle"
    <3>1. CASE d = c
      <4>1. caller'[d].key = k
        BY <3>1 DEF GetLink, LinkInv, RunsOK, CallersOK
      <4> QED  BY <1>3, <1>4, <4>1
    <3>2. CASE d # c
      <4>1. caller'[d] = caller[d]
        BY <3>2 DEF GetLink, LinkInv, RunsOK, CallersOK
      <4> QED  BY <1>3, <1>4, <2>3, <4>1 DEF LinkInv, RunsOK, CallersOK
    <3> QED  BY <3>1, <3>2
  <2> QED  BY <2>2, <2>3 DEF CallersOK
<1>7. InFlightMoves' /\ inFlight' \in Keys \cup {NoKey}
  <2>1. inFlight' = inFlight
    BY DEF GetLink, fixerState
  <2>2. CASE inFlight \in Keys
    <3>1. inFlight # NoKey /\ flight[inFlight].pc = "move"
      BY <2>2, LinkAssumption DEF LinkInv, RunsOK, InFlightMoves, At
    <3>2. flight'[inFlight] = flight[inFlight]
      BY <1>3, <1>4, <2>2, <3>1
    <3> QED  BY <2>1, <2>2, <3>1, <3>2 DEF InFlightMoves, At
  <2> QED  BY <2>1, <2>2 DEF InFlightMoves, LinkInv, RunsOK
<1> QED  BY <1>1, <1>5, <1>6, <1>7 DEF LinkInv, RunsOK

LEMMA EnterKeeps ==
    ASSUME LinkInv, NEW k \in Keys, Enter(k)
    PROVE  LinkInv'
<1>1. DataOK'
  BY DataKept DEF LinkInv, DataOK, Enter
<1>2. RunsOK /\ flight[k].pc = "enter" /\ UNCHANGED inFlight
  BY DEF LinkInv, Enter, At, fixerState
<1>3. CASE Goes(k, "fetch")
  <2>1. RunsOK'
    BY <1>2, <1>3, FlightGoes DEF LinkPcs, Repairing, HasLink
  <2> QED  BY <1>1, <2>1 DEF LinkInv
<1>4. CASE Returns(k, "cancelled")
  <2>1. RunsOK'
    BY <1>2, <1>4, FlightLands
  <2> QED  BY <1>1, <2>1 DEF LinkInv
<1> QED  BY <1>3, <1>4 DEF Enter

LEMMA RefreshPlacementKeeps ==
    ASSUME LinkInv, NEW k \in Keys, RefreshPlacement(k)
    PROVE  LinkInv'
<1>1. DataOK'
  BY DataKept, TroubleCounts DEF LinkInv, DataOK, RefreshPlacement
<1>2. RunsOK /\ flight[k].pc = "fetch" /\ UNCHANGED inFlight /\ flight[k] \in Flight /\ FlightOK(flight[k])
  BY FlightsAre DEF LinkInv, RefreshPlacement, At, fixerState
<1>3. CASE Returns(k, "error")
  <2>1. RunsOK'
    BY <1>2, <1>3, FlightLands
  <2> QED  BY <1>1, <2>1 DEF LinkInv
<1>4. CASE flight' = [flight EXCEPT ![k].active = stored.active, ![k].bad = stored.bad] /\ UNCHANGED caller
  <2> DEFINE w == [flight[k] EXCEPT !.active = stored.active, !.bad = stored.bad]
  <2>1. stored.active \in Providers /\ stored.bad \in BOOLEAN
    BY DEF LinkInv, DataOK, FixerOK
  <2>2. w \in Flight /\ w.pc = "fetch" /\ w.stack = flight[k].stack /\ w.active \in Providers
    BY <1>2, <2>1 DEF Flight
  <2>3. flight' = [flight EXCEPT ![k] = w]
    BY <1>2, <1>4 DEF LinkInv, RunsOK, FlightsOK
  <2> HIDE DEF w
  <2>4. FlightOK(w)
    BY <1>2, <2>2 DEF FlightOK, Repairing, HasLink
  <2>5. RunsOK'
    BY <1>2, <1>4, <2>2, <2>3, <2>4, FlightMoves
  <2> QED  BY <1>1, <2>5 DEF LinkInv
<1> QED  BY <1>3, <1>4 DEF RefreshPlacement

LEMMA PickAccountKeeps ==
    ASSUME LinkInv, NEW k \in Keys, PickAccount(k)
    PROVE  LinkInv'
<1>1. RunsOK /\ flight[k].pc = "fetch" /\ UNCHANGED inFlight /\ flight[k] \in Flight /\ FlightOK(flight[k])
  BY FlightsAre DEF LinkInv, PickAccount, At, fixerState
<1>2. PICK p \in Providers : p = flight[k].active
  BY <1>1 DEF FlightOK
<1>3. PICK i \in AccountsAt(p) : i = Current(p) /\ i \in Nat
  BY CurrentIsAccount DEF LinkInv, DataOK
<1>4. current' = [current EXCEPT ![p] = i] /\ flight' = [flight EXCEPT ![k].pc = "ask", ![k].acc = i]
  BY <1>2, <1>3 DEF PickAccount
<1>5. AccountsOK'
  BY <1>3, <1>4 DEF PickAccount, LinkInv, DataOK, AccountsOK, AccountsAt
<1>6. DataOK'
  BY <1>5, DataKept DEF PickAccount, LinkInv, DataOK
<1> DEFINE w == [flight[k] EXCEPT !.pc = "ask", !.acc = i]
<1>7. w \in Flight /\ w.pc = "ask" /\ w.acc = i /\ w.active = p /\ w.stack = flight[k].stack
  BY <1>1, <1>2, <1>3 DEF Flight, LinkPcs
<1>8. flight' = [flight EXCEPT ![k] = w] /\ UNCHANGED caller
  BY <1>4 DEF PickAccount
<1> HIDE DEF w
<1>9. FlightOK(w)
  BY <1>1, <1>3, <1>7 DEF FlightOK, Repairing, HasLink
<1>10. RunsOK'
  BY <1>1, <1>7, <1>8, <1>9, FlightMoves
<1> QED  BY <1>6, <1>10 DEF LinkInv

(* An account gives out a link. *)
LEMMA OffersAreLinks ==
    ASSUME UrlsOK, NEW p \in Providers, NEW i \in AccountsAt(p), NEW k \in Keys, NEW n \in Offers(p, i, k)
    PROVE  n \in 0 .. MaxUrls /\ <<p, i>> \in Accounts
<1>1. <<p, i>> \in Accounts
  BY AccountAt
<1>2. PICK a \in Accounts : a = <<p, i>>
  BY <1>1
<1>3. links[a][k] \in Nat /\ made[a][k] \in Nat /\ links[a][k] <= made[a][k] /\ made[a][k] <= MaxUrls
  BY DEF UrlsOK
<1>4. n \in {links[a][k], 0, made[a][k] + 1, MaxUrls} /\ (n = made[a][k] + 1 => made[a][k] < MaxUrls \/ n = links[a][k])
  BY <1>2, <1>3, LinkAssumption DEF Offers
<1> QED  BY <1>1, <1>3, <1>4, LinkAssumption

LEMMA AnswersKeep ==
    ASSUME LinkInv, NEW k \in Keys, flight[k].pc = "ask", NEW i \in AccountsAt(flight[k].active),
           NEW n \in Offers(flight[k].active, i, k), n # 0, Answers(flight[k].active, i, k, n),
           UNCHANGED <<spent, dead, alive, fixerState, caller>>
    PROVE  UrlsOK' /\ RunsOK'
<1>1. RunsOK /\ UrlsOK /\ UNCHANGED inFlight /\ flight[k] \in Flight /\ FlightOK(flight[k])
  BY FlightsAre DEF LinkInv, DataOK, fixerState
<1>2. PICK p \in Providers : p = flight[k].active
  BY <1>1 DEF FlightOK
<1>3. n \in 1 .. MaxUrls /\ <<p, i>> \in Accounts
  <2>1. n \in 0 .. MaxUrls /\ <<p, i>> \in Accounts
    BY <1>1, <1>2, OffersAreLinks
  <2> QED  BY <2>1, LinkAssumption
<1>4. PICK a \in Accounts : a = <<p, i>>
  BY <1>3
<1>5. /\ made' = [made EXCEPT ![a][k] = IF n > @ THEN n ELSE @]
      /\ links' = [links EXCEPT ![a][k] = n]
  BY <1>2, <1>4 DEF Answers
<1>6. UrlsOK'
  <2>1. made' \in [Accounts -> [Keys -> Nat]] /\ links' \in [Accounts -> [Keys -> Nat]]
    BY <1>1, <1>3, <1>5 DEF UrlsOK
  <2>2. ASSUME NEW b \in Accounts, NEW j \in Keys
        PROVE  links'[b][j] <= made'[b][j] /\ made'[b][j] <= MaxUrls
    <3>1. CASE b = a /\ j = k
      <4>1. made'[b][j] = (IF n > made[a][k] THEN n ELSE made[a][k]) /\ links'[b][j] = n
        BY <1>1, <1>5, <3>1 DEF UrlsOK
      <4>2. made[a][k] \in Nat /\ made[a][k] <= MaxUrls /\ n \in Nat /\ n <= MaxUrls
        BY <1>1, <1>3 DEF UrlsOK
      <4> QED  BY <4>1, <4>2
    <3>2. CASE ~(b = a /\ j = k)
      <4>1. made'[b][j] = made[b][j] /\ links'[b][j] = links[b][j]
        BY <1>1, <1>5, <3>2 DEF UrlsOK
      <4> QED  BY <1>1, <4>1 DEF UrlsOK
    <3> QED  BY <3>1, <3>2
  <2> QED  BY <1>1, <2>1, <2>2 DEF UrlsOK
<1> DEFINE l == [acc |-> a, key |-> k, n |-> n]
           pc == IF TopOf(k) = "fv" THEN "check" ELSE "linked"
           w == [flight[k] EXCEPT !.link = l, !.pc = pc]
<1>7. l \in Link
  BY <1>3 DEF Link
<1>8. flight' = [flight EXCEPT ![k] = w]
  BY <1>1, <1>2, <1>4 DEF Answers, RunsOK, FlightsOK
<1>9. pc \in {"check", "linked"}
  OBVIOUS
<1> HIDE DEF l, pc
<1>10. w \in Flight /\ w.pc = pc /\ w.link = l /\ w.active = p /\ w.stack = flight[k].stack
  BY <1>1, <1>2, <1>7, <1>9 DEF Flight, LinkPcs
<1> HIDE DEF w
<1>11. FlightOK(w)
  BY <1>1, <1>2, <1>7, <1>9, <1>10 DEF FlightOK, Repairing, HasLink
<1>12. RunsOK'
  BY <1>1, <1>8, <1>9, <1>10, <1>11, FlightMoves
<1> QED  BY <1>6, <1>12

LEMMA AskKeeps ==
    ASSUME LinkInv, NEW k \in Keys, Ask(k)
    PROVE  LinkInv'
<1>1. RunsOK /\ flight[k].pc = "ask" /\ UNCHANGED inFlight /\ flight[k] \in Flight /\ FlightOK(flight[k])
  BY FlightsAre DEF LinkInv, Ask, At, fixerState
<1>2. PICK p \in Providers : p = flight[k].active
  BY <1>1 DEF FlightOK
<1>3. flight[k].acc \in AccountsAt(flight[k].active)
  BY <1>1 DEF FlightOK
<1>4. UrlsOK' /\ RunsOK'
  <2>1. ASSUME AskOthers(k) PROVE UrlsOK' /\ RunsOK'
    <3>1. CASE \E j \in Others(k) : \E n \in Offers(p, j, k) \ {0} : Answers(p, j, k, n)
      <4>1. PICK j \in Others(k) : \E n \in Offers(p, j, k) \ {0} : Answers(p, j, k, n)
        BY <3>1
      <4>2. PICK n \in Offers(p, j, k) \ {0} : Answers(p, j, k, n)
        BY <4>1
      <4>3. j \in AccountsAt(flight[k].active)
        BY DEF Others, Active
      <4> QED  BY <1>1, <1>2, <4>2, <4>3, AnswersKeep DEF Ask
    <3>2. CASE flight' = [flight EXCEPT ![k].pc = "empty"] /\ UNCHANGED <<made, links>>
      <4>1. Goes(k, "empty")
        BY <3>2 DEF Ask, Goes
      <4>2. RunsOK'
        BY <1>1, <4>1, FlightGoes DEF LinkPcs, Repairing, HasLink
      <4>3. UrlsOK'
        BY <3>2, DataKept DEF Ask, urlState, LinkInv, DataOK
      <4> QED  BY <4>2, <4>3
    <3> QED  BY <1>2, <2>1, <3>1, <3>2 DEF AskOthers
  <2>2. PICK n \in Offers(flight[k].active, flight[k].acc, k) :
          \/ n # 0 /\ Answers(flight[k].active, flight[k].acc, k, n)
          \/ AskOthers(k)
    BY DEF Ask
  <2>3. CASE n # 0 /\ Answers(flight[k].active, flight[k].acc, k, n)
    BY <1>1, <1>3, <2>3, AnswersKeep DEF Ask
  <2> QED  BY <2>1, <2>2, <2>3
<1>5. Trouble \/ UNCHANGED troubles
  BY DEF Ask
<1>6. DataOK'
  BY <1>4, <1>5, DataKept, TroubleCounts DEF Ask, LinkInv, DataOK
<1> QED  BY <1>4, <1>6 DEF LinkInv

(* The link is validated. *)
LEMMA RefetchedKeeps ==
    ASSUME LinkInv, NEW k \in Keys, Refetched(k)
    PROVE  LinkInv'
<1>1. DataOK'
  BY DataKept DEF LinkInv, DataOK, Refetched
<1>2. RunsOK'
  BY ServeKeeps DEF LinkInv, Refetched, At, HasLink, fixerState
<1> QED  BY <1>1, <1>2 DEF LinkInv

LEMMA CheckKeeps ==
    ASSUME LinkInv, NEW k \in Keys, Check(k)
    PROVE  LinkInv'
<1>1. DataOK'
  BY DataKept DEF LinkInv, DataOK, Check
<1>2. RunsOK /\ flight[k].pc = "check" /\ UNCHANGED inFlight /\ flight[k].link \in Link
  BY FlightsAre DEF LinkInv, Check, At, fixerState, FlightOK, HasLink
<1>3. PICK v \in {"-", "ok", "retryable", "permanent"} : v = validated[flight[k].link]
  BY <1>2 DEF LinkInv, DataOK, ValidOK
<1>4. RunsOK'
  <2>1. CASE v = "-"
    <3>1. Goes(k, "head")
      BY <1>3, <2>1 DEF Check
    <3> QED  BY <1>2, <3>1, FlightGoes DEF LinkPcs, Repairing
  <2>2. CASE v = "ok"
    <3>1. Serve(k)
      BY <1>3, <2>2 DEF Check
    <3> QED  BY <1>2, <3>1, ServeKeeps DEF HasLink
  <2>3. CASE v \in {"retryable", "permanent"}
    <3>1. Returns(k, v)
      BY <1>3, <2>3 DEF Check
    <3> QED  BY <1>2, <2>3, <3>1, FlightLands
  <2> QED  BY <1>3, <2>1, <2>2, <2>3
<1> QED  BY <1>1, <1>4 DEF LinkInv

LEMMA ValidateLinkKeeps ==
    ASSUME LinkInv, NEW k \in Keys, ValidateLink(k)
    PROVE  LinkInv'
<1>1. Trouble \/ UNCHANGED troubles
  BY DEF ValidateLink
<1>2. DataOK'
  BY <1>1, DataKept, TroubleCounts DEF LinkInv, DataOK, ValidateLink
<1>3. RunsOK /\ flight[k].pc = "head" /\ UNCHANGED inFlight /\ flight[k] \in Flight /\ FlightOK(flight[k])
  BY FlightsAre DEF LinkInv, ValidateLink, At, fixerState
<1>4. PICK v \in {"account", "refetch", "ok", "retryable", "permanent"} :
          flight' = [flight EXCEPT ![k].pc = v, ![k].checked = TRUE]
  BY DEF ValidateLink, Verdicts
<1> DEFINE w == [flight[k] EXCEPT !.pc = v, !.checked = TRUE]
<1>5. w \in Flight /\ w.pc = v /\ w.stack = flight[k].stack /\ w.link = flight[k].link /\ w.active = flight[k].active
  BY <1>3 DEF Flight, LinkPcs
<1>6. flight' = [flight EXCEPT ![k] = w] /\ UNCHANGED caller
  BY <1>4 DEF ValidateLink
<1> HIDE DEF w
<1>7. FlightOK(w)
  BY <1>3, <1>5 DEF FlightOK, Repairing, HasLink
<1>8. RunsOK'
  BY <1>3, <1>5, <1>6, <1>7, FlightMoves
<1> QED  BY <1>2, <1>8 DEF LinkInv

LEMMA KeepKeeps ==
    ASSUME LinkInv, NEW k \in Keys, Keep(k)
    PROVE  LinkInv'
<1>1. RunsOK /\ flight[k].pc \in {"ok", "retryable", "permanent"} /\ UNCHANGED inFlight
  BY DEF LinkInv, Keep, fixerState
<1>2. ValidOK'
  BY <1>1 DEF Keep, LinkInv, DataOK, ValidOK
<1>3. DataOK'
  BY <1>2, DataKept DEF LinkInv, DataOK, Keep
<1>4. RunsOK'
  <2>1. CASE At(k, "ok")
    <3>1. Serve(k)
      BY <2>1 DEF Keep
    <3> QED  BY <1>1, <3>1, ServeKeeps DEF HasLink
  <2>2. CASE ~At(k, "ok")
    <3>1. Returns(k, flight[k].pc)
      BY <2>2 DEF Keep
    <3> QED  BY <1>1, <2>2, <3>1, FlightLands DEF At
  <2> QED  BY <2>1, <2>2
<1> QED  BY <1>3, <1>4 DEF LinkInv

LEMMA MarkDisabledKeeps ==
    ASSUME LinkInv, NEW k \in Keys, MarkDisabled(k)
    PROVE  LinkInv'
<1>1. RunsOK /\ flight[k].pc = "account" /\ UNCHANGED inFlight /\ flight[k] \in Flight /\ FlightOK(flight[k])
  BY FlightsAre DEF LinkInv, MarkDisabled, At, fixerState
<1>2. flight[k].link \in Link
  BY <1>1 DEF FlightOK, HasLink
<1>3. PICK a \in Accounts : a = flight[k].link.acc
  BY <1>2, LinkParts
<1>4. a[1] \in Providers /\ a[2] \in AccountsAt(a[1])
  BY AccountParts
<1>5. PICK i \in AccountsAt(a[1]) : i = FirstOf(a[1], ActiveWithout(a[1], a[2]))
  <2>1. ActiveWithout(a[1], a[2]) \in SUBSET AccountsAt(a[1])
    BY DEF ActiveWithout, Active
  <2> QED  BY <1>4, <2>1, FirstOfIsAccount
<1>6. disabled' = disabled \cup {a} /\ flight' = [flight EXCEPT ![k].pc = "swap", ![k].acc = i]
  BY <1>3, <1>5 DEF MarkDisabled
<1>7. DataOK'
  BY <1>6, DataKept DEF LinkInv, DataOK, MarkDisabled, AccountsOK, AccountsAt
<1> DEFINE w == [flight[k] EXCEPT !.pc = "swap", !.acc = i]
<1>8. i \in Nat
  BY DEF AccountsAt
<1>9. w \in Flight /\ w.pc = "swap" /\ w.acc = i /\ w.stack = flight[k].stack /\ w.link = flight[k].link
      /\ w.active = flight[k].active
  BY <1>1, <1>8 DEF Flight, LinkPcs
<1>10. flight' = [flight EXCEPT ![k] = w] /\ UNCHANGED caller
  BY <1>6 DEF MarkDisabled
<1> HIDE DEF w
<1>11. FlightOK(w)
  BY <1>1, <1>2, <1>3, <1>9 DEF FlightOK, Repairing
<1>12. RunsOK'
  BY <1>1, <1>9, <1>10, <1>11, FlightMoves
<1> QED  BY <1>7, <1>12 DEF LinkInv

LEMMA SwapCurrentKeeps ==
    ASSUME LinkInv, NEW k \in Keys, SwapCurrent(k)
    PROVE  LinkInv'
<1>1. RunsOK /\ flight[k].pc = "swap" /\ UNCHANGED inFlight /\ flight[k] \in Flight /\ FlightOK(flight[k])
  BY FlightsAre DEF LinkInv, SwapCurrent, At, fixerState
<1>2. flight[k].link.acc \in Accounts /\ flight[k].acc \in AccountsAt(flight[k].link.acc[1])
  BY <1>1, LinkParts DEF FlightOK, HasLink
<1>3. PICK p \in Providers : p = flight[k].link.acc[1]
  BY <1>2, AccountParts
<1>4. PICK i \in AccountsAt(p) : i = flight[k].acc
  BY <1>2, <1>3
<1>5. current' = [current EXCEPT ![p] = i] /\ i \in Nat
  BY <1>3, <1>4 DEF SwapCurrent, AccountsAt
<1>6. AccountsOK'
  BY <1>5 DEF LinkInv, DataOK, SwapCurrent, AccountsOK, AccountsAt
<1>7. ValidOK'
  BY DEF SwapCurrent, ValidOK
<1>8. DataOK'
  BY <1>6, <1>7, DataKept DEF LinkInv, DataOK, SwapCurrent
<1>9. RunsOK'
  BY <1>1, FlightGoes DEF SwapCurrent, LinkPcs, Repairing, HasLink
<1> QED  BY <1>8, <1>9 DEF LinkInv

LEMMA InvalidateKeeps ==
    ASSUME LinkInv, NEW k \in Keys, Invalidate(k)
    PROVE  LinkInv'
<1>1. RunsOK /\ flight[k].pc = "refetch" /\ UNCHANGED inFlight /\ flight[k] \in Flight /\ FlightOK(flight[k])
  BY FlightsAre DEF LinkInv, Invalidate, At, fixerState
<1>2. PICK l \in Link : l = flight[k].link
  BY <1>1 DEF FlightOK, HasLink
<1>3. PICK a \in Accounts : a = l.acc
  BY LinkParts
<1>4. ValidOK'
  BY <1>2 DEF Invalidate, LinkInv, DataOK, ValidOK
<1>5. links' = [links EXCEPT ![a][k] = 0]
  BY <1>2, <1>3 DEF Invalidate
<1>6. UrlsOK'
  <2>1. links' \in [Accounts -> [Keys -> Nat]]
    BY <1>5 DEF LinkInv, DataOK, UrlsOK
  <2>2. ASSUME NEW b \in Accounts, NEW j \in Keys
        PROVE  links'[b][j] = 0 \/ links'[b][j] = links[b][j]
    BY <1>5 DEF LinkInv, DataOK, UrlsOK
  <2>3. UNCHANGED <<spent, dead, alive, made>>
    BY DEF Invalidate
  <2>4. UrlsOK
    BY DEF LinkInv, DataOK
  <2> QED  BY <2>1, <2>2, <2>3, <2>4 DEF UrlsOK
<1>7. DataOK'
  BY <1>4, <1>6, DataKept DEF LinkInv, DataOK, Invalidate
<1> DEFINE s == [flight[k].stack EXCEPT ![Len(flight[k].stack)] = "ir"]
           w == [flight[k] EXCEPT !.pc = "fetch", !.stack = s]
<1>8. flight[k].stack \in Seq({"fv", "ir"}) /\ Len(flight[k].stack) \in 1 .. MaxReinsertionAttempt + 1
  BY <1>1 DEF Flight, FlightOK
<1>9. s \in Seq({"fv", "ir"}) /\ Len(s) = Len(flight[k].stack)
  BY <1>8
<1>10. flight' = [flight EXCEPT ![k] = w] /\ UNCHANGED caller
  BY <1>1 DEF Invalidate
<1> HIDE DEF s
<1>11. w \in Flight /\ w.pc = "fetch" /\ w.stack = s /\ w.active = flight[k].active
  BY <1>1, <1>9 DEF Flight, LinkPcs
<1> HIDE DEF w
<1>12. FlightOK(w)
  BY <1>1, <1>8, <1>9, <1>11 DEF FlightOK, Repairing, HasLink
<1>13. RunsOK'
  BY <1>1, <1>10, <1>11, <1>12, FlightMoves
<1> QED  BY <1>7, <1>13 DEF LinkInv

LEMMA EmptyLinkKeeps ==
    ASSUME LinkInv, NEW k \in Keys, EmptyLink(k)
    PROVE  LinkInv'
<1>1. RunsOK /\ flight[k].pc = "empty" /\ UNCHANGED inFlight /\ flight[k] \in Flight /\ FlightOK(flight[k])
  BY FlightsAre DEF LinkInv, EmptyLink, At
<1>2. stored' \in [active : Providers, bad : BOOLEAN]
  <2>1. stored' = stored \/ stored' = [active |-> flight[k].active, bad |-> TRUE]
    BY DEF EmptyLink
  <2>2. flight[k].active \in Providers /\ stored \in [active : Providers, bad : BOOLEAN]
    BY <1>1 DEF LinkInv, DataOK, FixerOK, FlightOK
  <2>3. [active |-> flight[k].active, bad |-> TRUE] \in [active : Providers, bad : BOOLEAN]
    BY <2>2
  <2> QED  BY ONLY <2>1, <2>2, <2>3, Zenon
<1>3. DataOK'
  BY <1>2, DataKept DEF LinkInv, DataOK, EmptyLink, FixerOK
<1>4. CASE Returns(k, "error")
  <2>1. RunsOK'
    BY <1>1, <1>4, FlightLands
  <2> QED  BY <1>3, <2>1 DEF LinkInv
<1>5. CASE ~(Attempt(k) >= MaxReinsertionAttempt) /\ Goes(k, "fix")
  <2>1. Len(flight[k].stack) \in 1 .. MaxReinsertionAttempt + 1
    BY <1>1 DEF FlightOK
  <2>2. Len(flight[k].stack) <= MaxReinsertionAttempt
    BY <1>5, <2>1, LinkAssumption DEF Attempt
  <2>3. RunsOK'
    BY <1>1, <1>5, <2>2, FlightGoes DEF LinkPcs, Repairing, HasLink
  <2> QED  BY <1>3, <2>3 DEF LinkInv
<1> QED  BY <1>4, <1>5 DEF EmptyLink

(* The entry is re-inserted. *)
LEMMA ReadCooldownKeeps ==
    ASSUME LinkInv, NEW k \in Keys, ReadCooldown(k)
    PROVE  LinkInv'
<1>1. RunsOK /\ flight[k].pc = "fix" /\ UNCHANGED inFlight /\ Len(flight[k].stack) <= MaxReinsertionAttempt
  BY FlightsAre DEF LinkInv, ReadCooldown, At, fixerState, FlightOK, Repairing
<1>2. DataOK'
  BY DataKept DEF LinkInv, DataOK, ReadCooldown, fixerRest
<1>3. CASE Returns(k, "error")
  <2>1. RunsOK'
    BY <1>1, <1>3, FlightLands
  <2> QED  BY <1>2, <2>1 DEF LinkInv
<1>4. CASE Goes(k, "cool")
  <2>1. RunsOK'
    BY <1>1, <1>4, FlightGoes DEF LinkPcs, HasLink
  <2> QED  BY <1>2, <2>1 DEF LinkInv
<1> QED  BY <1>3, <1>4 DEF ReadCooldown

LEMMA StartCooldownKeeps ==
    ASSUME LinkInv, NEW k \in Keys, StartCooldown(k)
    PROVE  LinkInv'
<1>1. RunsOK /\ flight[k].pc = "cool" /\ UNCHANGED inFlight /\ flight[k] \in Flight /\ FlightOK(flight[k])
  BY FlightsAre DEF LinkInv, StartCooldown, At
<1>2. FixerOK'
  BY DEF LinkInv, DataOK, StartCooldown, FixerOK
<1>3. DataOK'
  BY <1>2, DataKept DEF LinkInv, DataOK, StartCooldown, fixerRest
<1>4. \E w \in Flight : /\ w.pc \in {"await", "claim"} /\ (w.pc = "await" => w.req \in Keys)
                        /\ w.stack = flight[k].stack /\ w.active = flight[k].active
                        /\ flight' = [flight EXCEPT ![k] = w]
  <2>1. CASE inFlight # NoKey
    <3> DEFINE w == [flight[k] EXCEPT !.pc = "await", !.req = inFlight]
    <3>1. inFlight \in Keys
      BY <1>1, <2>1 DEF RunsOK
    <3>2. w \in Flight /\ w.pc = "await" /\ w.req \in Keys /\ w.stack = flight[k].stack /\ w.active = flight[k].active
      BY <1>1, <3>1 DEF Flight, LinkPcs
    <3>3. flight' = [flight EXCEPT ![k] = w]
      BY <2>1 DEF StartCooldown
    <3> QED  BY <3>2, <3>3
  <2>2. CASE inFlight = NoKey
    <3> DEFINE w == [flight[k] EXCEPT !.pc = "claim"]
    <3>1. w \in Flight /\ w.pc = "claim" /\ w.stack = flight[k].stack /\ w.active = flight[k].active
      BY <1>1 DEF Flight, LinkPcs
    <3>2. flight' = [flight EXCEPT ![k] = w]
      BY <2>2 DEF StartCooldown
    <3> QED  BY <3>1, <3>2
  <2> QED  BY <2>1, <2>2
<1>5. PICK w \in Flight : /\ w.pc \in {"await", "claim"} /\ (w.pc = "await" => w.req \in Keys)
                          /\ w.stack = flight[k].stack /\ w.active = flight[k].active
                          /\ flight' = [flight EXCEPT ![k] = w]
  BY <1>4
<1>6. FlightOK(w)
  BY <1>1, <1>5 DEF FlightOK, Repairing, HasLink
<1>7. RunsOK'
  BY <1>1, <1>5, <1>6, FlightMoves DEF StartCooldown
<1> QED  BY <1>3, <1>7 DEF LinkInv

(* fetchLink is called again, one deeper. *)
LEMMA DeeperOK ==
    ASSUME NEW f \in Flight, FlightOK(f), f.pc \in Repairing, NEW p \in Providers, NEW b \in BOOLEAN
    PROVE  \E w \in Flight : /\ w = [f EXCEPT !.pc = "enter", !.stack = Append(@, "fv"), !.active = p, !.bad = b]
                             /\ w.pc = "enter" /\ FlightOK(w)
<1> DEFINE s == Append(f.stack, "fv")
           w == [f EXCEPT !.pc = "enter", !.stack = s, !.active = p, !.bad = b]
<1>1. f.stack \in Seq({"fv", "ir"}) /\ Len(f.stack) \in 1 .. MaxReinsertionAttempt + 1
      /\ Len(f.stack) <= MaxReinsertionAttempt
  BY DEF Flight, FlightOK, Repairing
<1>2. s \in Seq({"fv", "ir"}) /\ Len(s) = Len(f.stack) + 1
  BY <1>1
<1>3. w = [f EXCEPT !.pc = "enter", !.stack = Append(@, "fv"), !.active = p, !.bad = b]
  BY DEF Flight
<1> HIDE DEF s
<1>4. w \in Flight /\ w.pc = "enter" /\ w.stack = s /\ w.active = p
  BY <1>2 DEF Flight, LinkPcs
<1> HIDE DEF w
<1>5. FlightOK(w)
  BY <1>1, <1>2, <1>4, LinkAssumption DEF FlightOK, Repairing, HasLink
<1> QED  BY <1>3, <1>4, <1>5

LEMMA AwaitRepairKeeps ==
    ASSUME LinkInv, NEW k \in Keys, AwaitRepair(k)
    PROVE  LinkInv'
<1>1. RunsOK /\ flight[k].pc = "await" /\ UNCHANGED inFlight /\ flight[k] \in Flight /\ FlightOK(flight[k])
  BY FlightsAre DEF LinkInv, AwaitRepair, At
<1>2. FixerOK'
  BY DEF LinkInv, DataOK, AwaitRepair, FixerOK
<1>3. DataOK'
  BY <1>2, DataKept DEF LinkInv, DataOK, AwaitRepair, fixerRest
<1>4. CASE Returns(k, "error") \/ Returns(k, "cancelled")
  <2>1. RunsOK'
    BY <1>1, <1>4, FlightLands
  <2> QED  BY <1>3, <2>1 DEF LinkInv
<1>5. CASE flight' = [flight EXCEPT ![k].pc = "enter", ![k].stack = Append(@, "fv")] /\ UNCHANGED caller
  <2>1. flight[k].active \in Providers /\ flight[k].bad \in BOOLEAN
    BY <1>1 DEF FlightOK, Flight
  <2>2. PICK w \in Flight : /\ w = [flight[k] EXCEPT !.pc = "enter", !.stack = Append(@, "fv"),
                                                     !.active = flight[k].active, !.bad = flight[k].bad]
                            /\ w.pc = "enter" /\ FlightOK(w)
    BY ZenonT(60), <1>1, <2>1, DeeperOK DEF Repairing
  <2>3. w = [flight[k] EXCEPT !.pc = "enter", !.stack = Append(@, "fv")]
    BY <1>1, <2>2 DEF Flight
  <2>4. flight' = [flight EXCEPT ![k] = w]
    BY <1>5, <2>3
  <2>5. RunsOK'
    BY <1>1, <1>5, <2>2, <2>4, FlightMoves
  <2> QED  BY <1>3, <2>5 DEF LinkInv
<1> QED  BY <1>4, <1>5 DEF AwaitRepair

LEMMA ClaimRepairKeeps ==
    ASSUME LinkInv, NEW k \in Keys, ClaimRepair(k)
    PROVE  LinkInv'
<1>1. RunsOK /\ flight[k].pc = "claim" /\ inFlight' = k /\ flight[k] \in Flight /\ FlightOK(flight[k])
  BY FlightsAre DEF LinkInv, ClaimRepair, At
<1>2. FixerOK'
  BY DEF LinkInv, DataOK, ClaimRepair, FixerOK
<1>3. DataOK'
  BY <1>2, DataKept DEF LinkInv, DataOK, ClaimRepair, fixerRest
<1> DEFINE w == [flight[k] EXCEPT !.pc = "move", !.tried = {}]
<1>4. w \in Flight /\ w.pc = "move" /\ w.stack = flight[k].stack /\ w.active = flight[k].active
  BY <1>1 DEF Flight, LinkPcs
<1>5. flight' = [flight EXCEPT ![k] = w] /\ UNCHANGED caller
  BY DEF ClaimRepair
<1> HIDE DEF w
<1>6. FlightOK(w)
  BY <1>1, <1>4 DEF FlightOK, Repairing, HasLink
<1>7. RunsOK'
  BY <1>1, <1>4, <1>5, <1>6, FlightMoves
<1> QED  BY <1>3, <1>7 DEF LinkInv

LEMMA ReleasedOK ==
    ASSUME FixerOK, NEW k \in Keys, NEW res \in {"fixed", "failed"}, Released(k, res)
    PROVE  result' \in [Keys -> {"-", "fixed", "failed"}] /\ inFlight' = NoKey
BY DEF FixerOK, Released

LEMMA MoveEntryKeeps ==
    ASSUME LinkInv, NEW k \in Keys, MoveEntry(k)
    PROVE  LinkInv'
<1>1. RunsOK /\ flight[k].pc = "move" /\ flight[k] \in Flight /\ FlightOK(flight[k]) /\ FixerOK /\ UrlsOK
  BY FlightsAre DEF LinkInv, DataOK, MoveEntry, At
<1>2. PICK p \in Untried(k) :
          \/ /\ alive' = alive \cup {p} \/ alive' = alive
             /\ stored' = [active |-> p, bad |-> FALSE]
             /\ Released(k, "fixed")
             /\ flight' = [flight EXCEPT ![k].pc = "enter", ![k].stack = Append(@, "fv"),
                                         ![k].active = p, ![k].bad = FALSE]
             /\ UNCHANGED failed
          \/ /\ failed' = failed \cup {p}
             /\ stored' = [active |-> flight[k].active, bad |-> flight[k].bad]
             /\ flight' = [flight EXCEPT ![k].tried = @ \cup {p}]
             /\ UNCHANGED <<alive, inFlight, result>>
  BY DEF MoveEntry
<1>3. p \in Providers /\ flight[k].active \in Providers /\ flight[k].bad \in BOOLEAN
  BY <1>1 DEF Untried, FlightOK, Flight
<1>4. alive' \subseteq Providers /\ UNCHANGED <<spent, dead, made, links>>
  BY <1>1, <1>2, <1>3 DEF UrlsOK, MoveEntry
<1>5. UrlsOK'
  BY <1>1, <1>4 DEF UrlsOK
<1>6. CASE /\ stored' = [active |-> p, bad |-> FALSE]
           /\ Released(k, "fixed")
           /\ flight' = [flight EXCEPT ![k].pc = "enter", ![k].stack = Append(@, "fv"),
                                       ![k].active = p, ![k].bad = FALSE]
           /\ UNCHANGED failed
  <2>1. FixerOK' /\ inFlight' = NoKey
    BY <1>1, <1>3, <1>6, ReleasedOK DEF FixerOK, MoveEntry
  <2>2. PICK w \in Flight : /\ w = [flight[k] EXCEPT !.pc = "enter", !.stack = Append(@, "fv"), !.active = p, !.bad = FALSE]
                            /\ w.pc = "enter" /\ FlightOK(w)
    BY <1>1, <1>3, DeeperOK DEF Repairing
  <2>3. flight' = [flight EXCEPT ![k] = w] /\ UNCHANGED caller
    BY ZenonT(60), <1>6, <2>2 DEF MoveEntry
  <2>4. RunsOK'
    BY <1>1, <2>1, <2>2, <2>3, FlightMoves
  <2> QED  BY <1>5, <2>1, <2>4, DataKept DEF LinkInv, DataOK, MoveEntry
<1>7. CASE /\ failed' = failed \cup {p}
           /\ stored' = [active |-> flight[k].active, bad |-> flight[k].bad]
           /\ flight' = [flight EXCEPT ![k].tried = @ \cup {p}]
           /\ UNCHANGED <<alive, inFlight, result>>
  <2>1. FixerOK'
    BY <1>1, <1>3, <1>7 DEF FixerOK, MoveEntry
  <2> DEFINE w == [flight[k] EXCEPT !.tried = @ \cup {p}]
  <2>2. w \in Flight /\ w.pc = "move" /\ w.stack = flight[k].stack /\ w.active = flight[k].active
    BY <1>1, <1>3 DEF Flight
  <2>3. flight' = [flight EXCEPT ![k] = w] /\ UNCHANGED caller
    BY <1>7 DEF MoveEntry
  <2> HIDE DEF w
  <2>4. FlightOK(w)
    BY <1>1, <2>2 DEF FlightOK, Repairing, HasLink
  <2>5. RunsOK'
    BY <1>1, <1>7, <2>2, <2>3, <2>4, FlightMoves
  <2> QED  BY <1>5, <2>1, <2>5, DataKept DEF LinkInv, DataOK, MoveEntry
<1> QED  BY <1>2, <1>6, <1>7

LEMMA MoveCancelledKeeps ==
    ASSUME LinkInv, NEW k \in Keys, MoveCancelled(k)
    PROVE  LinkInv'
<1>1. RunsOK /\ FixerOK /\ Released(k, "failed") /\ Returns(k, "cancelled")
  BY DEF LinkInv, DataOK, MoveCancelled
<1>2. FixerOK' /\ inFlight' = NoKey
  BY <1>1, ReleasedOK DEF FixerOK, MoveCancelled
<1>3. DataOK'
  BY <1>2, DataKept DEF LinkInv, DataOK, MoveCancelled, fixerRest
<1>4. RunsOK'
  BY <1>1, <1>2, FlightLands
<1> QED  BY <1>3, <1>4 DEF LinkInv

LEMMA AllFailedKeeps ==
    ASSUME LinkInv, NEW k \in Keys, AllFailed(k)
    PROVE  LinkInv'
<1>1. /\ RunsOK /\ FixerOK /\ Released(k, "failed") /\ Returns(k, "error")
      /\ flight[k].active \in Providers
  BY FlightsAre DEF LinkInv, DataOK, AllFailed, At, FlightOK
<1>2. FixerOK' /\ inFlight' = NoKey
  BY <1>1, ReleasedOK DEF FixerOK, AllFailed
<1>3. DataOK'
  BY <1>2, DataKept DEF LinkInv, DataOK, AllFailed, fixerRest
<1>4. RunsOK'
  BY <1>1, <1>2, FlightLands
<1> QED  BY <1>3, <1>4 DEF LinkInv

(* From outside. *)
LEMMA CancelKeeps ==
    ASSUME LinkInv, NEW k \in Keys, Cancel(k)
    PROVE  LinkInv'
<1>1. RunsOK /\ flight[k].pc # "idle" /\ UNCHANGED inFlight /\ flight[k] \in Flight /\ FlightOK(flight[k])
  BY FlightsAre DEF LinkInv, Cancel, fixerState
<1>2. DataOK'
  BY DataKept, TroubleCounts DEF LinkInv, DataOK, Cancel
<1> DEFINE w == [flight[k] EXCEPT !.ctx = FALSE]
<1>3. w \in Flight /\ w.pc = flight[k].pc /\ w.stack = flight[k].stack /\ w.active = flight[k].active
      /\ w.link = flight[k].link /\ w.acc = flight[k].acc /\ w.req = flight[k].req
  BY <1>1 DEF Flight
<1>4. flight' = [flight EXCEPT ![k] = w] /\ UNCHANGED caller
  BY DEF Cancel
<1> HIDE DEF w
<1>5. FlightOK(w)
  BY <1>1, <1>3 DEF FlightOK
<1>6. RunsOK'
  BY <1>1, <1>3, <1>4, <1>5, FlightMoves
<1> QED  BY <1>2, <1>6 DEF LinkInv

LEMMA OutsideKeeps ==
    ASSUME LinkInv,
           \/ \E a \in Accounts : Spend(a) \/ SyncDisables(a)
           \/ \E l \in Link : Expire(l) \/ RefreshLinks(l)
           \/ Clear
    PROVE  LinkInv'
<1>1. UNCHANGED <<flight, caller, inFlight>>
  BY DEF Spend, SyncDisables, Expire, RefreshLinks, Clear, fixerState
<1>2. RunsOK'
  BY <1>1, RunsKept DEF LinkInv
<1>3. DataOK'
  <2> USE DEF LinkInv, DataOK
  <2>1. ASSUME NEW a \in Accounts, Spend(a) PROVE DataOK'
    <3>1. a \in Accounts /\ spent' = spent \cup {a} /\ UNCHANGED <<dead, alive, made, links>>
      BY <2>1 DEF Spend
    <3>2. UrlsOK'
      BY <3>1 DEF UrlsOK
    <3> QED  BY <2>1, <3>2, DataKept, TroubleCounts DEF Spend
  <2>2. ASSUME NEW a \in Accounts, SyncDisables(a) PROVE DataOK'
    <3>1. a[1] \in Providers
      BY AccountParts
    <3>2. PICK i \in AccountsAt(a[1]) : i = FirstOf(a[1], ActiveWithout(a[1], a[2]))
      <4>1. ActiveWithout(a[1], a[2]) \in SUBSET AccountsAt(a[1])
        BY DEF ActiveWithout, Active
      <4> QED  BY <3>1, <4>1, FirstOfIsAccount
    <3>3. disabled' = disabled \cup {a} /\ current' = [current EXCEPT ![a[1]] = i] /\ i \in Nat
      BY <2>2, <3>2 DEF SyncDisables, AccountsAt
    <3>4. AccountsOK'
      BY <3>1, <3>3 DEF AccountsOK, AccountsAt
    <3> QED  BY <2>2, <3>4, DataKept, TroubleCounts DEF SyncDisables
  <2>3. ASSUME NEW l \in Link, Expire(l) PROVE DataOK'
    <3>1. dead' = dead \cup {l} /\ UNCHANGED <<spent, alive, made, links>>
      BY <2>3 DEF Expire
    <3>2. UrlsOK'
      BY <3>1 DEF UrlsOK
    <3> QED  BY <2>3, <3>2, DataKept, TroubleCounts DEF Expire
  <2>4. ASSUME NEW l \in Link, RefreshLinks(l) PROVE DataOK'
    <3>1. PICK a \in Accounts, k \in Keys, n \in 1 .. MaxUrls : a = l.acc /\ k = l.key /\ n = l.n
      BY LinkParts
    <3>2. links' = [links EXCEPT ![a][k] = n] /\ n <= made[a][k] /\ UNCHANGED <<spent, dead, alive, made>> /\ n \in Nat
      BY <2>4, <3>1 DEF RefreshLinks
    <3>3. links' \in [Accounts -> [Keys -> Nat]]
      BY <3>2 DEF UrlsOK
    <3>4. ASSUME NEW b \in Accounts, NEW j \in Keys
          PROVE  links'[b][j] = links[b][j] \/ (b = a /\ j = k /\ links'[b][j] = n)
      BY <3>2 DEF UrlsOK
    <3>5. UrlsOK'
      BY <3>2, <3>3, <3>4 DEF UrlsOK
    <3> QED  BY <2>4, <3>5, DataKept DEF RefreshLinks
  <2>5. ASSUME Clear PROVE DataOK'
    <3>1. ValidOK'
      BY <2>5 DEF Clear, ValidOK
    <3>2. FixerOK'
      BY <2>5 DEF Clear, FixerOK
    <3> QED  BY <2>5, <3>1, <3>2, DataKept, TroubleCounts DEF Clear
  <2> QED  BY <2>1, <2>2, <2>3, <2>4, <2>5
<1> QED  BY <1>2, <1>3 DEF LinkInv

LEMMA LinkInitOK == LinkInit => LinkInv
<1> SUFFICES ASSUME LinkInit PROVE LinkInv
  OBVIOUS
<1>1. UrlsOK
  BY LinkAssumption DEF LinkInit, UrlsOK
<1>2. AccountsOK
  BY LinkAssumption DEF LinkInit, AccountsOK, AccountsAt
<1>3. FixerOK
  <2>1. [active |-> Home, bad |-> FALSE] \in [active : Providers, bad : BOOLEAN]
    BY LinkAssumption
  <2>2. [k \in Keys |-> "-"] \in [Keys -> {"-", "fixed", "failed"}]
    OBVIOUS
  <2> QED  BY <2>1, <2>2 DEF LinkInit, FixerOK
<1>7. ValidOK /\ troubles \in 0 .. MaxTroubles
  BY LinkAssumption DEF LinkInit, ValidOK
<1>4. FlightsOK
  BY LandedOK DEF LinkInit, FlightsOK
<1>5. CallersOK
  <2>1. [pc |-> "idle", key |-> NoKey, res |-> "-", link |-> NoLink] \in Caller
    BY DEF Caller
  <2> QED  BY <2>1 DEF LinkInit, CallersOK
<1>6. InFlightMoves /\ inFlight \in Keys \cup {NoKey}
  BY DEF LinkInit, InFlightMoves
<1> QED  BY <1>1, <1>2, <1>3, <1>4, <1>5, <1>6, <1>7 DEF LinkInv, DataOK, RunsOK

LEMMA LinkStepKeeps == LinkInv /\ [LinkNext]_linkVars => LinkInv'
<1> SUFFICES ASSUME LinkInv, [LinkNext]_linkVars PROVE LinkInv'
  OBVIOUS
<1>1. CASE \E c \in Callers, k \in Keys : GetLink(c, k)
  BY <1>1, GetLinkKeeps
<1>2. ASSUME NEW k \in Keys, FlightStep(k) PROVE LinkInv'
  BY <1>2, EnterKeeps, PickAccountKeeps, AskKeeps, RefetchedKeeps, CheckKeeps, ValidateLinkKeeps, KeepKeeps,
     MarkDisabledKeeps, SwapCurrentKeeps, InvalidateKeeps, EmptyLinkKeeps, ReadCooldownKeeps, StartCooldownKeeps,
     AwaitRepairKeeps, ClaimRepairKeeps, MoveEntryKeeps, MoveCancelledKeeps, AllFailedKeeps DEF FlightStep
<1>3. ASSUME NEW k \in Keys, RefreshPlacement(k) \/ Cancel(k) PROVE LinkInv'
  BY <1>3, RefreshPlacementKeeps, CancelKeeps
<1>4. CASE UNCHANGED linkVars
  <2>1. UNCHANGED <<flight, caller, inFlight, troubles>>
        /\ UNCHANGED urlState /\ UNCHANGED accountState /\ UNCHANGED fixerState /\ UNCHANGED validated
    BY <1>4 DEF linkVars, urlState, accountState, fixerState
  <2>2. DataOK'
    BY <2>1, DataKept, TroubleCounts DEF LinkInv, DataOK
  <2> QED  BY <2>1, <2>2, RunsKept DEF LinkInv
<1> QED  BY <1>1, <1>2, <1>3, <1>4, OutsideKeeps DEF LinkNext

(* The types of LinkService's variables, the places where a caller waits and   *)
(* the bound of the re-insertions among them: while a caller waits, the flight *)
(* of its file is under way (the result of singleflight.Do reaches all who     *)
(* joined it), and a flight has called itself at most MaxReinsertionAttempt    *)
(* times (the attempt argument of fetchAndValidate and fetchLink).             *)
THEOREM LinkTypes == LinkSpec => []LinkTypeOK
<1>1. LinkInv => LinkTypeOK
  <2> SUFFICES ASSUME LinkInv PROVE LinkTypeOK
    OBVIOUS
  <2>1. ASSUME NEW k \in Keys, ~At(k, "idle") PROVE Attempt(k) \in 0 .. MaxReinsertionAttempt
    <3>1. Len(flight[k].stack) \in 1 .. MaxReinsertionAttempt + 1
      BY <2>1, FlightsAre DEF LinkInv, FlightOK, At
    <3> QED  BY <3>1, LinkAssumption DEF Attempt
  <2>2. ASSUME NEW c \in Callers, caller[c].pc = "wait" PROVE ~At(caller[c].key, "idle")
    BY <2>2 DEF LinkInv, RunsOK, CallersOK, At
  <2> QED  BY <2>1, <2>2 DEF LinkInv, RunsOK, DataOK, UrlsOK, AccountsOK, FixerOK, ValidOK, LinkTypeOK
<1> QED  BY <1>1, LinkInitOK, LinkStepKeeps, PTL DEF LinkSpec

(* FixTorrent deletes its request from inFlightRepairs on every way out of the *)
(* loop over the providers, whoever's it is by then: the request that is in    *)
(* the map is always one whose goroutine is still moving the entry.            *)
THEOREM RepairsMove == LinkSpec => []InFlightMoves
<1>1. LinkInv => InFlightMoves
  BY DEF LinkInv, RunsOK
<1> QED  BY <1>1, LinkInitOK, LinkStepKeeps, PTL DEF LinkSpec

-----------------------------------------------------------------------------
(* The downloads *)

Working  == {"process", "mount", "ready", "fetch"}
Pending  == {"queued", "transfer", "backoff"}
Transfer == [pc : {"no", "unlinked", "queued", "transfer", "backoff", "done", "failed"}, tries : 0 .. MaxAttempts - 1]
Routine  == [pc : {"idle", "split", "process", "mount", "ready", "fetch", "over"},
             season : Seasons \cup {0}, left : SUBSET Seasons]
RowState == {"no", "added", "downloading", "completed", "error"}
Rows     == [Seasons \cup {0} -> RowState]

\* JobFiles of a job that the goroutine may be at.
JobOf(p, n) == IF n = 0 THEN PackFiles[p] ELSE Group(PackFiles[p], n)

\* What a goroutine w has to do with the rows r of its pack.
PackOK(p, w, r) ==
    /\ w.pc = "idle" => w.season = 0 /\ \A n \in Seasons \cup {0} : r[n] = "no"
    /\ w.season # 0 \/ w.pc = "split" => IsSplit(p)
    /\ w.pc \in Working /\ w.season = 0 => ~IsSplit(p)
    /\ ~IsSplit(p) => \A n \in Seasons : r[n] = "no"
    /\ w.season \notin w.left /\ \A n \in w.left : r[n] # "completed"
    /\ w.pc \in Working => r[w.season] # "completed"
    /\ w.pc \in {"mount", "ready"} => pack[p].kind = "symlink"

PacksOK ==
    /\ at \in [Packs -> Routine] /\ row \in [Packs -> Rows]
    /\ \A p \in Packs : PackOK(p, at[p], row[p])

\* What a file f of a pack with goroutine w has to do with it and its disk d.
FileOK(f, w, x, d) ==
    /\ x.pc \in Pending => w.pc = "fetch" /\ f \in JobOf(PackOf(f), w.season)
    /\ x.pc = "backoff" => x.tries + 1 < MaxAttempts
    /\ x.pc # "no" => pack[PackOf(f)].kind \in {"download", "other", "native"}
    /\ x.pc = "failed" => cancelled \/ d = "no"
    /\ x.pc = "done" => deleted # {} \/ d = "whole"
    /\ w.pc = "ready" /\ f \in JobOf(PackOf(f), w.season) => deleted # {} \/ d = "link"

FilesOK ==
    /\ file \in [Files -> Transfer]
    /\ disk \in [Files -> {"no", "part", "whole", "link"}] /\ mount \in [Files -> {"no", "listed", "ready"}]
    /\ cancelled \in BOOLEAN
    /\ \A f \in Files : FileOK(f, at[PackOf(f)], file[f], disk[f])

Holders == {f \in Files : file[f].pc \in {"transfer", "backoff"}}
SlotsOK == slots \in Nat /\ IsFiniteSet(Holders) /\ slots + Cardinality(Holders) = GlobalMax

Whole(f) == disk[f] \in {"whole", "link"} \/ file[f].pc = "unlinked"
RowsOK ==
    deleted = {} =>
        \A p \in Packs, n \in Seasons \cup {0} : row[p][n] = "completed" => \A f \in Stands(p, n) : Whole(f)

\* A file has a name and a path of seasons.
NamesOK == named \in [Files -> [name : SeasonNames, path : SeasonPaths]]

FetchInv == NamesOK /\ PacksOK /\ FilesOK /\ SlotsOK /\ RowsOK

(* A file is in one pack, and in one season of it at most. *)
LEMMA PackOfIs ==
    ASSUME NEW f \in Files
    PROVE  PackOf(f) \in Packs /\ f \in PackFiles[PackOf(f)] /\ \A p \in Packs : f \in PackFiles[p] => p = PackOf(f)
<1>1. \E p \in Packs : f \in PackFiles[p]
  BY DEF Files
<1>2. PackOf(f) \in Packs /\ f \in PackFiles[PackOf(f)]
  BY <1>1 DEF PackOf
<1> QED  BY <1>2, DownloadsAssumption

LEMMA PackFilesAre ==
    ASSUME NEW p \in Packs, NEW n
    PROVE  PackFiles[p] \subseteq Files /\ JobOf(p, n) \subseteq PackFiles[p]
           /\ (n # 0 => Stands(p, n) \subseteq PackFiles[p]) /\ Stands(p, 0) \subseteq PackFiles[p]
BY DEF Files, JobOf, Stands, Group

LEMMA GroupsApart ==
    ASSUME NEW F, NEW n, NEW m, n # 0, m # 0, NEW f \in Group(F, n), f \in Group(F, m)
    PROVE  n = m
<1>1. CASE SeasonOf(f) # 0
  BY <1>1 DEF Group
<1>2. CASE SeasonOf(f) = 0
  BY <1>2 DEF Group
<1> QED  BY <1>1, <1>2

LEMMA KnownAreSeasons ==
    ASSUME NamesOK, NEW p \in Packs
    PROVE  Known(PackFiles[p]) \subseteq Seasons /\ 0 \notin Known(PackFiles[p])
<1> SUFFICES ASSUME NEW f \in PackFiles[p], SeasonOf(f) # 0 PROVE SeasonOf(f) \in Seasons
  BY DEF Known
<1>1. PICK name \in SeasonNames, path \in SeasonPaths : name = named[f].name /\ path = named[f].path
  BY PackFilesAre DEF NamesOK
<1>2. name \in Int /\ path \in Seq(Int)
  BY DownloadsAssumption
<1>3. CASE name > 0
  BY <1>1, <1>2, <1>3 DEF SeasonOf, Seasons
<1>4. CASE ~(name > 0)
  <2> DEFINE said == {i \in DOMAIN path : path[i] # -1}
  <2>1. SeasonOf(f) = FirstSaid(path)
    BY <1>1, <1>4 DEF SeasonOf
  <2>2. CASE said = {}
    BY <2>1, <2>2 DEF FirstSaid
  <2>3. CASE said # {}
    <3>1. said \in SUBSET Nat
      BY <1>2
    <3> HIDE DEF said
    <3>2. PICK i \in said : \A j \in said : i <= j
      BY <2>3, <3>1, LeastExists
    <3>3. PICK i0 \in said : i0 = CHOOSE i1 \in said : \A j \in said : i1 <= j
      BY <3>2
    <3>4. FirstSaid(path) = path[i0]
      BY <2>3, <3>3 DEF FirstSaid, said
    <3>5. path[i0] # -1 /\ i0 \in DOMAIN path
      BY <3>3 DEF said
    <3>6. path[i0] \in UNION {{q[n] : n \in DOMAIN q} : q \in SeasonPaths}
      BY <3>5
    <3> QED  BY <2>1, <3>4, <3>5, <3>6 DEF Seasons
  <2> QED  BY <2>2, <2>3
<1> QED  BY <1>3, <1>4

LEMMA SameNames ==
    ASSUME UNCHANGED <<pack, named>>
    PROVE  \A p, n : IsSplit(p)' = IsSplit(p) /\ Stands(p, n)' = Stands(p, n) /\ JobOf(p, n)' = JobOf(p, n)
<1>1. \A f : SeasonOf(f)' = SeasonOf(f)
  BY DEF SeasonOf
<1>2. \A F : Known(F)' = Known(F)
  BY <1>1 DEF Known
<1>3. \A f, K : Inferred(f, K)' = Inferred(f, K)
  BY DEF Inferred
<1>4. \A F, n : Group(F, n)' = Group(F, n)
  BY <1>1, <1>2, <1>3 DEF Group
<1>5. \A p : IsSplit(p)' = IsSplit(p)
  BY <1>2 DEF IsSplit, IsMultiSeason
<1> QED  BY <1>4, <1>5 DEF Stands, JobOf

(* No file of the job at hand is one that a completed row stands for. *)
LEMMA JobApart ==
    ASSUME NEW p \in Packs, NEW w \in Routine, NEW r \in Rows, PackOK(p, w, r), w.pc \in Working,
           NEW n \in Seasons \cup {0}, r[n] = "completed", NEW f \in Stands(p, n)
    PROVE  f \notin JobOf(p, w.season)
<1>1. w.season # n /\ w.season \in Seasons \cup {0}
  BY DEF PackOK, Routine
<1>2. CASE IsSplit(p)
  <2>1. w.season # 0 /\ n # 0
    BY <1>2 DEF PackOK, Stands
  <2>2. f \in Group(PackFiles[p], n)
    BY <2>1 DEF Stands
  <2> QED  BY <1>1, <2>1, <2>2, GroupsApart DEF JobOf
<1>3. CASE ~IsSplit(p)
  <2>1. w.season = 0 /\ n = 0
    BY <1>3 DEF PackOK
  <2> QED  BY <1>1, <2>1
<1> QED  BY <1>2, <1>3

LEMMA PackUpdate ==
    ASSUME PacksOK, NEW p \in Packs, NEW w \in Routine, NEW r \in Rows, PackOK(p, w, r),
           at' = [at EXCEPT ![p] = w], row' = [row EXCEPT ![p] = r], UNCHANGED <<pack, named>>
    PROVE  PacksOK'
<1>1. at' \in [Packs -> Routine] /\ row' \in [Packs -> Rows]
  BY DEF PacksOK
<1>2. ASSUME NEW q \in Packs PROVE PackOK(q, at'[q], row'[q])
  BY DEF PacksOK
<1>3. ASSUME NEW q \in Packs PROVE PackOK(q, at[q], row[q])'
  BY <1>2, SameNames DEF PackOK
<1> QED  BY <1>1, <1>3 DEF PacksOK

LEMMA FilesUpdate ==
    ASSUME FilesOK, PacksOK, NEW p \in Packs, NEW w \in Routine, at' = [at EXCEPT ![p] = w],
           UNCHANGED <<pack, named, cancelled, deleted>>,
           file' \in [Files -> Transfer],
           disk' \in [Files -> {"no", "part", "whole", "link"}], mount' \in [Files -> {"no", "listed", "ready"}],
           \A f \in Files : PackOf(f) # p => file'[f] = file[f] /\ disk'[f] = disk[f],
           \A f \in Files : PackOf(f) = p => FileOK(f, w, file'[f], disk'[f])
    PROVE  FilesOK'
<1>1. ASSUME NEW f \in Files PROVE FileOK(f, at'[PackOf(f)], file'[f], disk'[f])
  <2>1. CASE PackOf(f) = p
    BY <2>1 DEF PacksOK
  <2>2. CASE PackOf(f) # p
    <3>1. at'[PackOf(f)] = at[PackOf(f)]
      BY <2>2, PackOfIs DEF PacksOK
    <3> QED  BY <2>2, <3>1 DEF FilesOK
  <2> QED  BY <2>1, <2>2
<1>2. ASSUME NEW f \in Files PROVE FileOK(f, at[PackOf(f)], file[f], disk[f])'
  BY <1>1, SameNames DEF FileOK
<1> QED  BY <1>2 DEF FilesOK

LEMMA RowsUpdate ==
    ASSUME RowsOK, PacksOK, NEW p \in Packs, NEW r \in Rows, row' = [row EXCEPT ![p] = r],
           UNCHANGED <<pack, named, deleted>>,
           \A f \in Files : PackOf(f) # p /\ Whole(f) => Whole(f)',
           deleted = {} => \A n \in Seasons \cup {0} : r[n] = "completed" => \A f \in Stands(p, n) : Whole(f)'
    PROVE  RowsOK'
<1> SUFFICES ASSUME deleted = {}, NEW q \in Packs, NEW n \in Seasons \cup {0}, row'[q][n] = "completed",
                    NEW f \in Stands(q, n)
             PROVE  Whole(f)'
  BY SameNames DEF RowsOK
<1>1. CASE q = p
  BY <1>1 DEF PacksOK
<1>2. CASE q # p
  <2>1. row[q][n] = "completed"
    BY <1>2 DEF PacksOK
  <2>2. f \in Files /\ PackOf(f) = q
    <3>1. f \in PackFiles[q] /\ f \in Files
      BY PackFilesAre
    <3> QED  BY <3>1, PackOfIs
  <2> QED  BY <1>2, <2>1, <2>2 DEF RowsOK
<1> QED  BY <1>1, <1>2

LEMMA SlotsKept ==
    ASSUME SlotsOK, UNCHANGED slots, \A f \in Files : file'[f].pc \in {"transfer", "backoff"} <=> file[f].pc \in {"transfer", "backoff"}
    PROVE  SlotsOK'
<1>1. Holders' = Holders
  BY DEF Holders
<1> QED  BY <1>1 DEF SlotsOK

(* A row is written, or not. *)
LEMMA SetRowIs ==
    ASSUME PacksOK, NEW p \in Packs, NEW n \in Seasons \cup {0}, NEW s \in RowState, SetRow(p, n, s)
    PROVE  \E r \in Rows : row' = [row EXCEPT ![p] = r] /\ \A m \in Seasons \cup {0} : r[m] = row[p][m] \/ (m = n /\ r[m] = s)
<1>1. row \in [Packs -> Rows] /\ row[p] \in Rows
  BY DEF PacksOK
<1>2. CASE row' = [row EXCEPT ![p][n] = s]
  <2> DEFINE r == [row[p] EXCEPT ![n] = s]
  <2>1. r \in Rows /\ row' = [row EXCEPT ![p] = r] /\ \A m \in Seasons \cup {0} : r[m] = row[p][m] \/ (m = n /\ r[m] = s)
    BY <1>1, <1>2 DEF Rows
  <2> QED  BY <2>1
<1>3. CASE UNCHANGED row
  <2>1. row' = [row EXCEPT ![p] = row[p]]
    BY <1>1, <1>3
  <2> QED  BY <1>1, <2>1
<1> QED  BY <1>2, <1>3 DEF SetRow

LEMMA PacksAre ==
    ASSUME FetchInv, NEW p \in Packs
    PROVE  at[p] \in Routine /\ row[p] \in Rows /\ PackOK(p, at[p], row[p])
BY DEF FetchInv, PacksOK

(* A step before or after a job, which touches no file. *)
LEMMA BetweenJobs ==
    ASSUME FetchInv, NEW p \in Packs, at[p].pc \notin Working, NEW w \in Routine, w.pc # "ready",
           NEW r \in Rows, PackOK(p, w, r),
           at' = [at EXCEPT ![p] = w], row' = [row EXCEPT ![p] = r],
           \A n \in Seasons \cup {0} : r[n] = "completed" => row[p][n] = "completed" \/ Stands(p, n) = {},
           UNCHANGED <<pack, named, file, disk, mount, slots, cancelled, deleted>>
    PROVE  FetchInv'
<1>1. PacksOK'
  BY PackUpdate DEF FetchInv
<1>2. ASSUME NEW f \in Files, PackOf(f) = p PROVE FileOK(f, w, file'[f], disk'[f])
  <2>1. FileOK(f, at[p], file[f], disk[f])
    BY <1>2 DEF FetchInv, FilesOK
  <2> QED  BY <2>1 DEF FileOK, Working
<1>3. FilesOK'
  BY <1>2, FilesUpdate DEF FetchInv, FilesOK
<1>4. SlotsOK'
  BY SlotsKept DEF FetchInv
<1>5. \A f : Whole(f)' = Whole(f)
  BY DEF Whole
<1>6. RowsOK'
  <2>1. ASSUME deleted = {}, NEW n \in Seasons \cup {0}, r[n] = "completed", NEW f \in Stands(p, n)
        PROVE  Whole(f)
    BY <2>1 DEF FetchInv, RowsOK
  <2> QED  BY <1>5, <2>1, RowsUpdate DEF FetchInv
<1>7. NamesOK'
  BY DEF FetchInv, NamesOK
<1> QED  BY <1>1, <1>3, <1>4, <1>6, <1>7 DEF FetchInv

(* A step of a job, or of one of its files. *)
LEMMA JobGoesOn ==
    ASSUME FetchInv, NEW p \in Packs, at[p].pc \in Working,
           NEW w \in Routine, w.pc \in Working, w.season = at[p].season, w.left = at[p].left,
           w.pc \in {"mount", "ready"} => pack[p].kind = "symlink",
           NEW r \in Rows, \A m \in Seasons \cup {0} : r[m] = row[p][m] \/ (m = at[p].season /\ r[m] = "downloading"),
           at' = [at EXCEPT ![p] = w], row' = [row EXCEPT ![p] = r],
           UNCHANGED <<pack, named, cancelled, deleted>>,
           file' \in [Files -> Transfer],
           disk' \in [Files -> {"no", "part", "whole", "link"}], mount' \in [Files -> {"no", "listed", "ready"}],
           \A f \in Files : f \notin JobFiles(p) => file'[f] = file[f] /\ disk'[f] = disk[f],
           \A f \in JobFiles(p) : FileOK(f, w, file'[f], disk'[f]),
           SlotsOK'
    PROVE  FetchInv'
<1>1. PackOK(p, w, r)
  <2>1. PackOK(p, at[p], row[p]) /\ at[p] \in Routine
    BY PacksAre
  <2>2. 0 \notin Seasons /\ w.left \subseteq Seasons /\ w.season \in Seasons \cup {0}
    BY DEF Seasons, Routine
  <2>3. ASSUME ~IsSplit(p), NEW n \in Seasons PROVE r[n] = "no"
    BY <2>1, <2>2, <2>3 DEF PackOK
  <2>4. ASSUME NEW n \in w.left PROVE r[n] # "completed"
    BY <2>1, <2>2 DEF PackOK
  <2>5. r[w.season] # "completed"
    BY <2>1, <2>2 DEF PackOK
  <2> QED  BY <2>1, <2>3, <2>4, <2>5 DEF PackOK, Working
<1>2. PacksOK'
  BY <1>1, PackUpdate DEF FetchInv
<1>3. JobFiles(p) = JobOf(p, at[p].season)
  BY DEF JobFiles, JobOf
<1>4. JobFiles(p) \subseteq PackFiles[p] /\ PackFiles[p] \subseteq Files
  BY <1>3, PackFilesAre
<1>5. ASSUME NEW f \in Files, PackOf(f) = p PROVE FileOK(f, w, file'[f], disk'[f])
  <2>1. CASE f \in JobFiles(p)
    BY <2>1
  <2>2. CASE f \notin JobFiles(p)
    <3>1. FileOK(f, at[p], file[f], disk[f])
      BY <1>5 DEF FetchInv, FilesOK
    <3> QED  BY <1>3, <1>5, <2>2, <3>1 DEF FileOK
  <2> QED  BY <2>1, <2>2
<1>6. \A f \in Files : PackOf(f) # p => f \notin JobFiles(p)
  BY <1>4, PackOfIs
<1>7. FilesOK'
  BY ZenonT(60), <1>5, <1>6, FilesUpdate DEF FetchInv
<1>8. \A f \in Files : f \notin JobFiles(p) => Whole(f)' = Whole(f)
  BY DEF Whole
<1>9. RowsOK'
  <2>1. ASSUME deleted = {}, NEW n \in Seasons \cup {0}, r[n] = "completed", NEW f \in Stands(p, n)
        PROVE  Whole(f)'
    <3>1. row[p][n] = "completed"
      BY <2>1
    <3>2. f \notin JobFiles(p)
      BY <1>3, <3>1, JobApart, PacksAre
    <3>3. f \in Files
      BY PackFilesAre
    <3> QED  BY <1>8, <2>1, <3>1, <3>2, <3>3 DEF FetchInv, RowsOK
  <2> QED  BY <1>6, <1>8, <2>1, RowsUpdate DEF FetchInv
<1>10. NamesOK'
  BY DEF FetchInv, NamesOK
<1> QED  BY <1>2, <1>7, <1>9, <1>10 DEF FetchInv

(* A job is done. *)
LEMMA JobLeaves ==
    ASSUME FetchInv, NEW p \in Packs, at[p].pc \in Working, NEW s \in RowState,
           SetRow(p, at[p].season, s), Leave(p),
           UNCHANGED <<pack, named, file, mount, slots, cancelled, deleted>>,
           disk' \in [Files -> {"no", "part", "whole", "link"}],
           \A f \in Files : disk'[f] = disk[f] \/ (f \in JobFiles(p) /\ disk'[f] = "link" /\ file[f].pc = "no"),
           \A f \in JobFiles(p) : file[f].pc \notin Pending,
           s = "completed" /\ deleted = {} => \A f \in JobFiles(p) : Whole(f)'
    PROVE  FetchInv'
<1>1. at[p] \in Routine /\ PackOK(p, at[p], row[p]) /\ at[p].season \in Seasons \cup {0}
  BY PacksAre DEF Routine
<1>2. PICK r \in Rows : /\ row' = [row EXCEPT ![p] = r]
                        /\ \A m \in Seasons \cup {0} : r[m] = row[p][m] \/ (m = at[p].season /\ r[m] = s)
  BY <1>1, SetRowIs DEF FetchInv
<1> DEFINE pc == IF at[p].season = 0 THEN "over" ELSE "split"
           w == [at[p] EXCEPT !.pc = pc]
<1>3. w \in Routine /\ w.pc = pc /\ w.season = at[p].season /\ w.left = at[p].left
  BY <1>1 DEF Routine
<1>4. at' = [at EXCEPT ![p] = w]
  BY DEF Leave, Goto
<1>5. pc \in {"over", "split"} /\ (pc = "split" => at[p].season # 0)
  OBVIOUS
<1> HIDE DEF w, pc
<1>6. PackOK(p, w, r)
  <2>1. 0 \notin Seasons /\ w.left \subseteq Seasons
    BY <1>3 DEF Seasons, Routine
  <2>2. ASSUME ~IsSplit(p), NEW n \in Seasons PROVE r[n] = "no"
    BY <1>1, <1>2, <2>1, <2>2 DEF PackOK
  <2>3. ASSUME NEW n \in w.left PROVE r[n] # "completed"
    BY <1>1, <1>2, <1>3, <2>1 DEF PackOK
  <2> QED  BY <1>1, <1>3, <1>5, <2>2, <2>3 DEF PackOK, Working
<1>7. PacksOK'
  BY <1>2, <1>3, <1>4, <1>6, PackUpdate DEF FetchInv
<1>8. JobFiles(p) = JobOf(p, at[p].season) /\ JobFiles(p) \subseteq PackFiles[p] /\ PackFiles[p] \subseteq Files
  <2>1. JobFiles(p) = JobOf(p, at[p].season)
    BY DEF JobFiles, JobOf
  <2> QED  BY <2>1, PackFilesAre
<1>9. ASSUME NEW f \in Files, PackOf(f) = p PROVE FileOK(f, w, file'[f], disk'[f])
  <2>1. FileOK(f, at[p], file[f], disk[f])
    BY <1>9 DEF FetchInv, FilesOK
  <2>2. file[f].pc \notin Pending
    BY <1>8, <1>9, <2>1 DEF FileOK
  <2> QED  BY <1>3, <1>5, <2>1, <2>2 DEF FileOK
<1>10. \A f \in Files : PackOf(f) # p => f \notin JobFiles(p)
  BY <1>8, PackOfIs
<1>11. FilesOK'
  BY <1>3, <1>4, <1>9, <1>10, FilesUpdate DEF FetchInv, FilesOK
<1>12. \A f \in Files : Whole(f) => Whole(f)'
  BY DEF Whole
<1>13. RowsOK'
  <2>1. ASSUME deleted = {}, NEW n \in Seasons \cup {0}, r[n] = "completed", NEW f \in Stands(p, n)
        PROVE  Whole(f)'
    <3>1. CASE row[p][n] = "completed"
      <4>1. f \in Files
        BY PackFilesAre
      <4> QED  BY <1>12, <2>1, <3>1, <4>1 DEF FetchInv, RowsOK
    <3>2. CASE n = at[p].season /\ s = "completed"
      <4>1. f \in JobFiles(p)
        BY <1>8, <3>2 DEF JobOf, Stands
      <4> QED  BY <2>1, <3>2, <4>1
    <3> QED  BY <1>2, <2>1, <3>1, <3>2
  <2> QED  BY <1>2, <1>10, <1>12, <2>1, RowsUpdate DEF FetchInv
<1>14. SlotsOK'
  BY SlotsKept DEF FetchInv
<1>15. NamesOK'
  BY DEF FetchInv, NamesOK
<1> QED  BY <1>7, <1>11, <1>13, <1>14, <1>15 DEF FetchInv

(* The goroutine of a pack. *)
LEMMA DownloadKeeps ==
    ASSUME FetchInv, NEW p \in Packs, Download(p)
    PROVE  FetchInv'
<1>1. at[p] \in Routine /\ at[p].pc = "idle" /\ PackOK(p, at[p], row[p])
  BY PacksAre DEF Download, AtPc
<1>2. at[p].season = 0 /\ \A n \in Seasons \cup {0} : row[p][n] = "no"
  BY <1>1 DEF PackOK
<1>3. PICK r \in Rows : /\ row' = [row EXCEPT ![p] = r]
                        /\ \A m \in Seasons \cup {0} : r[m] = row[p][m] \/ (m = 0 /\ r[m] = "downloading")
  BY SetRowIs DEF Download, FetchInv, RowState
<1>4. 0 \notin Seasons
  BY DEF Seasons
<1>5. \A n \in Seasons \cup {0} : r[n] # "completed" /\ (n # 0 => r[n] = "no")
  BY <1>2, <1>3
<1>6. CASE IsSplit(p)
  <2> DEFINE w == [pc |-> "split", season |-> 0, left |-> Known(PackFiles[p])]
  <2>1. w \in Routine /\ 0 \notin w.left
    BY KnownAreSeasons DEF FetchInv, Routine
  <2>2. at' = [at EXCEPT ![p] = w]
    BY <1>6 DEF Download
  <2>3. w.pc = "split" /\ w.season = 0
    OBVIOUS
  <2> HIDE DEF w
  <2>4. PackOK(p, w, r)
    <3>1. \A n \in w.left : r[n] # "completed"
      BY <1>5, <2>1 DEF Routine
    <3> QED  BY <1>6, <2>1, <2>3, <3>1 DEF PackOK, Working
  <2> QED  BY <1>1, <1>3, <1>5, <2>1, <2>2, <2>3, <2>4, BetweenJobs DEF Download, Working
<1>7. CASE ~IsSplit(p)
  <2> DEFINE w == [at[p] EXCEPT !.pc = "process"]
  <2>1. w \in Routine /\ w.pc = "process" /\ w.season = 0 /\ w.left = at[p].left
    BY <1>1, <1>2 DEF Routine
  <2>2. at' = [at EXCEPT ![p] = w]
    BY <1>7 DEF Download, Goto
  <2> HIDE DEF w
  <2>3. PackOK(p, w, r)
    <3>1. \A n \in w.left : r[n] # "completed"
      BY <1>5, <2>1 DEF Routine
    <3>2. 0 \notin w.left
      BY <1>4, <2>1 DEF Routine
    <3> QED  BY <1>4, <1>5, <1>7, <2>1, <3>1, <3>2 DEF PackOK, Working
  <2> QED  BY <1>1, <1>3, <1>5, <2>1, <2>2, <2>3, BetweenJobs DEF Download, Working
<1> QED  BY <1>6, <1>7

LEMMA NextSeasonKeeps ==
    ASSUME FetchInv, NEW p \in Packs, NextSeason(p)
    PROVE  FetchInv'
<1>1. at[p] \in Routine /\ at[p].pc = "split" /\ PackOK(p, at[p], row[p]) /\ row[p] \in Rows
  BY PacksAre DEF NextSeason, AtPc
<1>2. PICK n \in at[p].left :
          \/ /\ row' = [row EXCEPT ![p][n] = "added"]
             /\ at' = [at EXCEPT ![p] = [pc |-> "process", season |-> n, left |-> at[p].left \ {n}]]
          \/ /\ UNCHANGED row
             /\ at' = [at EXCEPT ![p] = [pc |-> "split", season |-> n, left |-> at[p].left \ {n}]]
  BY DEF NextSeason
<1>3. n \in Seasons /\ n # 0 /\ IsSplit(p) /\ at[p].left \subseteq Seasons
  BY <1>1 DEF Routine, Seasons, PackOK
<1>4. CASE /\ row' = [row EXCEPT ![p][n] = "added"]
           /\ at' = [at EXCEPT ![p] = [pc |-> "process", season |-> n, left |-> at[p].left \ {n}]]
  <2> DEFINE r == [row[p] EXCEPT ![n] = "added"]
             w == [pc |-> "process", season |-> n, left |-> at[p].left \ {n}]
  <2>1. r \in Rows /\ \A m \in Seasons \cup {0} : r[m] = IF m = n THEN "added" ELSE row[p][m]
    BY <1>1, <1>3 DEF Rows, RowState
  <2>2. row' = [row EXCEPT ![p] = r] /\ at' = [at EXCEPT ![p] = w]
    BY <1>4 DEF FetchInv, PacksOK
  <2>3. w \in Routine /\ w.pc = "process" /\ w.season = n /\ w.left = at[p].left \ {n}
    BY <1>3 DEF Routine
  <2> HIDE DEF w, r
  <2>4. \A m \in w.left : r[m] # "completed"
    BY <1>1, <1>3, <2>1, <2>3 DEF PackOK
  <2>5. PackOK(p, w, r)
    BY <1>3, <2>1, <2>3, <2>4 DEF PackOK, Working
  <2> QED  BY <1>1, <2>1, <2>2, <2>3, <2>5, BetweenJobs DEF NextSeason, Working
<1>5. CASE /\ UNCHANGED row
           /\ at' = [at EXCEPT ![p] = [pc |-> "split", season |-> n, left |-> at[p].left \ {n}]]
  <2> DEFINE w == [pc |-> "split", season |-> n, left |-> at[p].left \ {n}]
  <2>1. row' = [row EXCEPT ![p] = row[p]] /\ at' = [at EXCEPT ![p] = w]
    BY <1>5 DEF FetchInv, PacksOK
  <2>2. w \in Routine /\ w.pc = "split" /\ w.season = n /\ w.left = at[p].left \ {n}
    BY <1>3 DEF Routine
  <2> HIDE DEF w
  <2>3. PackOK(p, w, row[p])
    BY <1>1, <1>3, <2>2 DEF PackOK, Working
  <2> QED  BY <1>1, <2>1, <2>2, <2>3, BetweenJobs DEF NextSeason, Working
<1> QED  BY <1>2, <1>4, <1>5

LEMMA SplitDoneKeeps ==
    ASSUME FetchInv, NEW p \in Packs, SplitDone(p)
    PROVE  FetchInv'
<1>1. at[p] \in Routine /\ at[p].pc = "split" /\ PackOK(p, at[p], row[p]) /\ IsSplit(p)
  BY PacksAre DEF SplitDone, AtPc, PackOK
<1>2. PICK r \in Rows : /\ row' = [row EXCEPT ![p] = r]
                        /\ \A m \in Seasons \cup {0} : r[m] = row[p][m] \/ (m = 0 /\ r[m] = "completed")
  BY SetRowIs DEF SplitDone, FetchInv, RowState
<1> DEFINE w == [pc |-> "over", season |-> 0, left |-> {}]
<1>3. at' = [at EXCEPT ![p] = w]
  BY DEF SplitDone
<1>4. w \in Routine /\ w.pc = "over" /\ w.season = 0 /\ w.left = {}
  BY DEF Routine
<1> HIDE DEF w
<1>5. PackOK(p, w, r)
  BY <1>1, <1>4 DEF PackOK, Working
<1>6. Stands(p, 0) = {}
  BY <1>1 DEF Stands
<1> QED  BY <1>1, <1>2, <1>3, <1>4, <1>5, <1>6, BetweenJobs DEF SplitDone, Working

LEMMA NoTransfers ==
    ASSUME FetchInv, NEW p \in Packs, at[p].pc # "fetch", NEW f \in JobFiles(p)
    PROVE  f \in Files /\ PackOf(f) = p /\ file[f].pc \notin Pending
<1>1. f \in PackFiles[p] /\ f \in Files
  BY PackFilesAre DEF JobFiles, Group
<1>2. PackOf(f) = p
  BY <1>1, PackOfIs
<1> QED  BY <1>1, <1>2 DEF FetchInv, FilesOK, FileOK

LEMMA JobEndsKeeps ==
    ASSUME FetchInv, NEW p \in Packs,
           ProcessFails(p) \/ ProcessNone(p) \/ ProcessStrm(p) \/ Ready(p) \/ WaitFails(p) \/ Join(p)
    PROVE  FetchInv'
<1>1. disk \in [Files -> {"no", "part", "whole", "link"}] /\ \A f \in JobFiles(p) : f \in Files /\ PackOf(f) = p
  <2>1. JobFiles(p) \subseteq PackFiles[p]
    BY DEF JobFiles, Group
  <2> QED  BY <2>1, PackFilesAre, PackOfIs DEF FetchInv, FilesOK
<1>2. CASE ProcessFails(p)
  BY <1>1, <1>2, NoTransfers, JobLeaves DEF ProcessFails, Fail, AtPc, Working, RowState
<1>3. CASE ProcessNone(p)
  BY <1>1, <1>3, NoTransfers, JobLeaves DEF ProcessNone, AtPc, Working, RowState
<1>4. CASE ProcessStrm(p)
  <2>1. /\ at[p].pc = "process" /\ pack[p].kind = "strm" /\ SetRow(p, at[p].season, "completed") /\ Leave(p)
        /\ disk' = [f \in Files |-> IF f \in JobFiles(p) THEN "link" ELSE disk[f]]
    BY <1>4 DEF ProcessStrm, AtPc, Complete
  <2>2. \A f \in JobFiles(p) : file[f].pc = "no"
    BY <1>1, <2>1 DEF FetchInv, FilesOK, FileOK
  <2>3. disk' \in [Files -> {"no", "part", "whole", "link"}]
    BY <1>1, <2>1
  <2>4. \A f \in JobFiles(p) : Whole(f)'
    BY <1>1, <2>1 DEF Whole
  <2> QED  BY <1>1, <1>4, <2>1, <2>2, <2>3, <2>4, JobLeaves DEF ProcessStrm, Working, RowState, Pending
<1>5. CASE Ready(p)
  <2>1. at[p].pc = "ready" /\ SetRow(p, at[p].season, "completed") /\ Leave(p) /\ UNCHANGED <<disk, file>>
    BY <1>5 DEF Ready, AtPc, Complete
  <2>2. deleted = {} => \A f \in JobFiles(p) : disk[f] = "link"
    BY <1>1, <2>1 DEF FetchInv, FilesOK, FileOK, JobFiles, JobOf
  <2>3. deleted = {} => \A f \in JobFiles(p) : Whole(f)'
    BY <2>1, <2>2 DEF Whole
  <2> QED  BY <1>1, <1>5, <2>1, <2>3, NoTransfers, JobLeaves DEF Ready, Working, RowState
<1>6. CASE WaitFails(p)
  BY <1>1, <1>6, NoTransfers, JobLeaves DEF WaitFails, Fail, Working, RowState
<1>7. CASE Join(p)
  <2>1. /\ at[p].pc = "fetch" /\ UNCHANGED <<disk, file>> /\ Leave(p)
        /\ \A f \in JobFiles(p) : file[f].pc \in {"done", "failed", "unlinked"}
    BY <1>7 DEF Join, AtPc, Fail, Complete
  <2>2. \A f \in JobFiles(p) : file[f].pc \notin Pending
    BY <2>1 DEF Pending
  <2>3. CASE \E f \in JobFiles(p) : file[f].pc = "failed"
    <3>1. SetRow(p, at[p].season, "error")
      BY <1>7, <2>3 DEF Join, Fail
    <3> QED  BY <1>1, <1>7, <2>1, <2>2, <3>1, JobLeaves DEF Join, Working, RowState
  <2>4. CASE ~ \E f \in JobFiles(p) : file[f].pc = "failed"
    <3>1. SetRow(p, at[p].season, "completed")
      BY <1>7, <2>4 DEF Join, Complete
    <3>2. deleted = {} => \A f \in JobFiles(p) : Whole(f)'
      BY <1>1, <2>1, <2>4 DEF Whole, FetchInv, FilesOK, FileOK
    <3> QED  BY <1>1, <1>7, <2>1, <2>2, <3>1, <3>2, JobLeaves DEF Join, Working, RowState
  <2> QED  BY <2>3, <2>4
<1> QED  BY <1>2, <1>3, <1>4, <1>5, <1>6, <1>7

LEMMA ProcessSymlinkKeeps ==
    ASSUME FetchInv, NEW p \in Packs, ProcessSymlink(p)
    PROVE  FetchInv'
<1>1. at[p] \in Routine /\ at[p].pc = "process" /\ row[p] \in Rows
  BY PacksAre DEF ProcessSymlink, AtPc
<1> DEFINE w == [at[p] EXCEPT !.pc = "mount"]
<1>2. w \in Routine /\ w.pc = "mount" /\ w.season = at[p].season /\ w.left = at[p].left
  BY <1>1 DEF Routine
<1>3. at' = [at EXCEPT ![p] = w] /\ row' = [row EXCEPT ![p] = row[p]]
  BY DEF ProcessSymlink, Goto, FetchInv, PacksOK
<1> HIDE DEF w
<1>4. ASSUME NEW f \in JobFiles(p) PROVE FileOK(f, w, file[f], disk[f])
  <2>1. f \in Files /\ PackOf(f) = p /\ file[f].pc \notin Pending
    BY <1>1, NoTransfers
  <2> QED  BY <1>2, <2>1 DEF FileOK, FetchInv, FilesOK
<1>5. SlotsOK'
  BY SlotsKept DEF ProcessSymlink, FetchInv
<1> QED  BY <1>1, <1>2, <1>3, <1>4, <1>5, JobGoesOn DEF ProcessSymlink, Working, FetchInv, FilesOK

LEMMA ScanKeeps ==
    ASSUME FetchInv, NEW p \in Packs, Scan(p)
    PROVE  FetchInv'
<1>1. at[p] \in Routine /\ at[p].pc = "mount" /\ row[p] \in Rows /\ pack[p].kind = "symlink"
      /\ at[p].season \in Seasons \cup {0}
  BY PacksAre DEF Scan, AtPc, PackOK, Routine
<1>2. PICK found \in SUBSET JobFiles(p) :
          /\ disk' = [f \in Files |-> IF f \in found THEN "link" ELSE disk[f]]
          /\ IF found = JobFiles(p) THEN SetRow(p, at[p].season, "downloading") /\ Goto(p, "ready")
                                    ELSE UNCHANGED <<row, at>>
  BY DEF Scan
<1>3. \A f \in JobFiles(p) : f \in Files /\ PackOf(f) = p /\ file[f].pc = "no"
  <2>1. \A f \in JobFiles(p) : f \in Files /\ PackOf(f) = p
    BY <1>1, NoTransfers
  <2> QED  BY <1>1, <2>1 DEF FetchInv, FilesOK, FileOK
<1>4. disk' \in [Files -> {"no", "part", "whole", "link"}]
  BY <1>2 DEF FetchInv, FilesOK
<1>5. SlotsOK'
  BY SlotsKept DEF Scan, FetchInv
<1>6. CASE found = JobFiles(p)
  <2> DEFINE w == [at[p] EXCEPT !.pc = "ready"]
  <2>1. w \in Routine /\ w.pc = "ready" /\ w.season = at[p].season /\ w.left = at[p].left
    BY <1>1 DEF Routine
  <2>2. at' = [at EXCEPT ![p] = w]
    BY <1>2, <1>6 DEF Goto
  <2>3. PICK r \in Rows : /\ row' = [row EXCEPT ![p] = r]
                          /\ \A m \in Seasons \cup {0} : r[m] = row[p][m] \/ (m = at[p].season /\ r[m] = "downloading")
    BY <1>1, <1>2, <1>6, SetRowIs DEF FetchInv, RowState
  <2> HIDE DEF w
  <2>4. ASSUME NEW f \in JobFiles(p) PROVE FileOK(f, w, file[f], disk'[f])
    BY <1>2, <1>3, <1>6 DEF FileOK, Pending
  <2> QED  BY <1>1, <1>2, <1>4, <1>5, <2>1, <2>2, <2>3, <2>4, JobGoesOn DEF Scan, Working, FetchInv, FilesOK
<1>7. CASE found # JobFiles(p)
  <2>1. at' = [at EXCEPT ![p] = at[p]] /\ row' = [row EXCEPT ![p] = row[p]]
    BY <1>2, <1>7 DEF FetchInv, PacksOK
  <2>2. ASSUME NEW f \in JobFiles(p) PROVE FileOK(f, at[p], file[f], disk'[f])
    BY <1>1, <1>3 DEF FileOK, Pending
  <2> QED  BY <1>1, <1>2, <1>4, <1>5, <2>1, <2>2, JobGoesOn DEF Scan, Working, FetchInv, FilesOK
<1> QED  BY <1>6, <1>7

(* The transfers of a job are started. *)
LEMMA StartedOK ==
    ASSUME FetchInv, NEW p \in Packs, at[p].pc = "process", pack[p].kind \in {"download", "other", "native"},
           NEW linked \in SUBSET JobFiles(p),
           file' = [f \in Files |-> IF f \in linked THEN [pc |-> "queued", tries |-> 0]
                                    ELSE IF f \in JobFiles(p) THEN [pc |-> "unlinked", tries |-> 0]
                                    ELSE file[f]],
           UNCHANGED slots
    PROVE  /\ file' \in [Files -> Transfer] /\ SlotsOK'
           /\ \A f \in JobFiles(p) : f \in Files /\ PackOf(f) = p
           /\ \A f \in JobFiles(p) : file'[f].pc \in {"queued", "unlinked"} /\ (f \notin linked => file'[f].pc = "unlinked")
<1>1. \A f \in JobFiles(p) : f \in Files /\ PackOf(f) = p /\ file[f].pc \notin Pending
  BY NoTransfers
<1>2. [pc |-> "queued", tries |-> 0] \in Transfer /\ [pc |-> "unlinked", tries |-> 0] \in Transfer
  BY DownloadsAssumption DEF Transfer
<1>3. file' \in [Files -> Transfer]
  BY <1>2 DEF FetchInv, FilesOK
<1>4. \A f \in JobFiles(p) : file'[f].pc \in {"queued", "unlinked"} /\ (f \notin linked => file'[f].pc = "unlinked")
  BY <1>1
<1>5. \A f \in Files : file'[f].pc \in {"transfer", "backoff"} <=> file[f].pc \in {"transfer", "backoff"}
  BY <1>1, <1>4 DEF Pending
<1>6. SlotsOK'
  BY <1>5, SlotsKept DEF FetchInv
<1> QED  BY <1>1, <1>3, <1>4, <1>6

LEMMA StartKeeps ==
    ASSUME FetchInv, NEW p \in Packs, GetLinks(p) \/ StartUsenet(p)
    PROVE  FetchInv'
<1>1. /\ at[p] \in Routine /\ at[p].pc = "process" /\ row[p] \in Rows /\ PackOK(p, at[p], row[p])
      /\ pack[p].kind \in {"download", "other", "native"} /\ at[p].season \in Seasons \cup {0}
  BY PacksAre DEF GetLinks, StartUsenet, AtPc, Routine
<1>2. PICK linked \in SUBSET JobFiles(p) :
        /\ file' = [f \in Files |-> IF f \in linked THEN [pc |-> "queued", tries |-> 0]
                                    ELSE IF f \in JobFiles(p) THEN [pc |-> "unlinked", tries |-> 0]
                                    ELSE file[f]]
        /\ \/ linked = {} /\ Fail(p)
           \/ Goto(p, "fetch") /\ (UNCHANGED row \/ SetRow(p, at[p].season, "downloading"))
  <2>1. CASE GetLinks(p)
    BY <2>1 DEF GetLinks
  <2>2. CASE StartUsenet(p)
    <3>1. file' = [f \in Files |-> IF f \in JobFiles(p) THEN [pc |-> "queued", tries |-> 0]
                                   ELSE IF f \in JobFiles(p) THEN [pc |-> "unlinked", tries |-> 0]
                                   ELSE file[f]]
      BY <2>2 DEF StartUsenet
    <3> QED  BY <2>2, <3>1 DEF StartUsenet
  <2> QED  BY <2>1, <2>2
<1>3. UNCHANGED <<pack, named, disk, mount, slots, cancelled, deleted>>
  BY DEF GetLinks, StartUsenet
<1>4. /\ file' \in [Files -> Transfer] /\ SlotsOK'
      /\ \A f \in JobFiles(p) : f \in Files /\ PackOf(f) = p
      /\ \A f \in JobFiles(p) : file'[f].pc \in {"queued", "unlinked"} /\ (f \notin linked => file'[f].pc = "unlinked")
  BY <1>1, <1>2, <1>3, StartedOK
<1>5. disk' \in [Files -> {"no", "part", "whole", "link"}] /\ mount' \in [Files -> {"no", "listed", "ready"}]
  BY <1>3 DEF FetchInv, FilesOK
<1>6. \A f \in Files : f \notin JobFiles(p) => file'[f] = file[f] /\ disk'[f] = disk[f]
  BY <1>2, <1>3
<1>7. CASE Goto(p, "fetch") /\ (UNCHANGED row \/ SetRow(p, at[p].season, "downloading"))
  <2> DEFINE w == [at[p] EXCEPT !.pc = "fetch"]
  <2>1. w \in Routine /\ w.pc = "fetch" /\ w.season = at[p].season /\ w.left = at[p].left
    BY <1>1 DEF Routine
  <2>2. at' = [at EXCEPT ![p] = w]
    BY <1>7 DEF Goto
  <2>3. PICK r \in Rows : /\ row' = [row EXCEPT ![p] = r]
                          /\ \A m \in Seasons \cup {0} : r[m] = row[p][m] \/ (m = at[p].season /\ r[m] = "downloading")
    <3>1. CASE UNCHANGED row
      <4>1. row' = [row EXCEPT ![p] = row[p]]
        BY <3>1 DEF FetchInv, PacksOK
      <4> QED  BY <1>1, <4>1
    <3>2. CASE SetRow(p, at[p].season, "downloading")
      BY <1>1, <3>2, SetRowIs DEF FetchInv, RowState
    <3> QED  BY <1>7, <3>1, <3>2
  <2> HIDE DEF w
  <2>4. ASSUME NEW f \in JobFiles(p) PROVE FileOK(f, w, file'[f], disk'[f])
    BY <1>1, <1>4, <2>1 DEF FileOK, JobFiles, JobOf
  <2> QED  BY <1>1, <1>3, <1>4, <1>5, <1>6, <2>1, <2>2, <2>3, <2>4, JobGoesOn DEF Working
<1>8. CASE linked = {} /\ Fail(p)
  <2>1. SetRow(p, at[p].season, "error") /\ Leave(p)
    BY <1>8 DEF Fail
  <2>2. PICK r \in Rows : /\ row' = [row EXCEPT ![p] = r]
                          /\ \A m \in Seasons \cup {0} : r[m] = row[p][m] \/ (m = at[p].season /\ r[m] = "error")
    BY <1>1, <2>1, SetRowIs DEF FetchInv, RowState
  <2> DEFINE pc == IF at[p].season = 0 THEN "over" ELSE "split"
             w == [at[p] EXCEPT !.pc = pc]
  <2>3. w \in Routine /\ w.pc = pc /\ w.season = at[p].season /\ w.left = at[p].left
    BY <1>1 DEF Routine
  <2>4. at' = [at EXCEPT ![p] = w]
    BY <2>1 DEF Leave, Goto
  <2>5. pc \in {"over", "split"} /\ (pc = "split" => at[p].season # 0)
    OBVIOUS
  <2> HIDE DEF w, pc
  <2>6. PackOK(p, w, r)
    <3>1. 0 \notin Seasons /\ w.left \subseteq Seasons
      BY <2>3 DEF Seasons, Routine
    <3>2. ASSUME ~IsSplit(p), NEW n \in Seasons PROVE r[n] = "no"
      BY <1>1, <2>2, <3>1, <3>2 DEF PackOK
    <3>3. ASSUME NEW n \in w.left PROVE r[n] # "completed"
      BY <1>1, <2>2, <2>3, <3>1 DEF PackOK
    <3> QED  BY <1>1, <2>3, <2>5, <3>2, <3>3 DEF PackOK, Working
  <2>7. PacksOK'
    BY <1>3, <2>2, <2>3, <2>4, <2>6, PackUpdate DEF FetchInv
  <2>8. ASSUME NEW f \in Files, PackOf(f) = p PROVE FileOK(f, w, file'[f], disk'[f])
    <3>1. CASE f \in JobFiles(p)
      BY <1>1, <1>4, <1>8, <2>3, <2>5, <2>8, <3>1 DEF FileOK, Pending
    <3>2. CASE f \notin JobFiles(p)
      <4>1. FileOK(f, at[p], file[f], disk[f])
        BY <2>8 DEF FetchInv, FilesOK
      <4>2. file'[f] = file[f] /\ disk'[f] = disk[f] /\ file[f].pc \notin Pending
        BY <1>1, <1>6, <3>2, <4>1 DEF FileOK
      <4> QED  BY <1>1, <2>3, <2>5, <4>1, <4>2 DEF FileOK
    <3> QED  BY <3>1, <3>2
  <2>9. \A f \in Files : PackOf(f) # p => file'[f] = file[f] /\ disk'[f] = disk[f]
    BY <1>4, <1>6
  <2>10. FilesOK'
    BY <1>3, <1>4, <1>5, <2>3, <2>4, <2>8, <2>9, FilesUpdate DEF FetchInv
  <2>11. \A f \in Files : Whole(f) => Whole(f)'
    BY <1>2, <1>3, <1>8 DEF Whole
  <2>12. RowsOK'
    <3>1. ASSUME deleted = {}, NEW n \in Seasons \cup {0}, r[n] = "completed", NEW f \in Stands(p, n)
          PROVE  Whole(f)'
      <4>1. row[p][n] = "completed" /\ f \in Files
        BY <2>2, <3>1, PackFilesAre
      <4> QED  BY <2>11, <3>1, <4>1 DEF FetchInv, RowsOK
    <3> QED  BY <1>3, <2>2, <2>11, <3>1, RowsUpdate DEF FetchInv
  <2>13. NamesOK'
    BY <1>3 DEF FetchInv, NamesOK
  <2> QED  BY <1>4, <2>7, <2>10, <2>12, <2>13 DEF FetchInv
<1> QED  BY <1>2, <1>7, <1>8

(* The transfer of a file. *)
LEMMA TransferMoves ==
    ASSUME FetchInv, NEW f \in Files, file[f].pc \in Pending, NEW x \in Transfer, NEW d \in {"no", "part", "whole", "link"},
           FileOK(f, at[PackOf(f)], x, d),
           file' = [file EXCEPT ![f] = x], disk' = [disk EXCEPT ![f] = d],
           UNCHANGED <<pack, named, at, row, mount, cancelled, deleted>>, SlotsOK'
    PROVE  FetchInv'
<1>1. PICK p \in Packs : p = PackOf(f)
  BY PackOfIs
<1>2. /\ FileOK(f, at[p], file[f], disk[f]) /\ at[p] \in Routine /\ row[p] \in Rows
      /\ PackOK(p, at[p], row[p])
  BY <1>1, PacksAre DEF FetchInv, FilesOK
<1>3. at[p].pc = "fetch" /\ f \in JobFiles(p)
  BY <1>1, <1>2 DEF FileOK, JobFiles, JobOf
<1>4. at' = [at EXCEPT ![p] = at[p]] /\ row' = [row EXCEPT ![p] = row[p]]
  BY DEF FetchInv, PacksOK
<1>5. /\ file' \in [Files -> Transfer] /\ disk' \in [Files -> {"no", "part", "whole", "link"}]
      /\ mount' \in [Files -> {"no", "listed", "ready"}]
      /\ \A g \in Files : g # f => file'[g] = file[g] /\ disk'[g] = disk[g]
      /\ file'[f] = x /\ disk'[f] = d
  BY DEF FetchInv, FilesOK
<1>6. \A g \in JobFiles(p) : g \in Files /\ PackOf(g) = p
  <2>1. JobFiles(p) \subseteq PackFiles[p]
    BY DEF JobFiles, Group
  <2> QED  BY <2>1, PackFilesAre, PackOfIs
<1>7. ASSUME NEW g \in JobFiles(p) PROVE FileOK(g, at[p], file'[g], disk'[g])
  <2>1. CASE g = f
    BY <1>1, <1>5, <2>1
  <2>2. CASE g # f
    BY <1>5, <1>6, <2>2 DEF FetchInv, FilesOK
  <2> QED  BY <2>1, <2>2
<1>8. \A g \in Files : g \notin JobFiles(p) => file'[g] = file[g] /\ disk'[g] = disk[g]
  BY <1>3, <1>5
<1>9. at[p].pc \in Working /\ (at[p].pc \in {"mount", "ready"} => pack[p].kind = "symlink")
  BY <1>3 DEF Working
<1> QED  BY ZenonT(60), <1>2, <1>4, <1>5, <1>7, <1>8, <1>9, JobGoesOn

LEMMA FileIs ==
    ASSUME FetchInv, NEW f \in Files
    PROVE  /\ file[f] \in Transfer /\ file[f].tries \in 0 .. MaxAttempts - 1 /\ disk[f] \in {"no", "part", "whole", "link"}
           /\ FileOK(f, at[PackOf(f)], file[f], disk[f])
BY DEF FetchInv, FilesOK, Transfer

LEMMA SlotTaken ==
    ASSUME SlotsOK, file \in [Files -> Transfer], NEW f \in Files, file[f].pc \notin {"transfer", "backoff"}, slots > 0,
           NEW x \in Transfer, x.pc \in {"transfer", "backoff"}, file' = [file EXCEPT ![f] = x], slots' = slots - 1
    PROVE  SlotsOK'
<1>1. Holders' = Holders \cup {f} /\ f \notin Holders
  BY DEF Holders
<1>2. IsFiniteSet(Holders') /\ Cardinality(Holders') = Cardinality(Holders) + 1
  BY <1>1, FS_AddElement DEF SlotsOK
<1> QED  BY <1>2, FS_CardinalityType DEF SlotsOK

LEMMA SlotReturned ==
    ASSUME SlotsOK, file \in [Files -> Transfer], NEW f \in Files, file[f].pc \in {"transfer", "backoff"},
           NEW x \in Transfer, x.pc \notin {"transfer", "backoff"}, file' = [file EXCEPT ![f] = x], slots' = slots + 1
    PROVE  SlotsOK'
<1>1. Holders' = Holders \ {f} /\ f \in Holders
  BY DEF Holders
<1>2. IsFiniteSet(Holders') /\ Cardinality(Holders') = Cardinality(Holders) - 1
  BY <1>1, FS_RemoveElement DEF SlotsOK
<1> QED  BY <1>2, FS_CardinalityType DEF SlotsOK

LEMMA TakeSlotKeeps ==
    ASSUME FetchInv, NEW f \in Files, TakeSlot(f)
    PROVE  FetchInv'
<1> DEFINE x == [file[f] EXCEPT !.pc = "transfer"]
           d == IF pack[PackOf(f)].kind = "native" THEN "part" ELSE disk[f]
<1>1. x \in Transfer /\ x.pc = "transfer" /\ x.tries = file[f].tries /\ file[f].pc = "queued"
  BY FileIs DEF Transfer, TakeSlot
<1>2. d \in {"no", "part", "whole", "link"}
  BY FileIs
<1>3. file' = [file EXCEPT ![f] = x] /\ disk' = [disk EXCEPT ![f] = d]
  BY DEF TakeSlot
<1> HIDE DEF x, d
<1>4. FileOK(f, at[PackOf(f)], x, d)
  BY <1>1, FileIs DEF FileOK, Pending
<1>5. SlotsOK'
  BY <1>1, <1>3, SlotTaken DEF TakeSlot, FetchInv, FilesOK
<1>6. UNCHANGED <<pack, named, at, row, mount, cancelled, deleted>> /\ file[f].pc \in Pending
  BY <1>1 DEF TakeSlot, Pending
<1> QED  BY <1>1, <1>2, <1>3, <1>4, <1>5, <1>6, TransferMoves

LEMMA TransferStepKeeps ==
    ASSUME FetchInv, NEW f \in Files, TransferStep(f)
    PROVE  FetchInv'
<1>0. SlotsOK /\ file \in [Files -> Transfer] /\ disk \in [Files -> {"no", "part", "whole", "link"}]
  BY DEF FetchInv, FilesOK
<1>1. CASE SlotGivenUp(f)
  <2> DEFINE x == [file[f] EXCEPT !.pc = "failed"]
  <2>1. x \in Transfer /\ x.pc = "failed" /\ file[f].pc = "queued" /\ cancelled
    BY <1>1, FileIs DEF Transfer, SlotGivenUp
  <2>2. file' = [file EXCEPT ![f] = x] /\ disk' = [disk EXCEPT ![f] = disk[f]] /\ disk[f] \in {"no", "part", "whole", "link"}
    BY <1>0, <1>1 DEF SlotGivenUp
  <2> HIDE DEF x
  <2>3. FileOK(f, at[PackOf(f)], x, disk[f])
    BY <2>1, FileIs DEF FileOK, Pending
  <2>4. SlotsOK'
    <3>1. \A g \in Files : file'[g].pc \in {"transfer", "backoff"} <=> file[g].pc \in {"transfer", "backoff"}
      BY <1>0, <2>1, <2>2
    <3> QED  BY <1>0, <1>1, <3>1, SlotsKept DEF SlotGivenUp
  <2> QED  BY ZenonT(60), <1>1, <2>1, <2>2, <2>3, <2>4, TransferMoves DEF SlotGivenUp, Pending
<1>2. CASE Downloaded(f)
  <2> DEFINE x == [file[f] EXCEPT !.pc = "done"]
  <2>1. x \in Transfer /\ x.pc = "done" /\ file[f].pc = "transfer"
    BY <1>2, FileIs DEF Transfer, Downloaded
  <2>2. file' = [file EXCEPT ![f] = x] /\ disk' = [disk EXCEPT ![f] = "whole"] /\ slots' = slots + 1
    BY <1>2 DEF Downloaded, EndTransfer
  <2> HIDE DEF x
  <2>3. FileOK(f, at[PackOf(f)], x, "whole")
    BY <2>1, FileIs DEF FileOK, Pending
  <2>4. SlotsOK'
    BY <1>0, <2>1, <2>2, SlotReturned
  <2> QED  BY <1>2, <2>1, <2>2, <2>3, <2>4, TransferMoves DEF Downloaded, Pending
<1>3. CASE AttemptFails(f)
  <2> DEFINE x == [file[f] EXCEPT !.pc = "backoff"]
  <2>1. x \in Transfer /\ x.pc = "backoff" /\ file[f].pc = "transfer" /\ x.tries = file[f].tries /\ x.tries \in Nat
    BY <1>3, FileIs DEF Transfer, AttemptFails
  <2>2. file' = [file EXCEPT ![f] = x] /\ disk' = [disk EXCEPT ![f] = "part"] /\ UNCHANGED slots
    BY <1>3 DEF AttemptFails
  <2>3. x.tries + 1 < MaxAttempts
    BY <1>3, <2>1, DownloadsAssumption DEF AttemptFails, LastAttempt
  <2> HIDE DEF x
  <2>4. FileOK(f, at[PackOf(f)], x, "part")
    BY <2>1, <2>3, FileIs DEF FileOK, Pending
  <2>5. SlotsOK'
    <3>1. \A g \in Files : file'[g].pc \in {"transfer", "backoff"} <=> file[g].pc \in {"transfer", "backoff"}
      BY <1>0, <2>1, <2>2
    <3> QED  BY <1>0, <2>2, <3>1, SlotsKept
  <2> QED  BY <1>3, <2>1, <2>2, <2>4, <2>5, TransferMoves DEF AttemptFails, Pending
<1>4. CASE TransferFails(f)
  <2> DEFINE x == [file[f] EXCEPT !.pc = "failed"]
  <2>1. x \in Transfer /\ x.pc = "failed" /\ file[f].pc = "transfer"
    BY <1>4, FileIs DEF Transfer, TransferFails
  <2>2. file' = [file EXCEPT ![f] = x] /\ disk' = [disk EXCEPT ![f] = "no"] /\ slots' = slots + 1
    BY <1>4 DEF TransferFails, EndTransfer
  <2> HIDE DEF x
  <2>3. FileOK(f, at[PackOf(f)], x, "no")
    BY <2>1, FileIs DEF FileOK, Pending
  <2>4. SlotsOK'
    BY <1>0, <2>1, <2>2, SlotReturned
  <2> QED  BY <1>4, <2>1, <2>2, <2>3, <2>4, TransferMoves DEF TransferFails, Pending
<1>5. CASE Reattempt(f)
  <2> DEFINE x == [pc |-> "transfer", tries |-> file[f].tries + 1]
  <2>1. file[f].pc = "backoff" /\ file[f].tries + 1 < MaxAttempts /\ file[f].tries \in Nat
    BY <1>5, FileIs DEF Reattempt, FileOK
  <2>2. x \in Transfer /\ x.pc = "transfer"
    BY <2>1, DownloadsAssumption DEF Transfer
  <2>3. file' = [file EXCEPT ![f] = x] /\ disk' = [disk EXCEPT ![f] = disk[f]] /\ UNCHANGED slots
        /\ disk[f] \in {"no", "part", "whole", "link"}
    BY <1>0, <1>5 DEF Reattempt
  <2> HIDE DEF x
  <2>4. FileOK(f, at[PackOf(f)], x, disk[f])
    BY <2>1, <2>2, FileIs DEF FileOK, Pending
  <2>5. SlotsOK'
    <3>1. \A g \in Files : file'[g].pc \in {"transfer", "backoff"} <=> file[g].pc \in {"transfer", "backoff"}
      BY <1>0, <2>1, <2>2, <2>3
    <3> QED  BY <1>0, <2>3, <3>1, SlotsKept
  <2> QED  BY ZenonT(60), <1>5, <2>1, <2>2, <2>3, <2>4, <2>5, TransferMoves DEF Reattempt, Pending
<1>6. CASE BackoffGivenUp(f)
  <2> DEFINE x == [file[f] EXCEPT !.pc = "failed"]
  <2>1. x \in Transfer /\ x.pc = "failed" /\ file[f].pc = "backoff" /\ cancelled
    BY <1>6, FileIs DEF Transfer, BackoffGivenUp
  <2>2. file' = [file EXCEPT ![f] = x] /\ disk' = [disk EXCEPT ![f] = disk[f]] /\ slots' = slots + 1
        /\ disk[f] \in {"no", "part", "whole", "link"}
    BY <1>0, <1>6 DEF BackoffGivenUp, EndTransfer
  <2> HIDE DEF x
  <2>3. FileOK(f, at[PackOf(f)], x, disk[f])
    BY <2>1, FileIs DEF FileOK, Pending
  <2>4. SlotsOK'
    BY <1>0, <2>1, <2>2, SlotReturned
  <2> QED  BY <1>6, <2>1, <2>2, <2>3, <2>4, TransferMoves DEF BackoffGivenUp, Pending
<1> QED  BY <1>1, <1>2, <1>3, <1>4, <1>5, <1>6 DEF TransferStep

(* Around the downloader. *)
LEMMA AppearsKeeps ==
    ASSUME FetchInv, NEW f \in Files, Appears(f)
    PROVE  FetchInv'
<1>1. UNCHANGED <<pack, named, at, row, file, disk, slots, cancelled, deleted>>
  BY DEF Appears
<1>2. mount' \in [Files -> {"no", "listed", "ready"}]
  BY DEF Appears, FetchInv, FilesOK
<1>3. FilesOK'
  <2>1. \A g \in Files : FileOK(g, at[PackOf(g)], file[g], disk[g])'
    BY <1>1, SameNames DEF FetchInv, FilesOK, FileOK
  <2> QED  BY <1>1, <1>2, <2>1 DEF FetchInv, FilesOK
<1>4. PacksOK'
  BY <1>1, SameNames DEF FetchInv, PacksOK, PackOK
<1>5. RowsOK'
  BY <1>1, SameNames DEF FetchInv, RowsOK, Whole
<1>6. SlotsOK' /\ NamesOK'
  BY <1>1, SlotsKept DEF FetchInv, NamesOK
<1> QED  BY <1>3, <1>4, <1>5, <1>6 DEF FetchInv

LEMMA ShutdownKeeps ==
    ASSUME FetchInv, Shutdown
    PROVE  FetchInv'
<1>1. UNCHANGED <<pack, named, at, row, file, disk, mount, slots, deleted>> /\ cancelled' = TRUE
  BY DEF Shutdown
<1>2. FilesOK'
  <2>1. \A g \in Files : FileOK(g, at[PackOf(g)], file[g], disk[g])'
    BY <1>1, SameNames DEF FetchInv, FilesOK, FileOK
  <2> QED  BY <1>1, <2>1 DEF FetchInv, FilesOK
<1>3. PacksOK'
  BY <1>1, SameNames DEF FetchInv, PacksOK, PackOK
<1>4. RowsOK'
  BY <1>1, SameNames DEF FetchInv, RowsOK, Whole
<1>5. SlotsOK' /\ NamesOK'
  BY <1>1, SlotsKept DEF FetchInv, NamesOK
<1> QED  BY <1>2, <1>3, <1>4, <1>5 DEF FetchInv

LEMMA DeleteRowKeeps ==
    ASSUME FetchInv, NEW p \in Packs, DeleteRow(p)
    PROVE  FetchInv'
<1>1. at[p] \in Routine /\ row[p] \in Rows /\ PackOK(p, at[p], row[p])
  BY PacksAre
<1>2. PICK n \in Seasons \cup {0} :
          /\ row' = [row EXCEPT ![p][n] = "no"]
          /\ deleted' = deleted \cup {<<p, n>>}
          /\ disk' = [f \in Files |-> IF f \in (IF n = 0 THEN PackFiles[p] ELSE Group(PackFiles[p], n))
                                      THEN "no" ELSE disk[f]]
  BY <1>1 DEF DeleteRow, Rows
<1>3. UNCHANGED <<pack, named, at, file, mount, slots, cancelled>>
  BY DEF DeleteRow
<1>4. PacksOK'
  <2> DEFINE r == [row[p] EXCEPT ![n] = "no"]
  <2>1. r \in Rows /\ \A m \in Seasons \cup {0} : r[m] = IF m = n THEN "no" ELSE row[p][m]
    BY <1>1 DEF Rows, RowState
  <2>2. row' = [row EXCEPT ![p] = r] /\ at' = [at EXCEPT ![p] = at[p]]
    BY <1>2, <1>3 DEF FetchInv, PacksOK
  <2> HIDE DEF r
  <2>3. PackOK(p, at[p], r)
    <3>1. at[p].left \subseteq Seasons /\ at[p].season \in Seasons \cup {0}
      BY <1>1 DEF Routine
    <3>2. \A m \in at[p].left : r[m] # "completed"
      BY <1>1, <2>1, <3>1 DEF PackOK
    <3>3. at[p].pc \in Working => r[at[p].season] # "completed"
      BY <1>1, <2>1, <3>1 DEF PackOK
    <3> QED  BY <1>1, <2>1, <3>2, <3>3 DEF PackOK
  <2> QED  BY <1>1, <1>3, <2>1, <2>2, <2>3, PackUpdate DEF FetchInv
<1>5. deleted' # {}
  BY <1>2
<1>6. FilesOK'
  <2>1. disk' \in [Files -> {"no", "part", "whole", "link"}] /\ \A f \in Files : disk'[f] = disk[f] \/ disk'[f] = "no"
    BY <1>2 DEF FetchInv, FilesOK
  <2>2. \A f \in Files : FileOK(f, at[PackOf(f)], file[f], disk[f])'
    BY <1>3, <1>5, <2>1, SameNames DEF FetchInv, FilesOK, FileOK
  <2> QED  BY <1>3, <2>1, <2>2 DEF FetchInv, FilesOK
<1>7. RowsOK'
  BY <1>5 DEF RowsOK
<1>8. SlotsOK' /\ NamesOK'
  BY <1>3, SlotsKept DEF FetchInv, NamesOK
<1> QED  BY <1>4, <1>6, <1>7, <1>8 DEF FetchInv

LEMMA FetchInitOK == FetchInit => FetchInv
<1> SUFFICES ASSUME FetchInit PROVE FetchInv
  OBVIOUS
<1>1. 0 \notin Seasons
  BY DEF Seasons
<1>2. PacksOK
  <2>1. [pc |-> "idle", season |-> 0, left |-> {}] \in Routine
    BY DEF Routine
  <2>2. [n \in Seasons \cup {0} |-> "no"] \in Rows
    BY DEF Rows, RowState
  <2>3. ASSUME NEW p \in Packs PROVE PackOK(p, at[p], row[p])
    BY DEF FetchInit, PackOK, Working
  <2> QED  BY <2>1, <2>2, <2>3 DEF FetchInit, PacksOK
<1>3. FilesOK
  <2>1. [pc |-> "no", tries |-> 0] \in Transfer
    BY DownloadsAssumption DEF Transfer
  <2>2. \A f \in Files : at[PackOf(f)].pc = "idle" /\ file[f].pc = "no"
    BY PackOfIs DEF FetchInit
  <2>3. \A f \in Files : FileOK(f, at[PackOf(f)], file[f], disk[f])
    BY <2>2 DEF FileOK, Pending
  <2> QED  BY <2>1, <2>3 DEF FetchInit, FilesOK
<1>4. SlotsOK
  <2>1. Holders = {}
    BY DEF FetchInit, Holders
  <2> QED  BY <2>1, FS_EmptySet, DownloadsAssumption DEF FetchInit, SlotsOK
<1>5. RowsOK
  BY DEF FetchInit, RowsOK
<1>6. NamesOK
  BY DEF FetchInit, NamesOK
<1> QED  BY <1>2, <1>3, <1>4, <1>5, <1>6 DEF FetchInv

LEMMA FetchStepKeeps == FetchInv /\ [FetchNext]_fetchVars => FetchInv'
<1> SUFFICES ASSUME FetchInv, [FetchNext]_fetchVars PROVE FetchInv'
  OBVIOUS
<1>1. ASSUME NEW p \in Packs, PackStep(p) PROVE FetchInv'
  BY <1>1, DownloadKeeps, NextSeasonKeeps, SplitDoneKeeps, JobEndsKeeps, ProcessSymlinkKeeps, ScanKeeps, StartKeeps DEF PackStep
<1>2. ASSUME NEW f \in Files, TakeSlot(f) \/ TransferStep(f) PROVE FetchInv'
  BY <1>2, TakeSlotKeeps, TransferStepKeeps
<1>3. CASE UNCHANGED fetchVars
  <2>1. UNCHANGED <<pack, named, at, row, file, disk, mount, slots, cancelled, deleted>>
    BY <1>3 DEF fetchVars
  <2>2. FilesOK'
    <3>1. \A g \in Files : FileOK(g, at[PackOf(g)], file[g], disk[g])'
      BY <2>1, SameNames DEF FetchInv, FilesOK, FileOK
    <3> QED  BY <2>1, <3>1 DEF FetchInv, FilesOK
  <2>3. PacksOK'
    BY <2>1, SameNames DEF FetchInv, PacksOK, PackOK
  <2>4. RowsOK'
    BY <2>1, SameNames DEF FetchInv, RowsOK, Whole
  <2>5. SlotsOK' /\ NamesOK'
    BY <2>1, SlotsKept DEF FetchInv, NamesOK
  <2> QED  BY <2>2, <2>3, <2>4, <2>5 DEF FetchInv
<1> QED  BY <1>1, <1>2, <1>3, AppearsKeeps, ShutdownKeeps, DeleteRowKeeps DEF FetchNext, FetchStep

(* The types of Downloads' variables, with the bound of the attempts of a      *)
(* transfer (maxDownloadAttempts) and the slots: the transfers under way and   *)
(* those that wait for their next attempt have exactly the slots that are      *)
(* missing from globalDownloadSem, which is never over- or underfull.          *)
THEOREM FetchTypes == FetchSpec => []FetchTypeOK
<1>1. FetchInv => FetchTypeOK
  <2> SUFFICES ASSUME FetchInv PROVE FetchTypeOK
    OBVIOUS
  <2>1. slots \in 0 .. GlobalMax
    BY FS_CardinalityType, DownloadsAssumption DEF FetchInv, SlotsOK
  <2>2. \A p \in Packs : at[p] \in Routine
    BY PacksAre
  <2> QED  BY <2>1, <2>2 DEF FetchInv, PacksOK, FilesOK, FetchTypeOK, Routine, Rows, RowState, Transfer
<1> QED  BY <1>1, FetchInitOK, FetchStepKeeps, PTL DEF FetchSpec

(* A row that processTorrentDownload, processUsenetDownload, the scans for     *)
(* symlinks or the split into seasons wrote as completed has all the files it  *)
(* stands for in the download folder, but those that got no link, and a        *)
(* transfer that failed by itself left no part of its file: for any packs,     *)
(* seasons, slots and attempts.                                                *)
THEOREM CompletedHasFiles == FetchSpec => []CompletedIsThere
<1>1. FetchInv => CompletedIsThere
  <2> SUFFICES ASSUME FetchInv PROVE CompletedIsThere
    OBVIOUS
  <2>1. ASSUME NEW p \in Packs, NEW n \in DOMAIN row[p], row[p][n] = "completed", deleted = {}, NEW f \in Stands(p, n)
        PROVE  disk[f] \in {"whole", "link"} \/ file[f].pc = "unlinked"
    BY <2>1, PacksAre DEF FetchInv, RowsOK, Whole, Rows
  <2>2. ASSUME NEW f \in Files, file[f].pc = "failed", ~cancelled PROVE disk[f] = "no"
    BY <2>2, FileIs DEF FileOK
  <2> QED  BY <2>1, <2>2 DEF CompletedIsThere
<1> QED  BY <1>1, FetchInitOK, FetchStepKeeps, PTL DEF FetchSpec

-----------------------------------------------------------------------------
(* The listings of the mounts *)

Meta == [provider : Debrid \cup {"usenet"}, bad : BOOLEAN]

\* What a directory may list.
Listable(g) == IF g \in Folders THEN FileNames ELSE Folders

ListingsOK(l) == \A g \in Shown : l[g] = NoListing \/ l[g] \subseteq Listable(g)

TreeInv ==
    /\ meta \in [Ids -> Meta \cup {NoMeta}]
    /\ owner \in [Places -> Ids \cup {NoOwner}]
    /\ \A x \in Places : owner[x] = NoOwner \/ FolderOf[owner[x]] = x[1]
    /\ removed \subseteq {x \in Places : owner[x] # NoOwner}
    /\ DOMAIN cache = Shown /\ ListingsOK(cache)
    /\ DOMAIN filling = Shown /\ ListingsOK(filling)
    /\ writes \in 0 .. MaxWrites

\* A listing holds names of its own kind.
LEMMA ListingIsListable == TreeInv => \A g \in Shown : Listing(g) \subseteq Listable(g)
<1> SUFFICES ASSUME TreeInv, NEW g \in Shown PROVE Listing(g) \subseteq Listable(g)
  OBVIOUS
<1>1. \A S \in SUBSET Ids : Named(S) \subseteq Folders
  BY TreeAssumption DEF Named
<1>2. CASE g \in Folders
  BY <1>2 DEF Listing, TorrentChildren, ItemFiles, Listable
<1>3. CASE g \notin Folders
  <2>1. Stored \subseteq Ids
    BY DEF Stored
  <2>2. EntryChildren(g) \subseteq Folders
    BY <1>1, <2>1 DEF EntryChildren
  <2> QED  BY <1>3, <2>2 DEF Listing, Listable
<1> QED  BY <1>2, <1>3

LEMMA TreeInitOK == TreeInit => TreeInv
<1> SUFFICES ASSUME TreeInit PROVE TreeInv
  OBVIOUS
<1>1. owner \in [Places -> Ids \cup {NoOwner}] /\ \A x \in Places : owner[x] = NoOwner
  BY DEF TreeInit
<1>2. ListingsOK(cache) /\ ListingsOK(filling)
  BY DEF TreeInit, ListingsOK
<1> QED  BY <1>1, <1>2, TreeAssumption DEF TreeInit, TreeInv

\* The files of a deleted entry have no owner any more, the others keep theirs.
LEMMA DeletesKeeps ==
    ASSUME TreeInv, NEW h, Deletes(h)
    PROVE  /\ meta' \in [Ids -> Meta \cup {NoMeta}]
           /\ owner' \in [Places -> Ids \cup {NoOwner}]
           /\ \A x \in Places : owner'[x] = NoOwner \/ FolderOf[owner'[x]] = x[1]
BY DEF TreeInv, Deletes

LEMMA TreeStepKeeps == TreeInv /\ [TreeNext]_treeVars => TreeInv'
<1> SUFFICES ASSUME TreeInv, [TreeNext]_treeVars PROVE TreeInv'
  OBVIOUS
<1>1. ASSUME NEW g \in Shown, RefreshEntry(g) PROVE TreeInv'
  <2>1. ListingsOK(filling)'
    BY <1>1, ListingIsListable DEF RefreshEntry, TreeInv, ListingsOK
  <2> QED  BY <1>1, <2>1 DEF RefreshEntry, TreeInv, ListingsOK
<1>2. ASSUME NEW g \in Shown, StoreListing(g) PROVE TreeInv'
  <2>1. ListingsOK(filling)' /\ ListingsOK(cache)'
    BY <1>2 DEF StoreListing, TreeInv, ListingsOK
  <2> QED  BY <1>2, <2>1 DEF StoreListing, TreeInv
<1>3. CASE RefreshEntries \/ ScheduledRefresh
  <2>1. ListingsOK(cache)' /\ DOMAIN cache' = Shown
    BY <1>3 DEF RefreshEntries, ScheduledRefresh, Refreshed, TreeInv, ListingsOK
  <2> QED  BY <1>3, <2>1 DEF RefreshEntries, ScheduledRefresh, TreeInv, ListingsOK
<1>4. ASSUME NEW h \in Ids, AddOrUpdate(h) PROVE TreeInv'
  <2>1. PICK p \in Debrid \cup {"usenet"}, bad \in BOOLEAN : meta' = [meta EXCEPT ![h] = [provider |-> p, bad |-> bad]]
    BY <1>4 DEF AddOrUpdate
  <2>2. meta' \in [Ids -> Meta \cup {NoMeta}]
    BY <2>1 DEF TreeInv, Meta
  <2> DEFINE f == FolderOf[h]
             X(takes) == {<<f, n>> : n \in {m \in FileNames : owner[<<f, m>>] = NoOwner \/ takes}}
  <2>3. PICK takes \in BOOLEAN : /\ owner' = [x \in Places |-> IF x \in X(takes) THEN h ELSE owner[x]]
                                 /\ removed' = removed \ X(takes)
    BY <1>4 DEF AddOrUpdate
  <2>4. ASSUME NEW x \in X(takes) PROVE x[1] = f
    <3>1. PICK n \in {m \in FileNames : owner[<<f, m>>] = NoOwner \/ takes} : x = <<f, n>>
      OBVIOUS
    <3> QED  BY <3>1
  <2> HIDE DEF X
  <2>5. owner' \in [Places -> Ids \cup {NoOwner}]
    BY <2>3 DEF TreeInv
  <2>6. \A x \in Places : owner'[x] = NoOwner \/ FolderOf[owner'[x]] = x[1]
    BY <2>3, <2>4 DEF TreeInv
  <2>7. removed' \subseteq {x \in Places : owner'[x] # NoOwner}
    BY <2>3 DEF TreeInv
  <2>8. writes' \in 0 .. MaxWrites /\ UNCHANGED <<cache, filling>>
    BY <1>4, TreeAssumption DEF AddOrUpdate, Write, TreeInv
  <2> QED  BY <2>2, <2>5, <2>6, <2>7, <2>8 DEF TreeInv, ListingsOK
<1>5. ASSUME NEW h \in Ids, DeleteEntry(h) PROVE TreeInv'
  <2>1. removed' \subseteq {x \in Places : owner'[x] # NoOwner}
    BY <1>5 DEF DeleteEntry, TreeInv
  <2>2. writes' \in 0 .. MaxWrites /\ UNCHANGED <<cache, filling>>
    BY <1>5, TreeAssumption DEF DeleteEntry, Write, TreeInv
  <2>3. Deletes(h)
    BY <1>5 DEF DeleteEntry
  <2> QED  BY <2>1, <2>2, <2>3, DeletesKeeps DEF TreeInv, ListingsOK
<1>6. ASSUME NEW f \in Folders, NEW n \in FileNames, RemoveTorrentFile(f, n) PROVE TreeInv'
  <2>1. removed' \subseteq {x \in Places : owner'[x] # NoOwner}
    <3>1. <<f, n>> \in Places
      BY DEF Places
    <3> QED  BY <1>6, <3>1 DEF RemoveTorrentFile, TreeInv
  <2>2. writes' \in 0 .. MaxWrites /\ UNCHANGED <<cache, filling>>
    BY <1>6, TreeAssumption DEF RemoveTorrentFile, Write, TreeInv
  <2>3. Deletes(owner[<<f, n>>]) \/ UNCHANGED <<meta, owner>>
    BY <1>6 DEF RemoveTorrentFile
  <2>4. CASE Deletes(owner[<<f, n>>])
    BY <2>1, <2>2, <2>4, DeletesKeeps DEF TreeInv, ListingsOK
  <2>5. CASE UNCHANGED <<meta, owner>>
    BY <2>1, <2>2, <2>5 DEF TreeInv, ListingsOK
  <2> QED  BY <2>3, <2>4, <2>5
<1>7. CASE UNCHANGED treeVars
  BY <1>7 DEF treeVars, TreeInv, ListingsOK
<1> QED  BY <1>1, <1>2, <1>3, <1>4, <1>5, <1>6, <1>7 DEF TreeNext

(* Types of the store, the items and the listings: the files of an item    *)
(* are of entries of that folder, and a listing has names of its own kind. *)
THEOREM TreeTypes == TreeSpec => []TreeTypeOK
<1>1. TreeInv => TreeTypeOK
  BY DEF TreeInv, TreeTypeOK, Meta, ListingsOK, Listable
<1> QED  BY <1>1, TreeInitOK, TreeStepKeeps, PTL DEF TreeSpec

-----------------------------------------------------------------------------
(* That listings catch up.                                                 *)

StoreSame   == UNCHANGED <<meta, owner>>
Refreshable == Shown \ Debrid

\* A listing that waits to be stored is what the directory holds.
Fresh(g) == filling[g] \in {NoListing, Listing(g)}

LEMMA ListingSame == StoreSame => \A g : Listing(g)' = Listing(g)
BY DEF StoreSame, Listing, TorrentChildren, ItemFiles, EntryChildren, Named, Stored, MatchesFilter, HoldsFor

LEMMA FreshStays ==
    ASSUME NEW g \in Shown, TreeInv, [TreeNext]_treeVars, StoreSame, Fresh(g)
    PROVE  Fresh(g)'
<1>1. Listing(g)' = Listing(g)
  BY ListingSame
<1>2. CASE filling' = filling
  BY <1>1, <1>2 DEF Fresh
<1>3. ASSUME NEW h \in Shown, RefreshEntry(h) PROVE Fresh(g)'
  BY <1>1, <1>3 DEF Fresh, RefreshEntry, TreeInv
<1>4. ASSUME NEW h \in Shown, StoreListing(h) PROVE Fresh(g)'
  BY <1>1, <1>4 DEF Fresh, StoreListing, TreeInv
<1>5. filling' = filling \/ \E h \in Shown : RefreshEntry(h) \/ StoreListing(h)
  BY DEF TreeNext, treeVars, RefreshEntries, ScheduledRefresh, AddOrUpdate, DeleteEntry, RemoveTorrentFile
<1> QED  BY <1>2, <1>3, <1>4, <1>5

LEMMA UpToDateStays ==
    ASSUME NEW g \in Shown, TreeInv, [TreeNext]_treeVars, StoreSame, Fresh(g), UpToDate(g)
    PROVE  UpToDate(g)'
<1>1. Listing(g)' = Listing(g)
  BY ListingSame
<1>2. CASE cache' = cache
  BY <1>1, <1>2 DEF UpToDate
<1>3. CASE RefreshEntries \/ ScheduledRefresh
  BY <1>1, <1>3 DEF UpToDate, RefreshEntries, ScheduledRefresh, Refreshed
<1>4. ASSUME NEW h \in Shown, StoreListing(h) PROVE UpToDate(g)'
  BY <1>1, <1>4 DEF UpToDate, Fresh, StoreListing, TreeInv
<1>5. \/ cache' = cache \/ RefreshEntries \/ ScheduledRefresh
      \/ \E h \in Shown : StoreListing(h)
  BY DEF TreeNext, treeVars, RefreshEntry, AddOrUpdate, DeleteEntry, RemoveTorrentFile
<1> QED  BY <1>2, <1>3, <1>4, <1>5

LEMMA StoredIsFresh ==
    ASSUME NEW g \in Shown, TreeInv, StoreListing(g)
    PROVE  Fresh(g)'
BY DEF StoreListing, Fresh, TreeInv

LEMMA RefreshCatchesUp ==
    ASSUME NEW g \in Refreshable, TreeInv, ScheduledRefresh
    PROVE  UpToDate(g)'
<1>1. g \in Dropped
  BY TreeAssumption DEF Refreshable, Dropped, Groups
<1> QED  BY <1>1 DEF ScheduledRefresh, Refreshed, UpToDate, Refreshable

LEMMA RefreshedIsUpToDate ==
    ASSUME NEW g \in Refreshable, cache = Refreshed
    PROVE  UpToDate(g)
<1>1. g \in Dropped
  BY TreeAssumption DEF Refreshable, Dropped, Groups
<1> QED  BY <1>1 DEF Refreshed, UpToDate, Refreshable

\* TreeFairness with the enabling conditions written out, for the provers do not
\* know ENABLED: StoreListing(g) can be taken when a listing waits to be stored,
\* ScheduledRefresh does something when there is a listing to drop.
StoresListing(g) == []<>(filling[g] = NoListing) \/ []<><<StoreListing(g)>>_treeVars
RunsRefresh      == []<>(cache = Refreshed) \/ []<><<ScheduledRefresh>>_treeVars

\* What is computed from now on is fresh; after what was under way is stored,
\* one refresh is enough.
LEMMA CatchesUp ==
    ASSUME NEW g \in Refreshable
    PROVE  TreeSpec /\ StoresListing(g) /\ RunsRefresh /\ <>[][StoreSame]_treeVars => <>[]UpToDate(g)
<1> DEFINE Quiet == TreeInv /\ [TreeNext]_treeVars /\ [StoreSame]_treeVars
<1>a. g \in Shown
  BY DEF Refreshable
<1>b. [StoreSame]_treeVars => StoreSame
  BY DEF StoreSame, treeVars
<1>1. Quiet /\ Fresh(g) => Fresh(g)'
  BY <1>a, <1>b, FreshStays
<1>2. Quiet /\ Fresh(g) /\ UpToDate(g) => UpToDate(g)'
  BY <1>a, <1>b, UpToDateStays
<1>3. TreeInv /\ <<StoreListing(g)>>_treeVars => Fresh(g)'
  BY <1>a, StoredIsFresh
<1>4. filling[g] = NoListing => Fresh(g)
  BY DEF Fresh
<1>5. TreeInv /\ <<ScheduledRefresh>>_treeVars => UpToDate(g)'
  BY RefreshCatchesUp
<1>6. cache = Refreshed => UpToDate(g)
  BY RefreshedIsUpToDate
<1> QED
  BY <1>1, <1>2, <1>3, <1>4, <1>5, <1>6, TreeInitOK, TreeStepKeeps, PTL
     DEF TreeSpec, StoresListing, RunsRefresh

(* Once the store changes no more, what a directory lists is what the store *)
(* says, but for the folders of the debrids: a stale listing that was being *)
(* computed is stored and then dropped by the next scheduled refresh, and   *)
(* the one computed after that is right.                                    *)
THEOREM ListingsDoCatchUp ==
    (TreeSpec /\ (\A g \in Shown : StoresListing(g)) /\ RunsRefresh /\ <>[][StoreSame]_treeVars)
    => ListingsCatchUp
<1>1. ASSUME NEW g \in Shown \ Debrid
      PROVE  TreeSpec /\ (\A h \in Shown : StoresListing(h)) /\ RunsRefresh /\ <>[][StoreSame]_treeVars
             => <>[]UpToDate(g)
  <2>1. TreeSpec /\ StoresListing(g) /\ RunsRefresh /\ <>[][StoreSame]_treeVars => <>[]UpToDate(g)
    BY CatchesUp DEF Refreshable
  <2>2. (\A h \in Shown : StoresListing(h)) => StoresListing(g)
    OBVIOUS
  <2> QED  BY <2>1, <2>2
<1> QED  BY <1>1 DEF ListingsCatchUp

-----------------------------------------------------------------------------
(* The parts side by side *)

\* While a part does not run its variables keep their values.
LEMMA PartsStep ==
    ServicesNext => [LinkNext]_linkVars /\ [TreeNext]_treeVars /\ [FetchNext]_fetchVars
BY DEF ServicesNext, InLink, InTree, InFetch

\* The types of the link service, the listings and the downloads together.
THEOREM ServicesTypes == ServicesSpec => []ServicesTypeOK
<1>1. ServicesSpec => LinkSpec /\ TreeSpec /\ FetchSpec
  <2>1. ServicesInit => LinkInit /\ TreeInit /\ FetchInit
    BY DEF ServicesInit
  <2>2. [ServicesNext]_servicesVars => [LinkNext]_linkVars /\ [TreeNext]_treeVars /\ [FetchNext]_fetchVars
    BY PartsStep DEF servicesVars
  <2> QED  BY <2>1, <2>2, PTL DEF ServicesSpec, LinkSpec, TreeSpec, FetchSpec
<1>2. LinkTypeOK /\ TreeTypeOK /\ FetchTypeOK => ServicesTypeOK
  BY DEF ServicesTypeOK
<1> QED  BY <1>1, <1>2, LinkTypes, TreeTypes, FetchTypes, PTL
===============================================================================
