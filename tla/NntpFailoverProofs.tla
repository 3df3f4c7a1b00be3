--------------------------- MODULE NntpFailoverProofs ---------------------------
(***************************************************************************)
(* The callers of ExecuteWithFailover and the workers of BatchStat use the *)
(* pool by its own operations, so what NntpPoolProofs proves of the pool   *)
(* holds of the client.                                                    *)
(***************************************************************************)
EXTENDS NntpFailover, NntpPoolProofs

USE FailoverAssumption

Errs == {"none", "ok", "nf", "conn", "stop", "panic"}
CallRec == [pc : Pcs, done : BOOLEAN, round : Nat, tries : Nat, i : Nat, why : {"first", "retry"},
            orig : Provs \cup {Nil}, cur : Hands \cup {Nil}, skip : SUBSET (Provs \cup {Nil}), gone : SUBSET (Provs \cup {Nil}),
            from : Provs \cup {Nil}, err : Errs]
RaceRec == [gor : [Provs -> {"off", "wait", "work", "sent", "quit"}], ch : Seq([p : Provs, ok : BOOLEAN]), win : Provs \cup {Nil},
            failed : BOOLEAN, cancel : BOOLEAN, drain : BOOLEAN]

(* What a call's operation runs on is one of its hands. *)
HasCur(c) == c.pc \in {"run", "prefer"} => c.cur \in Hands

CallTypes == /\ call \in [Callers -> CallRec]
             /\ race \in [Callers -> RaceRec]
             /\ \A a \in Callers : HasCur(call[a])

LEMMA TheHands ==
    ASSUME NEW a \in Callers
    PROVE  Main(a) \in Hands /\ Pref(a) \in Hands /\ \A p \in Provs : <<a, p>> \in Hands
BY DEF Main, Pref

LEMMA NoCallType == NoCall \in CallRec /\ HasCur(NoCall)
<1>1. NoCall \in CallRec
  BY DEF NoCall, CallRec, Pcs, Errs
<1>2. HasCur(NoCall)
  BY DEF NoCall, HasCur
<1> QED  BY <1>1, <1>2

LEMMA NextRoundType ==
    ASSUME NEW c \in CallRec
    PROVE  NextRound(c) \in CallRec /\ HasCur(NextRound(c))
<1>1. NoCall \in CallRec /\ HasCur(NoCall)
  BY NoCallType
<1> DEFINE d == [c EXCEPT !.pc = "scan", !.i = 1, !.why = "first", !.orig = Nil, !.tries = 0,
                         !.err = "none", !.from = Nil]
<1>3. d \in CallRec
  BY ZenonT(60) DEF CallRec, Pcs, Errs
<1>4. d.pc = "scan"
  BY DEF CallRec
<1>5. HasCur(d)
  BY <1>4 DEF HasCur
<1> QED  BY <1>1, <1>3, <1>5 DEF NextRound

LEMMA GotType ==
    ASSUME NEW c \in CallRec, NEW h \in Hands, TypeOK
    PROVE  Got(h, c) \in CallRec /\ HasCur(Got(h, c))
<1>1. prov[h] \in Provs \cup {Nil}
  BY DEF TypeOK
<1>2. LET d == [c EXCEPT !.pc = "run", !.i = 0, !.cur = h, !.orig = prov[h]]
      IN  d \in CallRec /\ d.cur = h
  BY ZenonT(60), <1>1 DEF CallRec, Pcs
<1>3. ASSUME NEW pc \in {"run", "prefer"}
      PROVE  LET d == [c EXCEPT !.pc = pc, !.i = 0, !.cur = h] IN d \in CallRec /\ d.cur = h
  BY ZenonT(60) DEF CallRec, Pcs
<1> QED  BY ZenonT(60), <1>2, <1>3 DEF Got, HasCur

LEMMA GotNoneType ==
    ASSUME NEW c \in CallRec, NEW e \in Errs
    PROVE  GotNone(c, e) \in CallRec /\ HasCur(GotNone(c, e))
<1>1. [c EXCEPT !.round = @ + 1] \in CallRec
  BY SMTT(30) DEF CallRec
<1>2. LET d == [c EXCEPT !.pc = "back", !.err = e, !.cur = Nil] IN d \in CallRec /\ HasCur(d)
  BY ZenonT(60) DEF CallRec, Pcs, HasCur, Errs
<1> QED  BY <1>1, <1>2, NextRoundType DEF GotNone

(* One call changes its own record only. *)
LEMMA OneCall ==
    ASSUME CallTypes, NEW a \in Callers, NEW c \in CallRec, HasCur(c), call' = [call EXCEPT ![a] = c]
    PROVE  call' \in [Callers -> CallRec] /\ \A b \in Callers : HasCur(call'[b])
BY DEF CallTypes

(* What a step of a call makes of its record. *)
LEMMA CallStep ==
    ASSUME CallTypes, TypeOK, NEW a \in Callers, CallNext(a)
    PROVE  \E c \in CallRec : HasCur(c) /\ call' = [call EXCEPT ![a] = c]
<1> DEFINE Goal == \E c \in CallRec : HasCur(c) /\ call' = [call EXCEPT ![a] = c]
<1>0. /\ call \in [Callers -> CallRec] /\ call[a] \in CallRec /\ HasCur(call[a])
      /\ race[a].win \in Provs \cup {Nil}
  BY DEF CallTypes, RaceRec
<1>a. call[a].i + 1 \in Nat /\ call[a].tries + 1 \in Nat /\ call[a].round + 1 \in Nat
  BY <1>0 DEF CallRec
<1>b. \A p \in Provs \cup {Nil} : SameBackbone(p) \in SUBSET (Provs \cup {Nil})
  BY DEF SameBackbone
<1>1. CASE ScanTake(a)
  <2> DEFINE c == [call[a] EXCEPT !.pc = "work"]
  <2>1. c \in CallRec /\ c.pc = "work"
    BY <1>0, <1>a DEF CallRec, Pcs, Errs
  <2>2. call' = [call EXCEPT ![a] = c]
    BY <1>1 DEF ScanTake
  <2> QED  BY <2>1, <2>2 DEF HasCur
<1>2. CASE ScanSkip(a)
  <2> DEFINE c == [call[a] EXCEPT !.i = call[a].i + 1]
  <2>1. c \in CallRec /\ HasCur(c)
    BY ZenonT(60), <1>0, <1>a DEF CallRec, Pcs, Errs, HasCur
  <2>2. call' = [call EXCEPT ![a] = c]
    BY <1>2 DEF ScanSkip
  <2> QED  BY <2>1, <2>2 DEF HasCur
<1>3. CASE WorkFails(a)
  <2> DEFINE c == [call[a] EXCEPT !.pc = "scan", !.i = call[a].i + 1]
  <2>1. c \in CallRec /\ c.pc = "scan"
    BY <1>0, <1>a DEF CallRec, Pcs, Errs
  <2>2. call' = [call EXCEPT ![a] = c]
    BY <1>3 DEF WorkFails
  <2> QED  BY <2>1, <2>2 DEF HasCur
<1>4. CASE RaceStart(a)
  <2> DEFINE c == [call[a] EXCEPT !.pc = "race", !.i = 0]
  <2>1. c \in CallRec /\ c.pc = "race"
    BY <1>0, <1>a DEF CallRec, Pcs, Errs
  <2>2. call' = [call EXCEPT ![a] = c]
    BY <1>4 DEF RaceStart
  <2> QED  BY <2>1, <2>2 DEF HasCur
<1>5. CASE RunOk(a)
  <2> DEFINE c == [call[a] EXCEPT !.pc = "back", !.err = "ok"]
  <2>1. c \in CallRec /\ c.pc = "back"
    BY <1>0, <1>a DEF CallRec, Pcs, Errs
  <2>2. call' = [call EXCEPT ![a] = c]
    BY <1>5 DEF RunOk
  <2> QED  BY <2>1, <2>2 DEF HasCur
<1>6. CASE RunNotFound(a)
  <2> DEFINE c == [call[a] EXCEPT !.pc = "back", !.err = "nf", !.from = prov[call[a].cur]]
  <2>0. prov[call[a].cur] \in Provs \cup {Nil}
    BY <1>0, <1>6 DEF RunNotFound, Attempt, At, HasCur, TypeOK
  <2>1. c \in CallRec /\ c.pc = "back"
    BY <1>0, <1>a, <2>0 DEF CallRec, Pcs, Errs
  <2>2. call' = [call EXCEPT ![a] = c]
    BY <1>6 DEF RunNotFound
  <2> QED  BY <2>1, <2>2 DEF HasCur
<1>7. CASE RunRefused(a) \/ RunDecode(a)
  <2> DEFINE c == [call[a] EXCEPT !.pc = "back", !.err = "stop"]
  <2>1. c \in CallRec /\ c.pc = "back"
    BY <1>0, <1>a DEF CallRec, Pcs, Errs
  <2>2. call' = [call EXCEPT ![a] = c]
    BY <1>7 DEF RunRefused, RunDecode
  <2> QED  BY <2>1, <2>2 DEF HasCur
<1>8. CASE RunConnError(a)
  <2> DEFINE c == [call[a] EXCEPT !.pc = "scan", !.i = 1, !.why = "retry", !.tries = call[a].tries + 1,
                              !.cur = Nil, !.err = "conn"]
  <2>1. c \in CallRec /\ c.pc = "scan"
    BY ZenonT(60), <1>0, <1>a DEF CallRec, Pcs, Errs
  <2>2. call' = [call EXCEPT ![a] = c]
    BY <1>8 DEF RunConnError
  <2> QED  BY <2>1, <2>2 DEF HasCur
<1>9. CASE RunPanics(a)
  <2> DEFINE c == [call[a] EXCEPT !.pc = "back", !.cur = Nil, !.err = "panic"]
  <2>1. c \in CallRec /\ c.pc = "back"
    BY ZenonT(60), <1>0, <1>a DEF CallRec, Pcs, Errs
  <2>2. call' = [call EXCEPT ![a] = c]
    BY <1>9 DEF RunPanics
  <2> QED  BY <2>1, <2>2 DEF HasCur
<1>10. CASE PreferGivesUp(a) \/ PreferFails(a)
  <2> DEFINE c == [call[a] EXCEPT !.pc = "run"]
  <2>0. call[a].cur \in Hands
    BY <1>0, <1>10 DEF PreferGivesUp, PreferFails, At, HasCur
  <2>1. c \in CallRec /\ c.pc = "run" /\ c.cur \in Hands
    BY <1>0, <1>a, <2>0 DEF CallRec, Pcs, Errs
  <2>2. call' = [call EXCEPT ![a] = c]
    BY <1>10 DEF PreferGivesUp, PreferFails
  <2> QED  BY <2>1, <2>2 DEF HasCur
<1>11. CASE PreferGot(a)
  <2> DEFINE c == [call[a] EXCEPT !.pc = "run", !.cur = Pref(a)]
  <2>1. c \in CallRec /\ c.pc = "run" /\ c.cur \in Hands
    BY <1>0, <1>a, TheHands DEF CallRec, Pcs, Errs
  <2>2. call' = [call EXCEPT ![a] = c]
    BY <1>11 DEF PreferGot
  <2> QED  BY <2>1, <2>2 DEF HasCur
<1>12. CASE GoBack(a)
  <2> DEFINE c == [call[a] EXCEPT !.pc = "decide", !.cur = Nil]
  <2>1. c \in CallRec /\ c.pc = "decide"
    BY <1>0, <1>a DEF CallRec, Pcs, Errs
  <2>2. call' = [call EXCEPT ![a] = c]
    BY <1>12 DEF GoBack
  <2> QED  BY <2>1, <2>2 DEF HasCur
<1>13. CASE RunStops(a)
  <2>1. [call[a] EXCEPT !.pc = "back"] \in CallRec /\ [call[a] EXCEPT !.pc = "back"].pc = "back"
    BY <1>0 DEF CallRec, Pcs
  <2>2. /\ [call[a] EXCEPT !.pc = "back", !.err = "stop"] \in CallRec
        /\ [call[a] EXCEPT !.pc = "back", !.err = "stop"].pc = "back"
    BY <1>0 DEF CallRec, Pcs, Errs
  <2>3. \/ call' = [call EXCEPT ![a] = [call[a] EXCEPT !.pc = "back"]]
        \/ call' = [call EXCEPT ![a] = [call[a] EXCEPT !.pc = "back", !.err = "stop"]]
    BY <1>13 DEF RunStops
  <2> QED  BY <2>1, <2>2, <2>3 DEF HasCur
<1>14. CASE PreferTake(a) \/ RaceReceives(a)
  <2>1. call' = [call EXCEPT ![a] = call[a]]
    BY <1>0, <1>14 DEF PreferTake, RaceReceives
  <2> QED  BY <1>0, <2>1
<1>15. CASE WorkGot(a)
  <2>1. Got(Main(a), call[a]) \in CallRec /\ HasCur(Got(Main(a), call[a]))
    BY <1>0, TheHands, GotType
  <2>2. call' = [call EXCEPT ![a] = Got(Main(a), call[a])]
    BY <1>15 DEF WorkGot
  <2> QED  BY <2>1, <2>2
<1>16. CASE RaceEnds(a)
  <2>1. CASE race[a].win # Nil
    <3> DEFINE c == Got(<<a, race[a].win>>, call[a])
    <3>1. c \in CallRec /\ HasCur(c)
      BY <1>0, <2>1, TheHands, GotType
    <3>2. call' = [call EXCEPT ![a] = c]
      BY <1>16, <2>1 DEF RaceEnds
    <3> HIDE DEF c
    <3> QED  BY <3>1, <3>2
  <2>2. CASE race[a].win = Nil
    <3>1. PICK e \in Errs : call' = [call EXCEPT ![a] = GotNone(call[a], e)]
      BY <1>16, <2>2 DEF RaceEnds, Errs
    <3>2. GotNone(call[a], e) \in CallRec /\ HasCur(GotNone(call[a], e))
      BY <1>0, GotNoneType
    <3> QED  BY <3>1, <3>2
  <2> QED  BY <2>1, <2>2
<1>17. CASE RaceAbandons(a)
  <2>1. GotNone(call[a], "stop") \in CallRec /\ HasCur(GotNone(call[a], "stop"))
    BY <1>0, GotNoneType DEF Errs
  <2>2. call' = [call EXCEPT ![a] = GotNone(call[a], "stop")]
    BY <1>17 DEF RaceAbandons
  <2> QED  BY <2>1, <2>2
<1>18. CASE Returns(a)
  <2>1. NoCall \in CallRec /\ HasCur(NoCall)
    BY NoCallType
  <2>2. call' = [call EXCEPT ![a] = NoCall]
    BY <1>18 DEF Returns
  <2> QED  BY <2>1, <2>2
<1>19. CASE Excludes(a)
  <2>1. CASE call[a].err = "nf"
    <3> DEFINE b == [call[a] EXCEPT !.round = @ + 1]
    <3> DEFINE c == [b EXCEPT !.gone = @ \cup SameBackbone(b.orig)]
    <3>0. b \in CallRec /\ b.err = call[a].err /\ b.orig = call[a].orig /\ b.gone = call[a].gone
      BY <1>0, <1>a DEF CallRec
    <3>1. call[a].gone \cup SameBackbone(call[a].orig) \in SUBSET (Provs \cup {Nil})
      BY <1>0, <1>b DEF CallRec
    <3>2. c \in CallRec
      BY <3>0, <3>1 DEF CallRec
    <3>3. call' = [call EXCEPT ![a] = NextRound(c)]
      BY <1>19, <2>1, <3>0 DEF Excludes
    <3> HIDE DEF c
    <3> QED  BY <3>2, <3>3, NextRoundType
  <2>2. CASE call[a].err # "nf"
    <3> DEFINE b == [call[a] EXCEPT !.round = @ + 1]
    <3> DEFINE c == [b EXCEPT !.skip = @ \cup {b.orig}]
    <3>0. b \in CallRec /\ b.err = call[a].err /\ b.orig = call[a].orig /\ b.skip = call[a].skip
      BY <1>0, <1>a DEF CallRec
    <3>1. call[a].skip \cup {call[a].orig} \in SUBSET (Provs \cup {Nil})
      BY <1>0 DEF CallRec
    <3>2. c \in CallRec
      BY <3>0, <3>1 DEF CallRec
    <3>3. call' = [call EXCEPT ![a] = NextRound(c)]
      BY <1>19, <2>2, <3>0 DEF Excludes
    <3> HIDE DEF c
    <3> QED  BY <3>2, <3>3, NextRoundType
  <2> QED  BY <2>1, <2>2
<1> QED  BY <1>1, <1>2, <1>3, <1>4, <1>5, <1>6, <1>7, <1>8, <1>9, <1>10, <1>11, <1>12, <1>13, <1>14, <1>15, <1>16, <1>17, <1>18, <1>19 DEF CallNext
(* What a step makes of a race. *)
Reports == [p : Provs, ok : BOOLEAN]
RaceMoves(a) == \/ RaceStart(a) \/ RaceReceives(a) \/ RaceEnds(a) \/ RaceAbandons(a)
                \/ Drain(a) \/ DrainEnds(a) \/ \E p \in Provs : RacerNext(a, p)

LEMMA NoRaceType == NoRace \in RaceRec
<1>1. <<>> \in Seq([p : Provs, ok : BOOLEAN])
  OBVIOUS
<1>2. [p \in Provs |-> "off"] \in [Provs -> {"off", "wait", "work", "sent", "quit"}]
  OBVIOUS
<1> QED  BY <1>1, <1>2 DEF NoRace, RaceRec

LEMMA RaceField ==
    ASSUME NEW r \in RaceRec, NEW g \in [Provs -> {"off", "wait", "work", "sent", "quit"}],
           NEW s \in Seq(Reports), NEW w \in Provs \cup {Nil}
    PROVE  /\ [r EXCEPT !.gor = g] \in RaceRec
           /\ [r EXCEPT !.gor = g, !.ch = s] \in RaceRec
           /\ [r EXCEPT !.ch = s, !.gor = g] \in RaceRec
           /\ [r EXCEPT !.ch = s] \in RaceRec
           /\ [r EXCEPT !.ch = s, !.win = w, !.cancel = TRUE] \in RaceRec
           /\ [r EXCEPT !.ch = s, !.failed = TRUE] \in RaceRec
           /\ [r EXCEPT !.cancel = TRUE, !.drain = TRUE] \in RaceRec
BY DEF RaceRec, Reports

LEMMA RaceStep ==
    ASSUME CallTypes, NEW a \in Callers, RaceMoves(a)
    PROVE  \E r \in RaceRec : race' = [race EXCEPT ![a] = r]
<1> DEFINE Goal == \E r \in RaceRec : race' = [race EXCEPT ![a] = r]
<1> DEFINE R == race[a]
<1>0. race \in [Callers -> RaceRec] /\ R \in RaceRec
  BY DEF CallTypes
<1>1. R.gor \in [Provs -> {"off", "wait", "work", "sent", "quit"}] /\ R.ch \in Seq(Reports)
  BY <1>0 DEF RaceRec, Reports
<1>2. ASSUME NEW p \in Provs, NEW x \in {"off", "wait", "work", "sent", "quit"}
      PROVE  [R.gor EXCEPT ![p] = x] \in [Provs -> {"off", "wait", "work", "sent", "quit"}]
  BY <1>1
<1>3. ASSUME NEW p \in Provs PROVE Append(R.ch, [p |-> p, ok |-> TRUE]) \in Seq(Reports)
                                   /\ Append(R.ch, [p |-> p, ok |-> FALSE]) \in Seq(Reports)
  <2>1. [p |-> p, ok |-> TRUE] \in Reports /\ [p |-> p, ok |-> FALSE] \in Reports
    BY DEF Reports
  <2> QED  BY <1>1, <2>1
<1>4. R.ch # <<>> => Head(R.ch) \in Reports /\ Tail(R.ch) \in Seq(Reports)
  BY <1>1
<1>5. R.ch # <<>> => Head(R.ch).p \in Provs
  BY <1>4 DEF Reports
<1>6. CASE RaceStart(a)
  <2>1. PICK g \in [Provs -> {"off", "wait", "work", "sent", "quit"}] : race' = [race EXCEPT ![a].gor = g]
    BY <1>6 DEF RaceStart
  <2>2. race' = [race EXCEPT ![a] = [R EXCEPT !.gor = g]]
    BY <2>1
  <2> QED  BY <1>0, <1>1, <2>2, RaceField
<1>7. CASE RaceReceives(a)
  <2>0. R.ch # <<>>
    BY <1>7 DEF RaceReceives
  <2>1. \/ race' = [race EXCEPT ![a] = [R EXCEPT !.ch = Tail(R.ch), !.win = Head(R.ch).p, !.cancel = TRUE]]
        \/ race' = [race EXCEPT ![a] = [R EXCEPT !.ch = Tail(R.ch)]]
        \/ race' = [race EXCEPT ![a] = [R EXCEPT !.ch = Tail(R.ch), !.failed = TRUE]]
    BY <1>7 DEF RaceReceives
  <2> HIDE DEF R
  <2> QED  BY <1>0, <1>1, <1>4, <1>5, <2>0, <2>1, RaceField
<1>8. CASE RaceEnds(a) \/ DrainEnds(a)
  BY <1>8, NoRaceType DEF RaceEnds, DrainEnds
<1>9. CASE RaceAbandons(a)
  <2>1. race' = [race EXCEPT ![a] = [R EXCEPT !.cancel = TRUE, !.drain = TRUE]]
    BY <1>9 DEF RaceAbandons
  <2> HIDE DEF R
  <2> QED  BY <1>0, <1>1, <2>1, RaceField
<1>10. CASE Drain(a)
  <2>0. R.ch # <<>>
    BY <1>10 DEF Drain
  <2>1. race' = [race EXCEPT ![a] = [R EXCEPT !.gor = [R.gor EXCEPT ![Head(R.ch).p] = "quit"], !.ch = Tail(R.ch)]]
    <3> DEFINE p == Head(R.ch).p
    <3>1. race' = [race EXCEPT ![a].gor[p] = "quit", ![a].ch = Tail(@)]
      BY <1>10 DEF Drain
    <3>2. p \in Provs /\ race[a] \in RaceRec /\ race[a].gor \in [Provs -> {"off", "wait", "work", "sent", "quit"}]
      BY <1>0, <1>1, <1>5, <2>0
    <3> HIDE DEF p
    <3>3. race' = [race EXCEPT ![a] = [race[a] EXCEPT !.gor = [race[a].gor EXCEPT ![p] = "quit"], !.ch = Tail(race[a].ch)]]
      BY <3>1, <3>2 DEF RaceRec
    <3> QED  BY <3>3 DEF p
  <2>2. [R.gor EXCEPT ![Head(R.ch).p] = "quit"] \in [Provs -> {"off", "wait", "work", "sent", "quit"}]
    BY <1>2, <1>5, <2>0
  <2> HIDE DEF R
  <2> QED  BY <1>0, <1>4, <2>0, <2>1, <2>2, RaceField
<1>11. ASSUME NEW p \in Provs, RacerNext(a, p) PROVE Goal
  <2>1. CASE RacerTakes(a, p) \/ RacerQuits(a, p) \/ RacerPutsBack(a, p)
    <3>1. PICK x \in {"work", "quit"} : race' = [race EXCEPT ![a] = [R EXCEPT !.gor = [R.gor EXCEPT ![p] = x]]]
      BY <2>1 DEF RacerTakes, RacerQuits, RacerPutsBack
    <3>2. [R.gor EXCEPT ![p] = x] \in [Provs -> {"off", "wait", "work", "sent", "quit"}]
      BY <1>2
    <3> HIDE DEF R
    <3> QED  BY <1>0, <1>1, <3>1, <3>2, RaceField
  <2>2. CASE RacerFails(a, p) \/ RacerSends(a, p)
    <3>1. \/ race' = [race EXCEPT ![a] = [R EXCEPT !.gor = [R.gor EXCEPT ![p] = "sent"],
                                                   !.ch = Append(R.ch, [p |-> p, ok |-> TRUE])]]
          \/ race' = [race EXCEPT ![a] = [R EXCEPT !.gor = [R.gor EXCEPT ![p] = "sent"],
                                                   !.ch = Append(R.ch, [p |-> p, ok |-> FALSE])]]
          \/ race' = [race EXCEPT ![a] = [R EXCEPT !.gor = [R.gor EXCEPT ![p] = "quit"]]]
      BY <2>2 DEF RacerFails, RacerSends
    <3>2. /\ [R.gor EXCEPT ![p] = "sent"] \in [Provs -> {"off", "wait", "work", "sent", "quit"}]
          /\ [R.gor EXCEPT ![p] = "quit"] \in [Provs -> {"off", "wait", "work", "sent", "quit"}]
      BY <1>2
    <3> HIDE DEF R
    <3> QED  BY <1>0, <1>1, <1>3, <3>1, <3>2, RaceField
  <2> QED  BY <1>11, <2>1, <2>2 DEF RacerNext
<1> QED  BY <1>6, <1>7, <1>8, <1>9, <1>10, <1>11 DEF RaceMoves

LEMMA CallTypesStep == CallTypes /\ TypeOK /\ [FNext]_allVars => CallTypes'
<1> SUFFICES ASSUME CallTypes, TypeOK, [FNext]_allVars PROVE CallTypes'
    OBVIOUS
<1>0. call \in [Callers -> CallRec] /\ race \in [Callers -> RaceRec]
  BY DEF CallTypes
<1>1. ASSUME race' = race \/ \E a \in Callers : \E r \in RaceRec : race' = [race EXCEPT ![a] = r]
      PROVE  race' \in [Callers -> RaceRec]
  BY <1>0, <1>1
<1>2. ASSUME call' = call \/ \E a \in Callers : \E c \in CallRec : HasCur(c) /\ call' = [call EXCEPT ![a] = c]
      PROVE  call' \in [Callers -> CallRec] /\ \A b \in Callers : HasCur(call'[b])
  BY <1>2, OneCall DEF CallTypes
<1>3. ASSUME NEW a \in Callers, Begin(a) \/ Deadline(a) \/ CallNext(a) PROVE CallTypes'
  <2>1. CASE CallNext(a)
    <3>1. RaceMoves(a) \/ race' = race
      BY <2>1 DEF CallNext, RaceMoves, ScanTake, ScanSkip, WorkGot, WorkFails, RunStops, RunOk, RunNotFound,
                  RunConnError, RunRefused, RunDecode, RunPanics, PreferTake, PreferGivesUp, PreferFails,
                  PreferGot, GoBack, Returns, Excludes
    <3>2. race' \in [Callers -> RaceRec]
      BY <1>1, <3>1, RaceStep
    <3>3. call' \in [Callers -> CallRec] /\ \A b \in Callers : HasCur(call'[b])
      BY <1>2, <2>1, CallStep
    <3> QED  BY <3>2, <3>3 DEF CallTypes
  <2>2. CASE Begin(a)
    <3> DEFINE c == [call[a] EXCEPT !.pc = "scan", !.i = 1]
    <3>0. call[a] \in CallRec
      BY <1>0
    <3>1. c \in CallRec /\ c.pc = "scan"
      BY <3>0 DEF CallRec, Pcs
    <3>2. call' = [call EXCEPT ![a] = c] /\ race' = race
      BY <2>2 DEF Begin
    <3>3. HasCur(c)
      BY <3>1 DEF HasCur
    <3> HIDE DEF c
    <3> QED  BY <1>0, <1>2, <3>1, <3>2, <3>3 DEF CallTypes
  <2>3. CASE Deadline(a)
    <3> DEFINE c == [call[a] EXCEPT !.done = TRUE]
    <3>0. call[a] \in CallRec
      BY <1>0
    <3>1. c \in CallRec /\ c.pc = call[a].pc /\ c.cur = call[a].cur
      BY <3>0 DEF CallRec
    <3>2. call' = [call EXCEPT ![a] = c] /\ race' = race
      BY <2>3 DEF Deadline
    <3>3. HasCur(c)
      BY <3>1 DEF HasCur, CallTypes
    <3> HIDE DEF c
    <3> QED  BY <1>0, <1>2, <3>1, <3>2, <3>3 DEF CallTypes
  <2> QED  BY <1>3, <2>1, <2>2, <2>3
<1>4. ASSUME NEW a \in Callers, Drain(a) \/ DrainEnds(a) \/ \E p \in Provs : RacerNext(a, p) PROVE CallTypes'
  <2>1. RaceMoves(a) /\ call' = call
    BY <1>4 DEF RaceMoves, Drain, DrainEnds, RacerNext, RacerTakes, RacerQuits, RacerFails, RacerSends, RacerPutsBack
  <2>2. race' \in [Callers -> RaceRec]
    BY <1>1, <2>1, RaceStep
  <2> QED  BY <1>2, <2>1, <2>2 DEF CallTypes
<1>5. CASE UNCHANGED <<call, race>>
  BY <1>5 DEF CallTypes
<1>6. ASSUME \/ \E w \in Workers : WorkerFails(w) \/ WorkerEnds(w) \/ \E p \in Provs : WorkerTakes(w, p)
             \/ \E h \in Hands : PoolSteps(h)
             \/ PoolUpkeep \/ UNCHANGED allVars
      PROVE  UNCHANGED <<call, race>>
  BY <1>6 DEF WorkerFails, WorkerEnds, WorkerTakes, PoolSteps, PoolUpkeep, allVars
<1> QED  BY <1>3, <1>4, <1>5, <1>6 DEF FNext

-----------------------------------------------------------------------------
(* Every step of the client is a step of the pool or leaves it alone. *)

LEMMA HandStep ==
    ASSUME NEW h \in Hands, HandNext(h)
    PROVE  [Next]_vars
BY DEF Next

LEMMA FirstReport ==
    ASSUME CallTypes, NEW a \in Callers, race[a].ch # <<>>
    PROVE  Head(race[a].ch).p \in Provs
<1>1. race[a].ch \in Seq(Reports)
  BY DEF CallTypes, RaceRec, Reports
<1>2. Head(race[a].ch) \in Reports
  BY <1>1
<1> QED  BY <1>2 DEF Reports

LEMMA CallNextUsesPool ==
    ASSUME CallTypes, NEW a \in Callers, CallNext(a)
    PROVE  [Next]_vars
<1>0. /\ Main(a) \in Hands /\ Pref(a) \in Hands
      /\ \A p \in Provs : <<a, p>> \in Hands
      /\ call[a].cur \in Hands \cup {Nil}
      /\ call[a].pc \in {"run", "prefer"} => call[a].cur \in Hands
      /\ \A i \in 1 .. N : Order[i] \in Provs
  BY TheHands DEF CallTypes, CallRec, HasCur
<1>1. CASE ScanTake(a)
  <2>1. Order[call[a].i] \in Provs
    BY <1>1 DEF ScanTake, Eligible
  <2> QED  BY <1>0, <1>1, <2>1, HandStep DEF ScanTake, HandNext
<1>2. CASE WorkFails(a)
  BY <1>0, <1>2, HandStep DEF WorkFails, HandNext
<1>3. CASE RaceReceives(a)
  <2>3. Head(race[a].ch).p \in Provs
    BY <1>3, FirstReport DEF RaceReceives
  <2>4. UNCHANGED vars \/ PutCheck(<<a, Head(race[a].ch).p>>)
    BY <1>3 DEF RaceReceives
  <2> QED  BY <1>0, <2>3, <2>4, HandStep DEF HandNext
<1>4. CASE RunConnError(a) \/ RunDecode(a) \/ RunPanics(a)
  <2>1. call[a].cur \in Hands
    BY <1>0, <1>4 DEF RunConnError, RunDecode, RunPanics, Attempt, At
  <2>2. Release(call[a].cur) \/ Spoil(call[a].cur)
    BY <1>4 DEF RunConnError, RunDecode, RunPanics
  <2> QED  BY <2>1, <2>2, HandStep DEF HandNext
<1>5. CASE PreferTake(a)
  BY <1>0, <1>5, HandStep DEF PreferTake, HandNext
<1>6. CASE PreferFails(a)
  BY <1>0, <1>6, HandStep DEF PreferFails, HandNext
<1>7. CASE PreferGot(a)
  <2>1. call[a].cur \in Hands /\ PutCheck(call[a].cur)
    BY <1>0, <1>7 DEF PreferGot, At
  <2> QED  BY <2>1, HandStep DEF HandNext
<1>8. CASE GoBack(a)
  <2>1. UNCHANGED vars \/ (call[a].cur \in Hands /\ PutCheck(call[a].cur))
    <3>1. call[a].cur = Nil \/ call[a].cur \in Hands
      BY <1>0
    <3> QED  BY <1>8, <3>1 DEF GoBack
  <2> QED  BY <2>1, HandStep DEF HandNext
<1>9. CASE UNCHANGED vars
  BY <1>9
<1> QED  BY <1>1, <1>2, <1>3, <1>4, <1>5, <1>6, <1>7, <1>8, <1>9
         DEF CallNext, ScanSkip, WorkGot, RaceStart, RaceEnds, RaceAbandons, RunStops, RunOk, RunNotFound,
             RunRefused, PreferGivesUp, Returns, Excludes

LEMMA StepUsesPool == CallTypes /\ [FNext]_allVars => [Next]_vars
<1> SUFFICES ASSUME CallTypes, [FNext]_allVars PROVE [Next]_vars
    OBVIOUS
<1>1. ASSUME NEW a \in Callers, CallNext(a) PROVE [Next]_vars
  BY <1>1, CallNextUsesPool
<1>2. ASSUME NEW a \in Callers, Begin(a) \/ Deadline(a) \/ DrainEnds(a) PROVE [Next]_vars
  BY <1>2 DEF Begin, Deadline, DrainEnds
<1>3. ASSUME NEW a \in Callers, Drain(a) PROVE [Next]_vars
  <2>3. <<a, Head(race[a].ch).p>> \in Hands
    BY <1>3, FirstReport, TheHands DEF Drain
  <2>4. UNCHANGED vars \/ PutCheck(<<a, Head(race[a].ch).p>>)
    BY <1>3 DEF Drain
  <2> QED  BY <2>3, <2>4, HandStep DEF HandNext
<1>4. ASSUME NEW a \in Callers, NEW p \in Provs, RacerNext(a, p) PROVE [Next]_vars
  BY <1>4, TheHands, HandStep DEF RacerNext, RacerTakes, RacerQuits, RacerFails, RacerSends, RacerPutsBack, HandNext
<1>5. ASSUME NEW w \in Workers, WorkerFails(w) \/ WorkerEnds(w) \/ \E p \in Provs : WorkerTakes(w, p)
      PROVE  [Next]_vars
  <2>1. <<w, "stat">> \in Hands
    OBVIOUS
  <2> QED  BY <1>5, <2>1, HandStep DEF WorkerFails, WorkerEnds, WorkerTakes, HandNext
<1>6. ASSUME NEW h \in Hands, PoolSteps(h) PROVE [Next]_vars
  BY <1>6, HandStep DEF PoolSteps, HandNext
<1>7. CASE PoolUpkeep
  BY <1>7 DEF PoolUpkeep, Next
<1>8. CASE UNCHANGED allVars
  BY <1>8 DEF allVars
<1> QED  BY <1>1, <1>2, <1>3, <1>4, <1>5, <1>6, <1>7, <1>8 DEF FNext

LEMMA ClientInit == FInit => CallTypes /\ IInv
<1>1. ASSUME FInit PROVE CallTypes
  <2>1. call = [a \in Callers |-> NoCall] /\ race = [a \in Callers |-> NoRace]
    BY <1>1 DEF FInit
  <2> QED  BY <2>1, NoCallType, NoRaceType DEF CallTypes
<1> QED  BY <1>1, InvInit DEF FInit

LEMMA ClientStep == CallTypes /\ IInv /\ [FNext]_allVars => (CallTypes /\ IInv)'
<1>1. IInv => TypeOK
  BY DEF IInv
<1> QED  BY <1>1, CallTypesStep, StepUsesPool, InvStep

LEMMA ClientInvariant == FSpec => [](CallTypes /\ IInv)
<1> QED  BY ClientInit, ClientStep, PTL DEF FSpec

(* ExecuteWithFailover, raceForConnection and BatchStat take, put back and   *)
(* release slots and connections only as ProviderPool provides: whatever     *)
(* they do is a behaviour of the pool.                                       *)
THEOREM ClientUsesPool == FSpec => UsesPool
<1>1. FInit => Init
  BY DEF FInit
<1> QED  BY <1>1, ClientInvariant, StepUsesPool, PTL DEF FSpec, Spec, UsesPool

(* So MaxConnections of every provider holds for the client as a whole, for  *)
(* any number of callers, workers, providers, retries and faults.            *)
THEOREM ClientConnBound == FSpec => []ConnBound
<1> QED  BY ClientUsesPool, PoolConnBound, PTL DEF UsesPool

(* And so does the owner of a connection: two downloads, a download and a     *)
(* check, or a download and the loser of its own race never hold the same     *)
(* connection, and none is open that nothing leads to.                        *)
THEOREM ClientOneOwner == FSpec => []OneOwner
<1> QED  BY ClientUsesPool, PoolOneOwner, PTL DEF UsesPool

-----------------------------------------------------------------------------
(* What a call has in its hands (NoSlotLeak), while no deadline passes.      *)

(* A hand that has nothing, or whose connection is on its way back. *)
Free(h) == at[h] \in {"none", "push", "unslot"}

(* A racer has reported a connection that is still in the channel, or has won. *)
Answered(a, p) == \/ race[a].win = p
                  \/ \E i \in DOMAIN race[a].ch : race[a].ch[i] = [p |-> p, ok |-> TRUE]

(* What a call may have in a hand, by where it is. *)
Due(a, h) ==
    \/ call[a].pc = "work" /\ h = Main(a)
    \/ call[a].pc = "prefer" /\ h \in {call[a].cur, Pref(a)}
    \/ call[a].pc \in {"run", "back"} /\ h = call[a].cur
    \/ call[a].pc = "race" /\ h[2] \in Provs /\ (race[a].gor[h[2]] = "work" \/ Answered(a, h[2]))

CurIsOut(a) ==
    (call[a].pc \in {"run", "prefer", "back"} /\ call[a].cur # Nil) =>
        /\ call[a].cur[1] = a /\ at[call[a].cur] = "out"
        /\ call[a].pc = "prefer" => call[a].cur # Pref(a)

ReportsHold(a) ==
    /\ race[a].win # Nil => race[a].gor[race[a].win] = "sent" /\ at[<<a, race[a].win>>] = "out"
    /\ \A i \in DOMAIN race[a].ch :
          LET r == race[a].ch[i] IN
          /\ race[a].gor[r.p] = "sent" /\ r.p # race[a].win
          /\ r.ok => at[<<a, r.p>>] = "out"
          /\ \A j \in DOMAIN race[a].ch : race[a].ch[j].p = r.p => i = j

Holds(a) ==
    /\ ~call[a].done /\ ~race[a].drain
    /\ call[a].pc # "race" => race[a] = NoRace
    /\ \A h \in Hands : h[1] = a => /\ call[a].pc = "idle" => at[h] = "none"
                                    /\ Free(h) \/ Due(a, h)
    /\ CurIsOut(a)
    /\ ReportsHold(a)

HoldsInv == \A a \in Callers : Holds(a)

(* No context runs out of time.  The callers of the code may have one that    *)
(* does; what then leaks is said in the README.                              *)
OutOfTimeNever == "deadline" \notin Faults

(* No hand is a name of a provider, and the hands of a caller are these.     *)
LEMMA HandsOf ==
    ASSUME NEW a \in Callers, NEW h \in Hands, h[1] = a
    PROVE  h = Main(a) \/ h = Pref(a) \/ \E p \in Provs : h = <<a, p>>
BY DEF Main, Pref

LEMMA HandsDiffer ==
    ASSUME NEW a \in Callers, NEW p \in Provs
    PROVE  /\ Main(a) # Pref(a) /\ Main(a) # <<a, p>> /\ Pref(a) # <<a, p>>
           /\ Main(a)[1] = a /\ Pref(a)[1] = a /\ Main(a)[2] \notin Provs /\ Pref(a)[2] \notin Provs
BY NamesAssumption DEF Main, Pref

LEMMA NoRaceHolds ==
    ASSUME NEW a \in Callers, race[a] = NoRace
    PROVE  /\ ReportsHold(a) /\ ~race[a].drain /\ \A p \in Provs : race[a].gor[p] = "off" /\ ~Answered(a, p)
<1>1. race[a].ch = <<>> /\ race[a].win = Nil /\ ~race[a].drain /\ \A p \in Provs : race[a].gor[p] = "off"
  BY DEF NoRace
<1>2. DOMAIN race[a].ch = {}
  BY <1>1
<1>3. Nil \notin Provs
  BY PoolAssumption
<1> QED  BY <1>1, <1>2, <1>3 DEF ReportsHold, Answered

(* Outside a race nothing of a settled call is on its way back.              *)
LEMMA SettledHands ==
    ASSUME NEW a \in Callers, Holds(a), Settled(a), call[a].pc # "race", NEW h \in Hands, h[1] = a
    PROVE  /\ at[h] \notin {"push", "unslot"}
           /\ at[h] = "none" \/ Due(a, h)
<1>1. race[a] = NoRace /\ (Free(h) \/ Due(a, h))
  BY DEF Holds
<1>2. h[2] \in Provs => race[a].gor[h[2]] = "off"
  BY <1>1, NoRaceHolds
<1>3. at[h] \notin {"push", "unslot"}
  BY <1>2 DEF Settled
<1> QED  BY <1>1, <1>3 DEF Free

(* The hands of a call move, if at all, as the pool moves them by itself.    *)
LEMMA HoldsWhileKept ==
    ASSUME NEW a \in Callers, Holds(a), call'[a] = call[a], race'[a] = race[a],
           \A h \in Hands : h[1] = a => /\ Free(h) => Free(h)'
                                        /\ at[h] \in {"none", "out"} => at'[h] = at[h],
           CallTypes, \A a1 \in Callers : \A p \in Provs : <<a1, p>> \in Hands
    PROVE  Holds(a)'
<1>1. \A h \in Hands : Due(a, h)' = Due(a, h)
  BY DEF Due, Answered
<1>2. CurIsOut(a)'
  <2>1. call[a].cur \in Hands \cup {Nil}
    BY DEF CallTypes, CallRec
  <2> QED  BY <2>1 DEF CurIsOut, Holds
<1>3. ReportsHold(a)'
  <2>0. race[a] \in RaceRec
    BY DEF CallTypes
  <2>1. race[a].win \in Provs \cup {Nil} /\ \A i \in DOMAIN race[a].ch : race[a].ch[i].p \in Provs
    <3>1. race[a].win \in Provs \cup {Nil} /\ race[a].ch \in Seq(Reports)
      BY <2>0 DEF RaceRec, Reports
    <3>2. \A i \in DOMAIN race[a].ch : race[a].ch[i] \in Reports
      BY <3>1
    <3>3. \A r \in Reports : r.p \in Provs
      BY DEF Reports
    <3> QED  BY <3>1, <3>2, <3>3
  <2>2. \A p \in Provs : at[<<a, p>>] = "out" => at'[<<a, p>>] = "out"
    OBVIOUS
  <2> QED  BY SMTT(30), <2>1, <2>2 DEF ReportsHold, Holds
<1> QED  BY <1>1, <1>2, <1>3 DEF Holds

(* An operation of the pool moves the hand it is about and no other.         *)
LEMMA OneHandMoves ==
    ASSUME TypeOK, NEW h \in Hands, HandNext(h), NEW g \in Hands, g # h
    PROVE  at'[g] = at[g]
<1>0. at \in [Hands -> Stages]
  BY DEF TypeOK
<1>1. at' = at \/ \E x : at' = [at EXCEPT ![h] = x]
  <2>1. CASE \E p \in Provs : Take(h, p)
    BY <2>1 DEF Take
  <2>2. CASE Pop(h) \/ Empty(h) \/ Reject(h) \/ Accept(h) \/ DialOk(h)
    BY <2>2 DEF Pop, Empty, Reject, Accept, DialOk
  <2>3. CASE DialFails(h) \/ Spoil(h) \/ Release(h) \/ PutUnslot(h)
    BY <2>3 DEF DialFails, Spoil, Release, PutUnslot, ReleaseSlot
  <2>4. CASE PutCheck(h) \/ PutPush(h)
    BY <2>4 DEF PutCheck, PutPush, ReleaseSlot
  <2> QED  BY <2>1, <2>2, <2>3, <2>4 DEF HandNext
<1> QED  BY <1>0, <1>1

LEMMA PoolKeepsHands ==
    ASSUME TypeOK, NEW h \in Hands, PoolSteps(h), NEW g \in Hands
    PROVE  /\ Free(g) => Free(g)'
           /\ at[g] \in {"none", "out"} => at'[g] = at[g]
<1>0. at \in [Hands -> Stages]
  BY DEF TypeOK
<1>1. \E x : /\ at' = [at EXCEPT ![h] = x] /\ at[h] \notin {"none", "out"}
             /\ at[h] \in {"push", "unslot"} => x \in {"none", "unslot"}
  <2>1. CASE Pop(h) \/ Empty(h) \/ Reject(h) \/ Accept(h) \/ DialOk(h)
    BY <2>1 DEF Pop, Empty, Reject, Accept, DialOk
  <2>2. CASE PutUnslot(h) \/ PutPush(h)
    BY <2>2 DEF PutUnslot, PutPush, ReleaseSlot
  <2> QED  BY <2>1, <2>2 DEF PoolSteps
<1> QED  BY <1>0, <1>1 DEF Free

LEMMA TakeAt ==
    ASSUME TypeOK, NEW h \in Hands, NEW p \in Provs, Take(h, p)
    PROVE  at' = [at EXCEPT ![h] = "get"] /\ at[h] = "none"
BY DEF Take

LEMMA GiveUpAt ==
    ASSUME TypeOK, NEW h \in Hands, DialFails(h) \/ Release(h)
    PROVE  at' = [at EXCEPT ![h] = "none"]
BY DEF DialFails, Release, ReleaseSlot

LEMMA PutCheckAt ==
    ASSUME TypeOK, NEW h \in Hands, PutCheck(h)
    PROVE  at[h] = "out" /\ \E x \in {"none", "push"} : at' = [at EXCEPT ![h] = x]
BY DEF PutCheck, ReleaseSlot

(* The loop goes on or is over, with nothing in a hand.                      *)
LEMMA NextRoundIs ==
    ASSUME NEW c \in CallRec, ~c.done
    PROVE  NextRound(c).pc \in {"idle", "scan"} /\ ~NextRound(c).done
<1> DEFINE d == [c EXCEPT !.pc = "scan", !.i = 1, !.why = "first", !.orig = Nil, !.tries = 0,
                         !.err = "none", !.from = Nil]
<1>1. d.pc = "scan" /\ d.done = c.done
  BY DEF CallRec
<1>2. NoCall.pc = "idle" /\ ~NoCall.done
  BY DEF NoCall
<1>3. NextRound(c) = NoCall \/ NextRound(c) = d
  BY DEF NextRound
<1> HIDE DEF d
<1> QED  BY <1>1, <1>2, <1>3

LEMMA HoldsWithNothing ==
    ASSUME NEW a \in Callers, call'[a].pc \in {"idle", "scan", "decide"}, ~call'[a].done, race'[a] = NoRace,
           \A h \in Hands : h[1] = a => Free(h)' /\ (call'[a].pc = "idle" => at'[h] = "none")
    PROVE  Holds(a)'
<1>0. race'[a].ch = <<>> /\ race'[a].win = Nil /\ ~race'[a].drain
  BY DEF NoRace
<1>1. ReportsHold(a)' /\ ~race'[a].drain
  BY <1>0 DEF ReportsHold
<1> QED  BY <1>1 DEF Holds, CurIsOut

LEMMA HoldsWithOne ==
    ASSUME NEW a \in Callers, call'[a].pc \in {"run", "prefer", "back"}, ~call'[a].done, race'[a] = NoRace,
           call'[a].cur # Nil => call'[a].cur[1] = a /\ at'[call'[a].cur] = "out",
           call'[a].pc = "prefer" => call'[a].cur # Pref(a),
           \A h \in Hands : h[1] = a => \/ Free(h)' \/ h = call'[a].cur
                                        \/ call'[a].pc = "prefer" /\ h = Pref(a)
    PROVE  Holds(a)'
<1>0. race'[a].ch = <<>> /\ race'[a].win = Nil /\ ~race'[a].drain
  BY DEF NoRace
<1>1. ReportsHold(a)' /\ ~race'[a].drain
  BY <1>0 DEF ReportsHold
<1>2. \A h \in Hands : h[1] = a => Free(h)' \/ Due(a, h)'
  BY DEF Due
<1>3. CurIsOut(a)'
  BY DEF CurIsOut
<1> QED  BY <1>1, <1>2, <1>3 DEF Holds

(* What was found is in the hand that goes on.                               *)
LEMMA GotIs ==
    ASSUME NEW c \in CallRec, NEW h \in Hands, ~c.done, TypeOK
    PROVE  /\ Got(h, c).pc \in {"run", "prefer"} /\ Got(h, c).cur = h /\ ~Got(h, c).done
<1>1. LET d == [c EXCEPT !.pc = "run", !.i = 0, !.cur = h, !.orig = prov[h]]
      IN  d.pc = "run" /\ d.cur = h /\ d.done = c.done
  BY DEF CallRec
<1>2. ASSUME NEW pc \in {"run", "prefer"}
      PROVE  LET d == [c EXCEPT !.pc = pc, !.i = 0, !.cur = h] IN d.pc = pc /\ d.cur = h /\ d.done = c.done
  BY DEF CallRec
<1> QED  BY <1>1, <1>2 DEF Got

LEMMA ScanHolds ==
    ASSUME CallTypes, TypeOK, NEW a \in Callers, Holds(a),
           Begin(a) \/ ScanTake(a) \/ ScanSkip(a) \/ WorkGot(a) \/ WorkFails(a) \/ RaceStart(a)
    PROVE  Holds(a)'
<1>0. /\ call \in [Callers -> CallRec] /\ call[a] \in CallRec /\ ~call[a].done
      /\ race \in [Callers -> RaceRec] /\ race[a] \in RaceRec /\ at \in [Hands -> Stages]
  BY DEF CallTypes, TypeOK, Holds
<1>1. Main(a) \in Hands /\ Main(a)[1] = a
  BY TheHands DEF Main
<1>2. CASE Begin(a)
  <2>1. call'[a].pc = "scan" /\ ~call'[a].done /\ race'[a] = NoRace /\ at' = at
    BY <1>0, <1>2 DEF Begin, CallRec, vars
  <2>2. \A h \in Hands : h[1] = a => Free(h)'
    BY <1>2, <2>1 DEF Begin, Free
  <2> QED  BY <2>1, <2>2, HoldsWithNothing
<1>3. CASE ScanSkip(a)
  <2>1. call[a].pc = "scan" /\ call'[a].pc = "scan" /\ ~call'[a].done /\ race'[a] = race[a] /\ at' = at
    BY <1>0, <1>3 DEF ScanSkip, At, CallRec, vars
  <2>2. race'[a] = NoRace
    BY <2>1 DEF Holds
  <2>3. \A h \in Hands : h[1] = a => Free(h)'
    BY <2>1 DEF Free, Holds, Due
  <2> QED  BY <2>1, <2>2, <2>3, HoldsWithNothing
<1>4. CASE ScanTake(a)
  <2>1. call[a].pc = "scan" /\ call'[a].pc = "work" /\ ~call'[a].done /\ race'[a] = race[a]
    BY <1>0, <1>4 DEF ScanTake, At, CallRec
  <2>2. Order[call[a].i] \in Provs /\ Take(Main(a), Order[call[a].i])
    BY <1>4 DEF ScanTake, Eligible
  <2>3. \A h \in Hands : h # Main(a) => at'[h] = at[h]
    BY <1>0, <1>1, <2>2, TakeAt
  <2>4. race[a] = NoRace /\ ReportsHold(a) /\ ~race[a].drain
    BY <2>1, NoRaceHolds DEF Holds
  <2>5. ReportsHold(a)'
    <3>1. race'[a].ch = <<>> /\ race'[a].win = Nil
      BY <2>1, <2>4 DEF NoRace
    <3> QED  BY <3>1 DEF ReportsHold
  <2>6. \A h \in Hands : h[1] = a => Free(h)' \/ Due(a, h)'
    <3>1. \A h \in Hands : h[1] = a => Free(h)
      BY <2>1 DEF Holds, Due
    <3>2. Due(a, Main(a))'
      BY <2>1 DEF Due
    <3> QED  BY <2>3, <3>1, <3>2 DEF Free
  <2> QED  BY <2>1, <2>4, <2>5, <2>6 DEF Holds, CurIsOut
<1>5. CASE WorkFails(a)
  <2>1. call[a].pc = "work" /\ call'[a].pc = "scan" /\ ~call'[a].done /\ race'[a] = race[a]
    BY <1>0, <1>5 DEF WorkFails, At, CallRec
  <2>2. at' = [at EXCEPT ![Main(a)] = "none"]
    BY <1>1, <1>5, GiveUpAt DEF WorkFails
  <2>3. race'[a] = NoRace
    BY <2>1 DEF Holds
  <2>4. \A h \in Hands : h[1] = a => Free(h)'
    <3>1. \A h \in Hands : h[1] = a => Free(h) \/ h = Main(a)
      BY <2>1 DEF Holds, Due
    <3> QED  BY <1>0, <2>2, <3>1 DEF Free
  <2> QED  BY <2>1, <2>3, <2>4, HoldsWithNothing
<1>6. CASE WorkGot(a)
  <2>1. call[a].pc = "work" /\ call'[a] = Got(Main(a), call[a]) /\ race'[a] = race[a] /\ at' = at
        /\ at[Main(a)] = "out"
    BY <1>0, <1>6 DEF WorkGot, At, vars
  <2>2. call'[a].pc \in {"run", "prefer"} /\ call'[a].cur = Main(a) /\ ~call'[a].done
    BY <1>0, <1>1, <2>1, GotIs
  <2>3. race'[a] = NoRace
    BY <2>1 DEF Holds
  <2>4. \A h \in Hands : h[1] = a => Free(h)' \/ h = Main(a)
    BY <2>1 DEF Holds, Due, Free
  <2>5. Main(a) # Pref(a)
    BY DEF Main, Pref
  <2> QED  BY <1>1, <2>1, <2>2, <2>3, <2>4, <2>5, HoldsWithOne
<1>7. CASE RaceStart(a)
  <2> DEFINE g == [p \in Provs |-> IF p \in Eligible(a) THEN "wait" ELSE "off"]
  <2>1. call[a].pc = "scan" /\ call'[a].pc = "race" /\ ~call'[a].done /\ at' = at
        /\ race'[a] = [race[a] EXCEPT !.gor = g]
    BY <1>0, <1>7 DEF RaceStart, At, CallRec, vars
  <2>2. race[a] = NoRace
    BY <2>1 DEF Holds
  <2>3. race'[a].ch = <<>> /\ race'[a].win = Nil /\ ~race'[a].drain
    <3> HIDE DEF g
    <3> QED  BY <2>1, <2>2 DEF NoRace
  <2>4. ReportsHold(a)'
    BY <2>3 DEF ReportsHold
  <2>5. \A h \in Hands : h[1] = a => Free(h)'
    BY <2>1 DEF Free, Holds, Due
  <2> QED  BY <2>1, <2>3, <2>4, <2>5 DEF Holds, CurIsOut
<1> QED  BY <1>2, <1>3, <1>4, <1>5, <1>6, <1>7

(* The call has one connection, and settled nothing else.                    *)
LEMMA OnlyCur ==
    ASSUME CallTypes, TypeOK, NEW a \in Callers, Holds(a), Settled(a), call[a].pc \in {"run", "prefer", "back"}
    PROVE  /\ race[a] = NoRace /\ ~call[a].done
           /\ call[a].cur # Nil => call[a].cur \in Hands /\ call[a].cur[1] = a /\ at[call[a].cur] = "out"
           /\ call[a].pc = "prefer" => call[a].cur # Pref(a)
           /\ \A h \in Hands : h[1] = a => \/ at[h] = "none" \/ h = call[a].cur
                                           \/ call[a].pc = "prefer" /\ h = Pref(a)
<1>1. race[a] = NoRace /\ ~call[a].done
  BY DEF Holds
<1>2. call[a].cur # Nil => call[a].cur \in Hands /\ call[a].cur[1] = a /\ at[call[a].cur] = "out"
  <2>1. call[a].cur \in Hands \cup {Nil}
    BY DEF CallTypes, CallRec
  <2> QED  BY <2>1 DEF Holds, CurIsOut
<1>3. call[a].pc = "prefer" => call[a].cur # Pref(a)
  <2>1. call[a].pc = "prefer" => call[a].cur # Nil
    BY NamesAssumption DEF CallTypes, HasCur
  <2> QED  BY <2>1 DEF Holds, CurIsOut
<1>4. \A h \in Hands : h[1] = a => at[h] = "none" \/ Due(a, h)
  BY SettledHands
<1> QED  BY <1>1, <1>2, <1>3, <1>4 DEF Due

LEMMA RunHolds ==
    ASSUME CallTypes, TypeOK, NEW a \in Callers, Holds(a), OutOfTimeNever,
           \/ RunStops(a) \/ RunOk(a) \/ RunNotFound(a) \/ RunConnError(a) \/ RunRefused(a)
           \/ RunDecode(a) \/ RunPanics(a)
    PROVE  Holds(a)'
<1>0. /\ call \in [Callers -> CallRec] /\ call[a] \in CallRec /\ at \in [Hands -> Stages]
  BY DEF CallTypes, TypeOK
<1>1. call[a].pc = "run" /\ Settled(a)
  BY DEF RunStops, RunOk, RunNotFound, RunConnError, RunRefused, RunDecode, RunPanics, Attempt, At
<1>2. call[a].cur \in Hands /\ call[a].cur # Nil
  BY <1>1, NamesAssumption DEF CallTypes, HasCur
<1>3. /\ race[a] = NoRace /\ ~call[a].done
      /\ call[a].cur[1] = a /\ at[call[a].cur] = "out"
      /\ \A h \in Hands : h[1] = a => at[h] = "none" \/ h = call[a].cur
  BY <1>1, <1>2, OnlyCur
<1>4. race' = race
  BY DEF RunStops, RunOk, RunNotFound, RunConnError, RunRefused, RunDecode, RunPanics
<1>5. CASE RunStops(a) \/ RunOk(a) \/ RunNotFound(a) \/ RunRefused(a) \/ RunDecode(a)
  <2>1. at' = at
    BY <1>5 DEF RunStops, RunOk, RunNotFound, RunRefused, RunDecode, Spoil, vars
  <2>2. call'[a].pc = "back" /\ call'[a].cur = call[a].cur /\ ~call'[a].done
    <3>1. CASE RunStops(a)
      BY SMTT(30), <1>0, <1>3, <3>1 DEF RunStops, CallRec
    <3>2. CASE RunOk(a) \/ RunNotFound(a)
      BY <1>0, <1>3, <3>2 DEF RunOk, RunNotFound, CallRec
    <3>3. CASE RunRefused(a) \/ RunDecode(a)
      BY <1>0, <1>3, <3>3 DEF RunRefused, RunDecode, CallRec
    <3> QED  BY <1>5, <3>1, <3>2, <3>3
  <2> QED  BY <1>2, <1>3, <1>4, <2>1, <2>2, HoldsWithOne DEF Free
<1>6. CASE RunConnError(a) \/ RunPanics(a)
  <2>1. at' = [at EXCEPT ![call[a].cur] = "none"]
    BY <1>2, <1>6, GiveUpAt DEF RunConnError, RunPanics
  <2>2. \A h \in Hands : h[1] = a => at'[h] = "none"
    BY <1>0, <1>2, <1>3, <2>1
  <2>3. \/ call'[a].pc = "scan" /\ ~call'[a].done
        \/ call'[a].pc = "back" /\ call'[a].cur = Nil /\ ~call'[a].done
    BY <1>0, <1>3, <1>6 DEF RunConnError, RunPanics, CallRec
  <2> QED  BY <1>3, <1>4, <2>2, <2>3, HoldsWithOne, HoldsWithNothing DEF Free
<1> QED  BY <1>5, <1>6

LEMMA PreferHolds ==
    ASSUME CallTypes, TypeOK, NEW a \in Callers, Holds(a),
           PreferTake(a) \/ PreferGivesUp(a) \/ PreferFails(a) \/ PreferGot(a)
    PROVE  Holds(a)'
<1>0. /\ call \in [Callers -> CallRec] /\ call[a] \in CallRec /\ at \in [Hands -> Stages]
      /\ Pref(a) \in Hands /\ Pref(a)[1] = a
  BY TheHands DEF CallTypes, TypeOK, Pref
<1>1. call[a].pc = "prefer" /\ Settled(a)
  BY DEF PreferTake, PreferGivesUp, PreferFails, PreferGot, At
<1>2. call[a].cur \in Hands /\ call[a].cur # Nil
  BY <1>1, NamesAssumption DEF CallTypes, HasCur
<1>3. /\ race[a] = NoRace /\ ~call[a].done
      /\ call[a].cur[1] = a /\ at[call[a].cur] = "out" /\ call[a].cur # Pref(a)
      /\ \A h \in Hands : h[1] = a => at[h] = "none" \/ h = call[a].cur \/ h = Pref(a)
  BY <1>1, <1>2, OnlyCur
<1>4. race' = race
  BY DEF PreferTake, PreferGivesUp, PreferFails, PreferGot
<1>5. CASE PreferTake(a)
  <2>1. at' = [at EXCEPT ![Pref(a)] = "get"] /\ call' = call
    BY <1>0, <1>5, TakeAt DEF PreferTake
  <2>2. at'[call[a].cur] = "out" /\ \A h \in Hands : h # Pref(a) => at'[h] = at[h]
    BY <1>0, <1>2, <1>3, <2>1
  <2> QED  BY <1>1, <1>2, <1>3, <1>4, <2>1, <2>2, HoldsWithOne DEF Free
<1>6. CASE PreferGivesUp(a)
  BY <1>3, <1>6 DEF PreferGivesUp
<1>7. CASE PreferFails(a)
  <2>1. at' = [at EXCEPT ![Pref(a)] = "none"]
    BY <1>0, <1>7, GiveUpAt DEF PreferFails
  <2>2. call'[a].pc = "run" /\ call'[a].cur = call[a].cur /\ ~call'[a].done
    BY <1>0, <1>3, <1>7 DEF PreferFails, CallRec
  <2>3. at'[call[a].cur] = "out" /\ \A h \in Hands : h[1] = a => at'[h] = "none" \/ h = call[a].cur
    BY <1>0, <1>2, <1>3, <2>1
  <2> QED  BY <1>2, <1>3, <1>4, <2>2, <2>3, HoldsWithOne DEF Free
<1>8. CASE PreferGot(a)
  <2>1. PICK x \in {"none", "push"} : at' = [at EXCEPT ![call[a].cur] = x]
    BY <1>2, <1>8, PutCheckAt DEF PreferGot
  <2>2. call'[a].pc = "run" /\ call'[a].cur = Pref(a) /\ ~call'[a].done /\ at[Pref(a)] = "out"
    BY <1>0, <1>3, <1>8 DEF PreferGot, CallRec
  <2>3. at'[Pref(a)] = "out" /\ \A h \in Hands : h[1] = a => at'[h] \in {"none", "push"} \/ h = Pref(a)
    BY <1>0, <1>2, <1>3, <2>1, <2>2
  <2> QED  BY <1>0, <1>3, <1>4, <2>2, <2>3, HoldsWithOne DEF Free
<1> QED  BY <1>5, <1>6, <1>7, <1>8

LEMMA EndHolds ==
    ASSUME CallTypes, TypeOK, NEW a \in Callers, Holds(a), GoBack(a) \/ Returns(a) \/ Excludes(a)
    PROVE  Holds(a)'
<1>0. /\ call \in [Callers -> CallRec] /\ call[a] \in CallRec /\ at \in [Hands -> Stages] /\ race' = race
  BY DEF CallTypes, TypeOK, GoBack, Returns, Excludes
<1>1. CASE GoBack(a)
  <2>0. call[a].pc = "back" /\ Settled(a)
    BY <1>1 DEF GoBack, At
  <2>1. /\ race[a] = NoRace /\ ~call[a].done
        /\ call[a].cur # Nil => call[a].cur \in Hands /\ call[a].cur[1] = a /\ at[call[a].cur] = "out"
        /\ \A h \in Hands : h[1] = a => at[h] = "none" \/ h = call[a].cur
    BY <2>0, OnlyCur
  <2>2. call'[a].pc = "decide" /\ ~call'[a].done
    BY <1>0, <1>1, <2>1 DEF GoBack, CallRec
  <2>3. \A h \in Hands : h[1] = a => Free(h)'
    <3>1. CASE call[a].cur = Nil
      <4>1. at' = at
        BY <1>1, <3>1 DEF GoBack, vars
      <4>2. \A h \in Hands : h # Nil
        BY NamesAssumption
      <4> QED  BY <2>1, <3>1, <4>1, <4>2 DEF Free
    <3>2. CASE call[a].cur # Nil
      <4>1. PICK x \in {"none", "push"} : at' = [at EXCEPT ![call[a].cur] = x]
        BY <1>1, <2>1, <3>2, PutCheckAt DEF GoBack
      <4> QED  BY <1>0, <2>1, <4>1 DEF Free
    <3> QED  BY <3>1, <3>2
  <2> QED  BY <1>0, <2>1, <2>2, <2>3, HoldsWithNothing
<1>2. CASE Returns(a) \/ Excludes(a)
  <2>0. call[a].pc = "decide" /\ Settled(a) /\ at' = at
    BY <1>2 DEF Returns, Excludes, At, vars
  <2>1. race[a] = NoRace /\ ~call[a].done
    BY <2>0 DEF Holds
  <2>2. \A h \in Hands : h[1] = a => at[h] = "none"
    BY <2>0, SettledHands DEF Due
  <2>3. call'[a].pc \in {"idle", "scan"} /\ ~call'[a].done
    <3>1. CASE Returns(a)
      BY <1>0, <3>1 DEF Returns, NoCall
    <3>2. CASE Excludes(a)
      <4>1. PICK d \in CallRec : ~d.done /\ call' = [call EXCEPT ![a] = NextRound(d)]
        <5> DEFINE c == [call[a] EXCEPT !.round = @ + 1]
                   e == [c EXCEPT !.gone = @ \cup SameBackbone(c.orig)]
                   f == [c EXCEPT !.skip = @ \cup {c.orig}]
        <5>1. c \in CallRec /\ c.done = call[a].done /\ c.err = call[a].err
          BY <1>0 DEF CallRec
        <5>2. SameBackbone(c.orig) \in SUBSET (Provs \cup {Nil}) /\ c.orig \in Provs \cup {Nil}
          BY <5>1 DEF SameBackbone, CallRec
        <5>3. e \in CallRec /\ e.done = c.done /\ f \in CallRec /\ f.done = c.done
          <6> HIDE DEF c
          <6> QED  BY <5>1, <5>2 DEF CallRec
        <5>4. call' = [call EXCEPT ![a] = NextRound(IF c.err = "nf" THEN e ELSE f)]
          BY <3>2 DEF Excludes
        <5> HIDE DEF c, e, f
        <5> QED  BY <2>1, <5>1, <5>3, <5>4
      <4>2. call'[a] = NextRound(d)
        BY <1>0, <4>1
      <4> QED  BY <4>1, <4>2, NextRoundIs
    <3> QED  BY <1>2, <3>1, <3>2
  <2> QED  BY <1>0, <2>0, <2>1, <2>2, <2>3, HoldsWithNothing DEF Free
<1> QED  BY <1>1, <1>2

(* A racer at work is that of a call in its race.                            *)
LEMMA InRace ==
    ASSUME NEW a \in Callers, Holds(a), NEW p \in Provs, race[a].gor[p] # "off"
    PROVE  call[a].pc = "race"
<1>1. ASSUME race[a] = NoRace PROVE race[a].gor[p] = "off"
  BY <1>1 DEF NoRace
<1> QED  BY <1>1 DEF Holds

(* The reports of a race, one by one.                                        *)
LEMMA Reported ==
    ASSUME CallTypes, NEW a \in Callers, Holds(a)
    PROVE  /\ race[a] \in RaceRec /\ race[a].ch \in Seq(Reports)
           /\ race[a].gor \in [Provs -> {"off", "wait", "work", "sent", "quit"}]
           /\ race[a].win \in Provs \cup {Nil} /\ Nil \notin Provs
           /\ \A i \in 1 .. Len(race[a].ch) :
                 /\ race[a].ch[i] \in Reports /\ race[a].ch[i].p \in Provs
                 /\ race[a].gor[race[a].ch[i].p] = "sent" /\ race[a].ch[i].p # race[a].win
                 /\ race[a].ch[i].ok => at[<<a, race[a].ch[i].p>>] = "out"
                 /\ \A j \in 1 .. Len(race[a].ch) : race[a].ch[j].p = race[a].ch[i].p => i = j
<1>1. race[a] \in RaceRec
  BY DEF CallTypes
<1>2. /\ race[a].ch \in Seq(Reports) /\ race[a].win \in Provs \cup {Nil} /\ Nil \notin Provs
      /\ race[a].gor \in [Provs -> {"off", "wait", "work", "sent", "quit"}]
  BY <1>1, PoolAssumption DEF RaceRec, Reports
<1>3. DOMAIN race[a].ch = 1 .. Len(race[a].ch) /\ \A i \in 1 .. Len(race[a].ch) : race[a].ch[i] \in Reports
  BY <1>2
<1>4. \A r \in Reports : r.p \in Provs
  BY DEF Reports
<1>5. ReportsHold(a)
  BY DEF Holds
<1> QED  BY <1>1, <1>2, <1>3, <1>4, <1>5 DEF ReportsHold

(* A race goes on when its hands and its reports fit again.                  *)
LEMMA HoldsInRace ==
    ASSUME NEW a \in Callers, call'[a].pc = "race", ~call'[a].done, ~race'[a].drain,
           \A h \in Hands : h[1] = a => Free(h)' \/ Due(a, h)', ReportsHold(a)'
    PROVE  Holds(a)'
BY DEF Holds, CurIsOut

LEMMA RacerHolds ==
    ASSUME CallTypes, TypeOK, NEW a \in Callers, Holds(a), NEW p \in Provs, RacerNext(a, p)
    PROVE  Holds(a)'
<1> DEFINE h == <<a, p>>
           R == race[a]
<1>0. /\ race \in [Callers -> RaceRec] /\ at \in [Hands -> Stages] /\ h \in Hands /\ call' = call
  BY TheHands DEF CallTypes, TypeOK, RacerNext, RacerTakes, RacerQuits, RacerFails, RacerSends, RacerPutsBack
<1>1. R.gor[p] \in {"wait", "work"}
  BY DEF RacerNext, RacerTakes, RacerQuits, RacerFails, RacerSends, RacerPutsBack
<1>2. call[a].pc = "race" /\ ~call[a].done /\ ~R.drain
  <2>1. call[a].pc = "race"
    BY <1>1, InRace
  <2> QED  BY <2>1 DEF Holds
<1>3. /\ R \in RaceRec /\ R.ch \in Seq(Reports)
      /\ R.gor \in [Provs -> {"off", "wait", "work", "sent", "quit"}]
      /\ R.win \in Provs \cup {Nil} /\ Nil \notin Provs
      /\ \A i \in 1 .. Len(R.ch) :
                 /\ R.ch[i] \in Reports /\ R.ch[i].p \in Provs
                 /\ R.gor[R.ch[i].p] = "sent" /\ R.ch[i].p # R.win
                 /\ R.ch[i].ok => at[<<a, R.ch[i].p>>] = "out"
                 /\ \A j \in 1 .. Len(R.ch) : R.ch[j].p = R.ch[i].p => i = j
  BY Reported
<1>4. R.win # Nil => R.gor[R.win] = "sent" /\ at[<<a, R.win>>] = "out"
  BY DEF Holds, ReportsHold
<1>5. \A g \in Hands : g[1] = a => Free(g) \/ (g[2] \in Provs /\ (R.gor[g[2]] = "work" \/ Answered(a, g[2])))
  BY <1>2 DEF Holds, Due, Main
<1>6. \A g \in Hands : g[1] = a /\ g # h => g[2] # p
  BY HandsOf, HandsDiffer
<1>7. R.win # p /\ \A i \in 1 .. Len(R.ch) : R.ch[i].p # p
  BY <1>1, <1>3, <1>4
<1>8. \A q \in Provs : q # p => <<a, q>> # h
  OBVIOUS
<1>9. CASE RacerTakes(a, p) \/ RacerQuits(a, p) \/ RacerPutsBack(a, p) \/ (RacerFails(a, p) /\ race'[a].ch = R.ch)
  <2>1. \E x \in {"work", "quit"} : /\ race' = [race EXCEPT ![a].gor[p] = x]
                                    /\ x = "work" \/ at'[h] \in {"none", "push"} \/ (at' = at /\ R.gor[p] = "wait")
    <3>1. CASE RacerTakes(a, p)
      BY <3>1 DEF RacerTakes
    <3>2. CASE RacerQuits(a, p)
      BY <3>2 DEF RacerQuits, vars
    <3>3. CASE RacerPutsBack(a, p)
      <4>1. PICK x \in {"none", "push"} : at' = [at EXCEPT ![h] = x]
        BY <1>0, <3>3, PutCheckAt DEF RacerPutsBack
      <4> QED  BY <1>0, <3>3, <4>1 DEF RacerPutsBack
    <3>4. CASE RacerFails(a, p) /\ race'[a].ch = R.ch
      <4>1. at'[h] = "none"
        BY <1>0, <3>4, GiveUpAt DEF RacerFails
      <4>2. race' # [race EXCEPT ![a].gor[p] = "sent", ![a].ch = Append(@, [p |-> p, ok |-> FALSE])]
        <5>1. Len(Append(R.ch, [p |-> p, ok |-> FALSE])) # Len(R.ch)
          BY <1>3 DEF Reports
        <5>2. ASSUME race' = [race EXCEPT ![a].gor[p] = "sent", ![a].ch = Append(@, [p |-> p, ok |-> FALSE])]
              PROVE  race'[a].ch = Append(R.ch, [p |-> p, ok |-> FALSE])
          BY <1>0, <1>3, <5>2 DEF RaceRec
        <5> QED  BY <3>4, <5>1, <5>2
      <4> QED  BY <3>4, <4>1, <4>2 DEF RacerFails
    <3> QED  BY <1>9, <3>1, <3>2, <3>3, <3>4
  <2>2. PICK x \in {"work", "quit"} : /\ race' = [race EXCEPT ![a].gor[p] = x]
                                      /\ x = "work" \/ at'[h] \in {"none", "push"} \/ (at' = at /\ R.gor[p] = "wait")
    BY <2>1
  <2>3. /\ race'[a].gor = [R.gor EXCEPT ![p] = x] /\ race'[a].ch = R.ch /\ race'[a].win = R.win
        /\ race'[a].drain = R.drain
    BY <1>0, <1>3, <2>2 DEF RaceRec
  <2>4. \A g \in Hands : g # h => at'[g] = at[g]
    <3>1. HandNext(h) \/ at' = at
      BY <1>9 DEF RacerTakes, RacerQuits, RacerPutsBack, RacerFails, HandNext, vars
    <3> QED  BY <1>0, <3>1, OneHandMoves
  <2>5. ReportsHold(a)'
    <3>1. \A q \in Provs : q # p => race'[a].gor[q] = R.gor[q] /\ at'[<<a, q>>] = at[<<a, q>>]
      BY <1>3, <1>8, <2>3, <2>4, TheHands
    <3>2. DOMAIN R.ch = 1 .. Len(R.ch)
      BY <1>3
    <3> HIDE DEF R, h
    <3> QED  BY <1>3, <1>4, <1>7, <2>3, <3>1, <3>2 DEF ReportsHold
  <2>6. \A g \in Hands : g[1] = a => Free(g)' \/ Due(a, g)'
    <3>1. ASSUME NEW g \in Hands, g[1] = a, g # h PROVE Free(g)' \/ Due(a, g)'
      <4>1. at'[g] = at[g] /\ g[2] # p
        BY <1>6, <2>4, <3>1
      <4>2. Answered(a, g[2]) => Answered(a, g[2])'
        BY <2>3 DEF Answered
      <4>3. g[2] \in Provs => race'[a].gor[g[2]] = R.gor[g[2]]
        BY <1>3, <2>3, <4>1
      <4> QED  BY <1>0, <1>2, <1>5, <3>1, <4>1, <4>2, <4>3 DEF Free, Due
    <3>2. Free(h)' \/ Due(a, h)'
      <4>1. CASE x = "work"
        <5>1. race'[a].gor[p] = "work"
          BY <1>3, <2>3, <4>1
        <5> QED  BY <1>0, <1>2, <5>1 DEF Due
      <4>2. CASE at'[h] \in {"none", "push"}
        BY <4>2 DEF Free
      <4>3. CASE at' = at /\ R.gor[p] = "wait"
        <5>1. ~Answered(a, p)
          BY <1>3, <1>7 DEF Answered
        <5>2. h[1] = a /\ h[2] = p
          OBVIOUS
        <5> QED  BY <1>0, <1>5, <4>3, <5>1, <5>2 DEF Free
      <4> QED  BY <2>2, <4>1, <4>2, <4>3
    <3> QED  BY <3>1, <3>2
  <2> QED  BY <1>0, <1>2, <2>3, <2>5, <2>6, HoldsInRace
<1>10. CASE RacerSends(a, p) \/ (RacerFails(a, p) /\ race'[a].ch # R.ch)
  <2>1. PICK b \in BOOLEAN : /\ race' = [race EXCEPT ![a].gor[p] = "sent", ![a].ch = Append(@, [p |-> p, ok |-> b])]
                             /\ IF b THEN at' = at /\ at[h] = "out" ELSE at' = [at EXCEPT ![h] = "none"]
    <3>1. CASE RacerSends(a, p)
      BY <3>1 DEF RacerSends, vars
    <3>2. CASE RacerFails(a, p) /\ race'[a].ch # R.ch
      <4>1. at' = [at EXCEPT ![h] = "none"]
        BY <1>0, <3>2, GiveUpAt DEF RacerFails
      <4>2. race' # [race EXCEPT ![a].gor[p] = "quit"]
        BY <1>0, <1>3, <3>2 DEF RaceRec
      <4> QED  BY <3>2, <4>1, <4>2 DEF RacerFails
    <3> QED  BY <1>10, <3>1, <3>2
  <2> DEFINE m == [p |-> p, ok |-> b]
  <2>2. m \in Reports /\ m.p = p /\ m.ok = b
    BY DEF Reports
  <2>3. /\ race'[a].gor = [R.gor EXCEPT ![p] = "sent"] /\ race'[a].ch = Append(R.ch, m) /\ race'[a].win = R.win
        /\ race'[a].drain = R.drain
    BY <1>0, <1>3, <2>1 DEF RaceRec
  <2> HIDE DEF m
  <2>4. \A g \in Hands : g # h => at'[g] = at[g]
    BY <1>0, <2>1
  <2>5. /\ DOMAIN race'[a].ch = 1 .. Len(R.ch) + 1 /\ race'[a].ch[Len(R.ch) + 1] = m
        /\ \A i \in 1 .. Len(R.ch) : race'[a].ch[i] = R.ch[i]
        /\ Len(R.ch) \in Nat
    <3> HIDE DEF R
    <3> QED  BY <1>3, <2>2, <2>3
  <2>6. \A q \in Provs : q # p => race'[a].gor[q] = R.gor[q] /\ at'[<<a, q>>] = at[<<a, q>>]
    BY <1>3, <1>8, <2>3, <2>4, TheHands
  <2>7. race'[a].gor[p] = "sent" /\ (b => at'[h] = "out")
    BY <1>3, <2>1, <2>3
  <2>8. ReportsHold(a)'
    <3>1. race'[a].win # Nil => race'[a].gor[race'[a].win] = "sent" /\ at'[<<a, race'[a].win>>] = "out"
      BY <1>3, <1>4, <1>7, <2>3, <2>6
    <3>2. ASSUME NEW i \in 1 .. Len(R.ch)
          PROVE  LET r == race'[a].ch[i] IN
                 /\ race'[a].gor[r.p] = "sent" /\ r.p # race'[a].win
                 /\ r.ok => at'[<<a, r.p>>] = "out"
                 /\ \A j \in DOMAIN race'[a].ch : race'[a].ch[j].p = r.p => i = j
      <4>1. R.ch[i].p \in Provs /\ R.ch[i].p # p
        BY <1>3, <1>7
      <4>2. ASSUME NEW j \in 1 .. Len(R.ch) + 1, race'[a].ch[j].p = R.ch[i].p PROVE i = j
        <5>1. j # Len(R.ch) + 1
          BY <2>2, <2>5, <4>1, <4>2
        <5>2. j \in 1 .. Len(R.ch)
          BY <2>5, <5>1
        <5> QED  BY <1>3, <2>5, <4>2, <5>2
      <4> QED  BY SMTT(90), <1>3, <2>3, <2>5, <2>6, <4>1, <4>2
    <3>3. LET r == race'[a].ch[Len(R.ch) + 1] IN
                 /\ race'[a].gor[r.p] = "sent" /\ r.p # race'[a].win
                 /\ r.ok => at'[<<a, r.p>>] = "out"
                 /\ \A j \in DOMAIN race'[a].ch : race'[a].ch[j].p = r.p => Len(R.ch) + 1 = j
      <4>1. ASSUME NEW j \in 1 .. Len(R.ch) + 1, race'[a].ch[j].p = p PROVE Len(R.ch) + 1 = j
        <5>1. ASSUME j \in 1 .. Len(R.ch) PROVE FALSE
          BY <1>7, <2>5, <4>1, <5>1
        <5> QED  BY <2>5, <5>1
      <4> QED  BY <1>7, <2>2, <2>3, <2>5, <2>7, <4>1
    <3>4. \A i \in DOMAIN race'[a].ch : i \in 1 .. Len(R.ch) \/ i = Len(R.ch) + 1
      BY <2>5
    <3> QED  BY ZenonT(60), <3>1, <3>2, <3>3, <3>4 DEF ReportsHold
  <2>9. \A g \in Hands : g[1] = a => Free(g)' \/ Due(a, g)'
    <3>1. ASSUME NEW g \in Hands, g[1] = a, g # h PROVE Free(g)' \/ Due(a, g)'
      <4>1. at'[g] = at[g] /\ g[2] # p
        BY <1>6, <2>4, <3>1
      <4>2. Answered(a, g[2]) => Answered(a, g[2])'
        <5>1. \A i \in DOMAIN R.ch : i \in DOMAIN race'[a].ch /\ race'[a].ch[i] = R.ch[i]
          BY SMTT(90), <1>3, <2>5
        <5> QED  BY <2>3, <5>1 DEF Answered
      <4>3. g[2] \in Provs => race'[a].gor[g[2]] = R.gor[g[2]]
        BY <1>3, <2>3, <4>1
      <4> QED  BY <1>0, <1>2, <1>5, <3>1, <4>1, <4>2, <4>3 DEF Free, Due
    <3>2. Free(h)' \/ Due(a, h)'
      <4>1. CASE b = FALSE
        BY <1>0, <2>1, <4>1 DEF Free
      <4>2. CASE b = TRUE
        <5>1. Answered(a, p)'
          <6>1. race'[a].ch[Len(R.ch) + 1] = [p |-> p, ok |-> TRUE]
            BY <2>5, <4>2 DEF m
          <6>2. Len(R.ch) + 1 \in DOMAIN race'[a].ch
            BY <2>5
          <6> QED  BY <6>1, <6>2 DEF Answered
        <5> QED  BY <1>0, <1>2, <5>1 DEF Due
      <4> QED  BY <4>1, <4>2
    <3> QED  BY <3>1, <3>2
  <2> QED  BY <1>0, <1>2, <2>3, <2>8, <2>9, HoldsInRace
<1> QED  BY <1>9, <1>10 DEF RacerNext

LEMMA ReceiveHolds ==
    ASSUME CallTypes, TypeOK, NEW a \in Callers, Holds(a), RaceReceives(a)
    PROVE  Holds(a)'
<1> DEFINE R == race[a]
           s == Tail(R.ch)
           r == Head(R.ch)
           h == <<a, r.p>>
<1>0. /\ race \in [Callers -> RaceRec] /\ at \in [Hands -> Stages] /\ call' = call
      /\ call[a].pc = "race" /\ R.ch # <<>>
  BY DEF CallTypes, TypeOK, RaceReceives, At
<1>1. ~call[a].done /\ ~R.drain
  BY DEF Holds
<1>2. /\ R \in RaceRec /\ R.ch \in Seq(Reports)
      /\ R.gor \in [Provs -> {"off", "wait", "work", "sent", "quit"}]
      /\ R.win \in Provs \cup {Nil} /\ Nil \notin Provs
      /\ \A i \in 1 .. Len(R.ch) :
                 /\ R.ch[i] \in Reports /\ R.ch[i].p \in Provs
                 /\ R.gor[R.ch[i].p] = "sent" /\ R.ch[i].p # R.win
                 /\ R.ch[i].ok => at[<<a, R.ch[i].p>>] = "out"
                 /\ \A j \in 1 .. Len(R.ch) : R.ch[j].p = R.ch[i].p => i = j
  BY Reported
<1>3. R.win # Nil => R.gor[R.win] = "sent" /\ at[<<a, R.win>>] = "out"
  BY DEF Holds, ReportsHold
<1>4. \A g \in Hands : g[1] = a => Free(g) \/ (g[2] \in Provs /\ (R.gor[g[2]] = "work" \/ Answered(a, g[2])))
  BY <1>0 DEF Holds, Due
<1>5. /\ Len(R.ch) \in Nat /\ Len(R.ch) >= 1 /\ r = R.ch[1] /\ Len(s) = Len(R.ch) - 1 /\ s \in Seq(Reports)
      /\ DOMAIN s = 1 .. Len(R.ch) - 1 /\ DOMAIN R.ch = 1 .. Len(R.ch)
      /\ \A i \in 1 .. Len(R.ch) - 1 : s[i] = R.ch[i + 1] /\ i + 1 \in 1 .. Len(R.ch)
  <2> HIDE DEF R
  <2> QED  BY <1>0, <1>2
<1>6. /\ r \in Reports /\ r.p \in Provs /\ R.gor[r.p] = "sent" /\ r.p # R.win /\ (r.ok => at[h] = "out")
      /\ r.ok \in BOOLEAN
  <2>1. 1 \in 1 .. Len(R.ch)
    BY <1>5
  <2>2. \A x \in Reports : x.ok \in BOOLEAN
    BY DEF Reports
  <2>3. r = R.ch[1]
    BY <1>5
  <2>4. /\ R.ch[1] \in Reports /\ R.ch[1].p \in Provs /\ R.gor[R.ch[1].p] = "sent" /\ R.ch[1].p # R.win
        /\ R.ch[1].ok => at[<<a, R.ch[1].p>>] = "out"
    <3> HIDE DEF R
    <3> QED  BY <1>2, <2>1
  <2> HIDE DEF R, r
  <2> QED  BY <2>2, <2>3, <2>4
<1>7. \A i \in DOMAIN s : /\ s[i].p \in Provs /\ s[i].p # r.p /\ R.gor[s[i].p] = "sent" /\ s[i].p # R.win
                          /\ s[i].ok => at[<<a, s[i].p>>] = "out"
                          /\ \A j \in DOMAIN s : s[j].p = s[i].p => i = j
  <2> SUFFICES ASSUME NEW i \in 1 .. Len(R.ch) - 1
               PROVE  /\ s[i].p \in Provs /\ s[i].p # r.p /\ R.gor[s[i].p] = "sent" /\ s[i].p # R.win
                      /\ s[i].ok => at[<<a, s[i].p>>] = "out"
                      /\ \A j \in 1 .. Len(R.ch) - 1 : s[j].p = s[i].p => i = j
    BY <1>5
  <2>1. s[i] = R.ch[i + 1] /\ i + 1 \in 1 .. Len(R.ch) /\ i + 1 # 1 /\ 1 \in 1 .. Len(R.ch)
    BY <1>5
  <2>2. s[i].p # r.p
    <3>1. R.ch[i + 1].p = R.ch[1].p => i + 1 = 1
      <4> HIDE DEF R
      <4> QED  BY <1>2, <2>1
    <3> QED  BY <1>5, <2>1, <3>1
  <2>3. ASSUME NEW j \in 1 .. Len(R.ch) - 1, s[j].p = s[i].p PROVE i = j
    <3>1. s[j] = R.ch[j + 1] /\ j + 1 \in 1 .. Len(R.ch)
      BY <1>5
    <3>2. R.ch[j + 1].p = R.ch[i + 1].p
      BY <2>1, <2>3, <3>1
    <3>3. i + 1 = j + 1
      <4> HIDE DEF R, r, s
      <4> QED  BY <1>2, <2>1, <3>1, <3>2
    <3> QED  BY <3>3
  <2> HIDE DEF R, r, s
  <2> QED  BY <1>2, <2>1, <2>2, <2>3
<1>8. h \in Hands
  BY <1>6, TheHands
<1>9. race'[a].gor = R.gor /\ race'[a].ch = s /\ ~race'[a].drain
  <2>1. \/ race' = [race EXCEPT ![a].ch = Tail(@), ![a].win = r.p, ![a].cancel = TRUE]
        \/ race' = [race EXCEPT ![a].ch = Tail(@)]
        \/ race' = [race EXCEPT ![a].ch = Tail(@), ![a].failed = TRUE]
    BY DEF RaceReceives
  <2> HIDE DEF r
  <2>2. \/ race'[a] = [R EXCEPT !.ch = Tail(R.ch), !.win = r.p, !.cancel = TRUE]
        \/ race'[a] = [R EXCEPT !.ch = Tail(R.ch)]
        \/ race'[a] = [R EXCEPT !.ch = Tail(R.ch), !.failed = TRUE]
    BY <1>0, <2>1
  <2> DEFINE t == Tail(R.ch)
  <2>3. s = t
    OBVIOUS
  <2> HIDE DEF R, s, t
  <2>4. \/ race'[a] = [R EXCEPT !.ch = t, !.win = r.p, !.cancel = TRUE]
        \/ race'[a] = [R EXCEPT !.ch = t]
        \/ race'[a] = [R EXCEPT !.ch = t, !.failed = TRUE]
    BY <2>2 DEF t
  <2> QED  BY ZenonT(60), <1>1, <1>2, <2>3, <2>4 DEF RaceRec
<1>10. \/ r.ok /\ R.win = Nil /\ race'[a].win = r.p /\ at' = at
       \/ r.ok /\ R.win # Nil /\ race'[a].win = R.win /\ \E x \in {"none", "push"} : at' = [at EXCEPT ![h] = x]
       \/ ~r.ok /\ race'[a].win = R.win /\ at' = at
  <2>1. \/ r.ok /\ R.win = Nil /\ race' = [race EXCEPT ![a].ch = Tail(@), ![a].win = r.p, ![a].cancel = TRUE] /\ UNCHANGED vars
        \/ r.ok /\ R.win # Nil /\ race' = [race EXCEPT ![a].ch = Tail(@)] /\ PutCheck(h)
        \/ ~r.ok /\ race' = [race EXCEPT ![a].ch = Tail(@), ![a].failed = TRUE] /\ UNCHANGED vars
    BY DEF RaceReceives
  <2>2. PutCheck(h) => \E x \in {"none", "push"} : at' = [at EXCEPT ![h] = x]
    BY <1>8, PutCheckAt
  <2>3. /\ race' = [race EXCEPT ![a].ch = Tail(@), ![a].win = r.p, ![a].cancel = TRUE] => race'[a].win = r.p
        /\ race' = [race EXCEPT ![a].ch = Tail(@)] => race'[a].win = R.win
        /\ race' = [race EXCEPT ![a].ch = Tail(@), ![a].failed = TRUE] => race'[a].win = R.win
    <3> HIDE DEF r
    <3> QED  BY <1>0, <1>2 DEF RaceRec
  <2>4. UNCHANGED vars => at' = at
    BY DEF vars
  <2> HIDE DEF r, h
  <2> QED  BY <2>1, <2>2, <2>3, <2>4
<1>11. \A q \in Provs : q # r.p => at'[<<a, q>>] = at[<<a, q>>]
  <2>1. \A q \in Provs : q # r.p => <<a, q>> # h
    OBVIOUS
  <2> HIDE DEF h
  <2> QED  BY <1>0, <1>10, <2>1, TheHands
<1>12. ReportsHold(a)'
  <2>1. race'[a].win # Nil => race'[a].gor[race'[a].win] = "sent" /\ at'[<<a, race'[a].win>>] = "out"
    <3>1. CASE r.ok /\ R.win = Nil /\ race'[a].win = r.p /\ at' = at
      BY <1>6, <1>9, <3>1
    <3>2. CASE race'[a].win = R.win
      BY <1>2, <1>3, <1>6, <1>9, <1>11, <3>2
    <3> QED  BY <1>10, <3>1, <3>2
  <2>2. \A i \in DOMAIN s : s[i].p # race'[a].win
    BY <1>7, <1>10
  <2> HIDE DEF s, R, r
  <2> QED  BY <1>7, <1>9, <1>11, <2>1, <2>2 DEF ReportsHold
<1>13. \A g \in Hands : g[1] = a => Free(g)' \/ Due(a, g)'
  <2> SUFFICES ASSUME NEW g \in Hands, g[1] = a PROVE Free(g)' \/ Due(a, g)'
    OBVIOUS
  <2>1. CASE g = h
    <3>1. CASE r.ok /\ R.win = Nil /\ race'[a].win = r.p /\ at' = at
      <4>1. g[2] = r.p
        BY <2>1
      <4> HIDE DEF r, h, R
      <4>2. race'[a].win = g[2]
        BY <3>1, <4>1
      <4>3. g[2] \in Provs
        BY <1>6, <4>1
      <4> QED  BY <1>0, <4>2, <4>3 DEF Due, Answered
    <3>2. CASE \E x \in {"none", "push"} : at' = [at EXCEPT ![h] = x]
      BY <1>0, <1>8, <2>1, <3>2 DEF Free
    <3>3. CASE ~r.ok /\ race'[a].win = R.win /\ at' = at
      <4>1. ~Answered(a, r.p)
        <5>1. ASSUME NEW i \in DOMAIN R.ch, R.ch[i] = [p |-> r.p, ok |-> TRUE] PROVE FALSE
          <6>1. R.ch[i].p = r.p /\ R.ch[i].ok = TRUE
            BY <5>1
          <6>2. i = 1
            <7>1. 1 \in 1 .. Len(R.ch) /\ i \in 1 .. Len(R.ch)
              BY <1>5
            <7>2. R.ch[i].p = R.ch[1].p
              BY <1>5, <6>1
            <7> HIDE DEF R, r
            <7> QED  BY <1>2, <7>1, <7>2
          <6> QED  BY <1>5, <3>3, <6>1, <6>2
        <5> QED  BY <1>6, <5>1 DEF Answered
      <4>2. g[2] = r.p /\ R.gor[r.p] # "work"
        BY <1>6, <2>1
      <4> QED  BY <1>4, <3>3, <4>1, <4>2 DEF Free
    <3> QED  BY <1>10, <3>1, <3>2, <3>3
  <2>2. CASE g # h
    <3>1. at'[g] = at[g]
      BY <1>0, <1>10, <2>2
    <3>2. g[2] \in Provs => g[2] # r.p
      BY <2>2, HandsOf, HandsDiffer
    <3>3. ASSUME g[2] \in Provs, Answered(a, g[2]) PROVE Answered(a, g[2])'
      <4>1. CASE R.win = g[2]
        <5>1. race'[a].win = R.win
          BY SMTT(30), <1>2, <1>10, <3>3, <4>1
        <5> QED  BY <4>1, <5>1 DEF Answered
      <4>2. ASSUME NEW i \in DOMAIN R.ch, R.ch[i] = [p |-> g[2], ok |-> TRUE] PROVE Answered(a, g[2])'
        <5>1. R.ch[i].p = g[2]
          BY <4>2
        <5>2. i # 1
          BY <1>5, <3>2, <3>3, <5>1
        <5>3. i - 1 \in DOMAIN s /\ s[i - 1] = R.ch[i]
          <6>1. i \in 1 .. Len(R.ch)
            BY <1>5
          <6> HIDE DEF R, s
          <6>2. i - 1 \in 1 .. Len(R.ch) - 1 /\ (i - 1) + 1 = i
            BY <1>5, <5>2, <6>1
          <6> QED  BY <1>5, <6>2
        <5> QED  BY <1>9, <4>2, <5>3 DEF Answered
      <4> QED  BY <3>3, <4>1, <4>2 DEF Answered
    <3> QED  BY <1>0, <1>4, <1>9, <3>1, <3>3 DEF Free, Due
  <2> QED  BY <2>1, <2>2
<1> QED  BY <1>0, <1>1, <1>9, <1>12, <1>13, HoldsInRace

LEMMA RaceEndHolds ==
    ASSUME CallTypes, TypeOK, NEW a \in Callers, Holds(a), RaceEnds(a)
    PROVE  Holds(a)'
<1> DEFINE R == race[a]
<1>0. /\ call \in [Callers -> CallRec] /\ call[a] \in CallRec /\ race \in [Callers -> RaceRec]
      /\ call[a].pc = "race" /\ Settled(a) /\ R.ch = <<>> /\ RacersDone(a)
      /\ race'[a] = NoRace /\ at' = at
  BY DEF CallTypes, RaceEnds, At, vars
<1>1. ~call[a].done
  BY DEF Holds
<1>2. R.win \in Provs \cup {Nil} /\ Nil \notin Provs
  BY Reported
<1>3. R.win # Nil => at[<<a, R.win>>] = "out" /\ <<a, R.win>> \in Hands
  BY <1>2, TheHands DEF Holds, ReportsHold
<1>4. \A h \in Hands : h[1] = a => at[h] = "none" \/ (R.win # Nil /\ h = <<a, R.win>>)
  <2> SUFFICES ASSUME NEW h \in Hands, h[1] = a, ~(R.win # Nil /\ h = <<a, R.win>>) PROVE at[h] = "none"
    OBVIOUS
  <2>1. ASSUME h[2] \in Provs PROVE R.gor[h[2]] # "work" /\ ~Answered(a, h[2])
    <3>1. h = <<a, h[2]>>
      <4>1. \E p \in Provs : h = <<a, p>>
        BY <2>1, HandsOf, HandsDiffer
      <4> QED  BY <4>1
    <3>2. DOMAIN R.ch = {}
      BY <1>0
    <3>3. R.win # h[2]
      BY <1>2, <2>1, <3>1
    <3>4. R.gor[h[2]] # "work"
      BY <1>0, <2>1 DEF RacersDone
    <3> QED  BY <3>2, <3>3, <3>4 DEF Answered
  <2>2. Free(h)
    BY <1>0, <2>1 DEF Holds, Due, Main
  <2>3. ASSUME at[h] \in {"push", "unslot"} PROVE FALSE
    <3>1. h[2] \in Provs /\ R.gor[h[2]] = "quit"
      BY <1>0, <2>3 DEF Settled
    <3>2. h = <<a, h[2]>>
      <4>1. \E p \in Provs : h = <<a, p>>
        BY <3>1, HandsOf, HandsDiffer
      <4> QED  BY <4>1
    <3>3. at[<<a, h[2]>>] = "none"
      BY <1>0, <3>1 DEF RacersDone
    <3> QED  BY <2>3, <3>2, <3>3
  <2> QED  BY <2>2, <2>3 DEF Free
<1>5. CASE R.win # Nil
  <2> DEFINE h == <<a, R.win>>
  <2>1. call'[a] = Got(h, call[a])
    BY <1>0, <1>5 DEF RaceEnds
  <2>2. h \in Hands /\ at'[h] = "out" /\ h[1] = a /\ h # Pref(a)
    BY <1>0, <1>2, <1>3, <1>5, HandsDiffer
  <2>3. \A g \in Hands : g[1] = a => Free(g)' \/ g = h
    BY <1>0, <1>4 DEF Free
  <2> HIDE DEF h
  <2>4. call'[a].pc \in {"run", "prefer"} /\ call'[a].cur = h /\ ~call'[a].done
    BY <1>0, <1>1, <2>1, <2>2, GotIs
  <2> QED  BY <1>0, <2>2, <2>3, <2>4, HoldsWithOne
<1>6. CASE R.win = Nil
  <2>1. PICK e \in {"conn", "stop"} : call'[a] = GotNone(call[a], e)
    BY <1>0, <1>6 DEF RaceEnds
  <2>2. \/ call'[a].pc \in {"idle", "scan"} /\ ~call'[a].done
        \/ call'[a].pc = "back" /\ call'[a].cur = Nil /\ ~call'[a].done
    <3>1. CASE call[a].why = "first"
      <4> DEFINE c == [call[a] EXCEPT !.round = @ + 1]
      <4>0. call[a] \in CallRec
        BY <1>0
      <4>1. c \in CallRec /\ c.done = call[a].done
        BY SMTT(30), <4>0 DEF CallRec
      <4>2. call'[a] = NextRound(c)
        BY <2>1, <3>1 DEF GotNone
      <4> HIDE DEF c
      <4> QED  BY <1>1, <4>1, <4>2, NextRoundIs
    <3>2. CASE call[a].why # "first"
      <4>1. call'[a] = [call[a] EXCEPT !.pc = "back", !.err = e, !.cur = Nil]
        BY <2>1, <3>2 DEF GotNone
      <4> QED  BY <1>0, <1>1, <4>1 DEF CallRec
    <3> QED  BY <3>1, <3>2
  <2>3. \A h \in Hands : h[1] = a => at'[h] = "none"
    BY <1>0, <1>4, <1>6
  <2> QED  BY <1>0, <2>2, <2>3, HoldsWithNothing, HoldsWithOne DEF Free
<1> QED  BY <1>5, <1>6

(* A call moves hands of its own only.                                       *)
LEMMA OwnHandsOnly ==
    ASSUME CallTypes, TypeOK, NEW a \in Callers, Holds(a),
           Begin(a) \/ CallNext(a) \/ \E p \in Provs : RacerNext(a, p),
           NEW g \in Hands, g[1] # a
    PROVE  at'[g] = at[g]
<1>0. /\ Main(a) \in Hands /\ Pref(a) \in Hands /\ \A p \in Provs : <<a, p>> \in Hands
      /\ g # Main(a) /\ g # Pref(a) /\ \A p \in Provs : g # <<a, p>>
  BY TheHands DEF Main, Pref
<1>1. ASSUME NEW h \in Hands, HandNext(h), h[1] = a PROVE at'[g] = at[g]
  BY <1>1, OneHandMoves
<1>2. call[a].pc \in {"run", "prefer", "back"} /\ call[a].cur # Nil => call[a].cur \in Hands /\ call[a].cur[1] = a
  <2>1. call[a].cur \in Hands \cup {Nil}
    BY DEF CallTypes, CallRec
  <2> QED  BY <2>1 DEF Holds, CurIsOut
<1>3. call[a].pc \in {"run", "prefer"} => call[a].cur # Nil
  BY NamesAssumption DEF CallTypes, HasCur
<1>4. CASE at' = at
  BY <1>4
<1>5. CASE \E p \in Provs : RacerNext(a, p)
  <2>1. PICK p \in Provs : RacerNext(a, p)
    BY <1>5
  <2>2. HandNext(<<a, p>>) \/ at' = at
    BY <2>1 DEF RacerNext, RacerTakes, RacerQuits, RacerFails, RacerSends, RacerPutsBack, HandNext, vars
  <2>3. <<a, p>>[1] = a
    OBVIOUS
  <2> QED  BY <1>0, <1>1, <2>2, <2>3
<1>6. CASE ScanTake(a) \/ WorkFails(a)
  <2>1. HandNext(Main(a)) /\ Main(a)[1] = a
    BY <1>6 DEF ScanTake, WorkFails, Eligible, HandNext, Main
  <2> QED  BY <1>0, <1>1, <2>1
<1>7. CASE PreferTake(a) \/ PreferFails(a)
  <2>1. HandNext(Pref(a)) /\ Pref(a)[1] = a
    BY <1>7 DEF PreferTake, PreferFails, HandNext, Pref
  <2> QED  BY <1>0, <1>1, <2>1
<1>8. CASE RaceReceives(a)
  <2>1. Head(race[a].ch).p \in Provs
    BY <1>8, FirstReport DEF RaceReceives
  <2>2. at' = at \/ HandNext(<<a, Head(race[a].ch).p>>)
    BY <1>8 DEF RaceReceives, HandNext, vars
  <2>3. <<a, Head(race[a].ch).p>>[1] = a
    OBVIOUS
  <2> QED  BY <1>0, <1>1, <2>1, <2>2, <2>3
<1>9. CASE RunConnError(a) \/ RunDecode(a) \/ RunPanics(a) \/ PreferGot(a)
  <2>1. call[a].pc \in {"run", "prefer"} /\ HandNext(call[a].cur)
    BY <1>9 DEF RunConnError, RunDecode, RunPanics, PreferGot, Attempt, At, HandNext
  <2> QED  BY <1>1, <1>2, <1>3, <2>1
<1>10. CASE GoBack(a)
  <2>1. call[a].pc = "back" /\ (at' = at \/ (call[a].cur # Nil /\ HandNext(call[a].cur)))
    BY <1>10 DEF GoBack, At, HandNext, vars
  <2> QED  BY <1>1, <1>2, <2>1
<1>11. CASE \/ Begin(a) \/ ScanSkip(a) \/ WorkGot(a) \/ RaceStart(a) \/ RaceEnds(a) \/ RaceAbandons(a)
            \/ RunStops(a) \/ RunOk(a) \/ RunNotFound(a) \/ RunRefused(a) \/ PreferGivesUp(a)
            \/ Returns(a) \/ Excludes(a)
  <2>1. at' = at
    BY <1>11 DEF Begin, ScanSkip, WorkGot, RaceStart, RaceEnds, RaceAbandons, RunStops, RunOk, RunNotFound,
                 RunRefused, PreferGivesUp, Returns, Excludes, vars
  <2> QED  BY <2>1
<1> QED  BY <1>5, <1>6, <1>7, <1>8, <1>9, <1>10, <1>11 DEF CallNext

(* Nor does it touch what another call remembers.                            *)
LEMMA OwnRecordsOnly ==
    ASSUME CallTypes, TypeOK, NEW a \in Callers,
           Begin(a) \/ CallNext(a) \/ \E p \in Provs : RacerNext(a, p),
           NEW b \in Callers, b # a
    PROVE  call'[b] = call[b] /\ race'[b] = race[b]
<1>0. call \in [Callers -> CallRec] /\ race \in [Callers -> RaceRec]
  BY DEF CallTypes
<1>1. call' = call \/ \E c : call' = [call EXCEPT ![a] = c]
  <2>1. CASE Begin(a)
    BY <2>1 DEF Begin
  <2>2. CASE CallNext(a)
    BY <2>2, CallStep
  <2>3. CASE \E p \in Provs : RacerNext(a, p)
    BY <2>3 DEF RacerNext, RacerTakes, RacerQuits, RacerFails, RacerSends, RacerPutsBack
  <2> QED  BY <2>1, <2>2, <2>3
<1>2. race' = race \/ \E r : race' = [race EXCEPT ![a] = r]
  <2>1. RaceMoves(a) \/ race' = race
    BY DEF CallNext, RaceMoves, Begin, ScanTake, ScanSkip, WorkGot, WorkFails, RunStops, RunOk, RunNotFound,
                  RunConnError, RunRefused, RunDecode, RunPanics, PreferTake, PreferGivesUp, PreferFails,
                  PreferGot, GoBack, Returns, Excludes
  <2> QED  BY <2>1, RaceStep
<1> QED  BY <1>0, <1>1, <1>2

LEMMA HoldsStep ==
    ASSUME CallTypes, TypeOK, HoldsInv, OutOfTimeNever, [FNext]_allVars
    PROVE  HoldsInv'
<1>0. at \in [Hands -> Stages] /\ \A b \in Callers : \A p \in Provs : <<b, p>> \in Hands
  BY TheHands DEF TypeOK
<1>1. ASSUME NEW a \in Callers, Begin(a) \/ CallNext(a) \/ \E p \in Provs : RacerNext(a, p) PROVE HoldsInv'
  <2>0. Holds(a)
    BY DEF HoldsInv
  <2>1. Holds(a)'
    <3>1. ~call[a].done
      BY <2>0 DEF Holds
    <3>2. ~RaceAbandons(a)
      BY <3>1 DEF RaceAbandons
    <3> QED  BY <1>1, <2>0, <3>2, ScanHolds, RunHolds, PreferHolds, EndHolds, RacerHolds, ReceiveHolds, RaceEndHolds
             DEF CallNext
  <2>2. ASSUME NEW b \in Callers, b # a PROVE Holds(b)'
    <3>1. call'[b] = call[b] /\ race'[b] = race[b]
      BY <1>1, <2>2, OwnRecordsOnly
    <3>2. \A h \in Hands : h[1] = b => at'[h] = at[h]
      BY <1>1, <2>0, <2>2, OwnHandsOnly
    <3>3. \A h \in Hands : h[1] = b => (Free(h) => Free(h)')
      BY <3>2 DEF Free
    <3>4. Holds(b)
      BY DEF HoldsInv
    <3> QED  BY <1>0, <3>1, <3>2, <3>3, <3>4, HoldsWhileKept
  <2> QED  BY <2>1, <2>2 DEF HoldsInv
<1>2. ASSUME NEW a \in Callers, Deadline(a) \/ Drain(a) \/ DrainEnds(a) PROVE FALSE
  <2>1. ~race[a].drain
    BY DEF HoldsInv, Holds
  <2> QED  BY <1>2, <2>1 DEF Deadline, Drain, DrainEnds, OutOfTimeNever
<1>3. ASSUME UNCHANGED <<call, race>>,
             \A h \in Hands : h[1] \in Callers =>
                /\ Free(h) => Free(h)'
                /\ at[h] \in {"none", "out"} => at'[h] = at[h]
      PROVE  HoldsInv'
  <2>1. ASSUME NEW b \in Callers PROVE Holds(b)'
    <3>1. Holds(b) /\ call'[b] = call[b] /\ race'[b] = race[b]
      BY <1>3 DEF HoldsInv
    <3>2. ASSUME NEW h \in Hands, h[1] = b
          PROVE  /\ Free(h) => Free(h)'
                 /\ at[h] \in {"none", "out"} => at'[h] = at[h]
      <4>1. h[1] \in Callers
        BY <3>2
      <4> QED  BY <1>3, <4>1
    <3> QED  BY <1>0, <3>1, <3>2, HoldsWhileKept
  <2> QED  BY <2>1 DEF HoldsInv
<1>4. ASSUME NEW w \in Workers, WorkerFails(w) \/ WorkerEnds(w) \/ \E p \in Provs : WorkerTakes(w, p)
      PROVE  HoldsInv'
  <2>1. <<w, "stat">> \in Hands /\ HandNext(<<w, "stat">>) /\ UNCHANGED <<call, race>>
    BY <1>4 DEF WorkerFails, WorkerEnds, WorkerTakes, HandNext
  <2>2. ASSUME NEW h \in Hands, h # <<w, "stat">> PROVE at'[h] = at[h]
    BY <2>1, <2>2, OneHandMoves
  <2>3. \A h \in Hands : h[1] \in Callers => h # <<w, "stat">>
    OBVIOUS
  <2> QED  BY <1>3, <2>1, <2>2, <2>3 DEF Free
<1>5. ASSUME NEW h \in Hands, PoolSteps(h) PROVE HoldsInv'
  <2>1. UNCHANGED <<call, race>>
    BY <1>5 DEF PoolSteps
  <2> QED  BY <1>3, <1>5, <2>1, PoolKeepsHands
<1>6. CASE PoolUpkeep \/ UNCHANGED allVars
  <2>1. at' = at /\ UNCHANGED <<call, race>>
    BY <1>6 DEF PoolUpkeep, Upkeep, ReapTick, ReapPool, CloseBegin, CloseIdle, CloseActive, hands, allVars, vars
  <2> QED  BY <1>3, <2>1 DEF Free
<1> QED  BY <1>1, <1>2, <1>4, <1>5, <1>6 DEF FNext

LEMMA HoldsInit == FInit => HoldsInv
<1> SUFFICES ASSUME FInit, NEW a \in Callers PROVE Holds(a)
    BY DEF HoldsInv
<1>1. call[a] = NoCall /\ race[a] = NoRace /\ \A h \in Hands : at[h] = "none"
  BY DEF FInit, Init
<1>2. call[a].pc = "idle" /\ ~call[a].done
  BY <1>1 DEF NoCall
<1>3. ReportsHold(a) /\ ~race[a].drain
  <2>1. race[a].ch = <<>> /\ race[a].win = Nil /\ ~race[a].drain
    BY <1>1 DEF NoRace
  <2> QED  BY <2>1 DEF ReportsHold
<1> QED  BY <1>1, <1>2, <1>3 DEF Holds, Free, CurIsOut

(* client.go:282-286, 479-486: for any providers, callers, workers, retries   *)
(* and faults other than a deadline that passes, a call that has returned     *)
(* holds no slot and no connection: neither a lost race, nor a failed dial,   *)
(* nor the swap of a retry's connection keeps one.  With deadlines it does    *)
(* not hold (README, section 3).                                              *)
THEOREM NothingLeaksInTime == OutOfTimeNever => (FSpec => []NoSlotLeak)
<1>1. HoldsInv => NoSlotLeak
  BY DEF HoldsInv, Holds, NoSlotLeak
<1>2. IInv => TypeOK
  BY DEF IInv
<1>3. CallTypes /\ IInv /\ HoldsInv /\ OutOfTimeNever /\ [FNext]_allVars => HoldsInv'
  BY <1>2, HoldsStep
<1>4. ASSUME OutOfTimeNever PROVE CallTypes /\ IInv /\ HoldsInv /\ [FNext]_allVars => HoldsInv'
  BY <1>3, <1>4
<1> SUFFICES ASSUME OutOfTimeNever PROVE FSpec => []NoSlotLeak
  OBVIOUS
<1>5. CallTypes /\ IInv /\ HoldsInv /\ [FNext]_allVars => HoldsInv'
  BY <1>4
<1> QED  BY <1>1, <1>5, HoldsInit, ClientInvariant, PTL DEF FSpec
===============================================================================
