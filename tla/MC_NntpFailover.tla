----------------------------- MODULE MC_NntpFailover -----------------------------
(***************************************************************************)
(* Instances of NntpFailover for TLC: two providers of one connection      *)
(* each, on their own backbones or on a shared one.                        *)
(***************************************************************************)
EXTENDS NntpFailover, TLC

CONSTANTS P1, P2

MCOrder == <<P1, P2>>
OneEach == P1 :> 1 @@ P2 :> 1
TwoOne  == P1 :> 2 @@ P2 :> 1
MCHands == (Callers \X ({"main", "pref"} \cup Provs)) \cup (Workers \X {"stat"})
NoBackbone     == P1 :> Nil @@ P2 :> Nil
SharedBackbone == P1 :> "bb" @@ P2 :> "bb"
CallerSymmetry == Permutations(Callers)
==============================================================================
