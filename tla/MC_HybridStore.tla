---------------------------- MODULE MC_HybridStore ----------------------------
(***************************************************************************)
(* Small instances of HybridStore: two keys, two payloads in one category  *)
(* and in none, one or two readers.                                        *)
(***************************************************************************)
EXTENDS HybridStore, TLC

CONSTANTS k1, k2, v1, v2, c1

MCWrites == {<<v1, c1>>, <<v2, NoCat>>}

EmptyFile == {<<>>}

(* Files written earlier: none, one live entry, two entries one of them *)
(* deleted again.                                                        *)
Written(r) == [r EXCEPT !.fmt = 2]
OldFiles == {<<>>,
             <<Written(PutRec(k1, <<v1, c1>>))>>,
             <<Written(PutRec(k1, <<v1, c1>>)), Written(PutRec(k2, <<v2, NoCat>>)),
               Written(Tombstone(k1))>>}

(* Values that outweigh the records around them. *)
LargeValues == [v \in {v1, v2} |-> 10]
===============================================================================
