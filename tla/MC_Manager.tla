------------------------------ MODULE MC_Manager ------------------------------
(***************************************************************************)
(* Manager on one entry of one file, one torrent at two debrids and a      *)
(* cache of three files.                                                   *)
(***************************************************************************)
EXTENDS Manager

CONSTANTS e1, f1, h1, sonarr, d1, d2, t1, n1, m1, m2, p1

MCEntryOf == [f \in Files |-> e1]
MCHashOf  == [f \in Files |-> h1]
MCArrOf   == [f \in Files |-> sonarr]
MCFilesIn == [h \in Torrents |-> {n1}]
MCAddedOn == [h \in Torrents |-> 1]

MCCacheDir ==
    LET json(hash, debrid, id, done, bad) ==
            [hash |-> hash, debrid |-> debrid, id |-> id, done |-> done, bad |-> bad, files |-> {n1}]
    IN  <<json(m1, d1, FALSE, FALSE, FALSE), json(m1, d2, TRUE, TRUE, FALSE), json(m2, d2, TRUE, FALSE, TRUE)>>
MCPathOf == [n \in {n1} |-> p1]
===============================================================================
