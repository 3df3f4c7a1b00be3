----------------------------- MODULE DebridListing -----------------------------
(***************************************************************************)
(* How the provider clients list what is at a debrid, page by page, while  *)
(* it changes: GetTorrents (for the refresh), fetchDownloadLinks (for the  *)
(* accounts) and loadDownloadPresent (for torbox's CheckFile), and what    *)
(* CheckFile says to the repair.  One client, one list and its readers.    *)
(* What the refresh does with the list is in TorrentEntries; here a        *)
(* torrent is only placed or not.                                          *)
(***************************************************************************)
EXTENDS Integers, Sequences, FiniteSets, SequencesExt, FiniteSetsExt

CONSTANTS
    Items,          \* torrents, or links
    PageSize,       \* the limit of a page
    HardLimits,     \* the Limit of the configuration: 0 for none
    MaxMoves        \* bound on what changes at the debrid

Clients == {"realdebrid", "torbox", "alldebrid", "debridlink", "premiumize"}
Lists   == {"torrents", "links", "present"}

ASSUME ListingAssumption == IsFiniteSet(Items) /\ PageSize \in Nat \ {0} /\ HardLimits \subseteq Nat /\ MaxMoves \in Nat

VARIABLES
    client, list, hardLimit,    \* what is looked at, for ever
    remote,     \* the list at the debrid, newest first
    good,       \* finished torrents; links that have not expired
    fetch,      \* the local variables of the fetch
    due,        \* what was there and good when the fetch began and still is
    trouble,    \* what came in the way of the fetch
    placed,     \* torrents with a placement at this debrid; links that are stored
    present, loaded,    \* torbox: downloadPresentCache, downloadPresentLoaded
    verdict,    \* the last answer of CheckFile
    moves

listVars == <<client, list, hardLimit, remote, good, fetch, due, trouble, placed, present, loaded, verdict, moves>>

NotFetching == [pc |-> "idle", offset |-> 0, got |-> {}, count |-> 0]

\* The lists that clients have.  Only torbox has the third.
Reads == {<<c, "torrents">> : c \in Clients} \cup {<<"realdebrid", "links">>, <<"debridlink", "links">>, <<"torbox", "present">>}

ListInit ==
    /\ client \in Clients /\ list \in Lists /\ <<client, list>> \in Reads
    /\ hardLimit \in (IF client = "realdebrid" /\ list = "torrents" THEN HardLimits ELSE {0})
    /\ remote \in {SubSeq(SetToSeq(Items), 1, n) : n \in 0 .. Cardinality(Items)}
    /\ good \in SUBSET ToSet(remote)
    /\ fetch = NotFetching
    /\ due = {} /\ trouble = {}
    /\ placed \in {{}, IF list = "torrents" THEN good ELSE {}}
    /\ present = {} /\ loaded = FALSE
    /\ verdict = [x \in Items |-> "none"]
    /\ moves = 0

Fixed == UNCHANGED <<client, list, hardLimit>>

-----------------------------------------------------------------------------
(* At the debrid *)

Move == moves < MaxMoves /\ moves' = moves + 1
InPages == fetch.pc = "page"

\* A torrent or link is new: it is the first of the list.
RemoteAdd(x) ==
    /\ Move /\ x \notin ToSet(remote)
    /\ remote' = <<x>> \o remote
    /\ \E g \in BOOLEAN : good' = IF g THEN good \cup {x} ELSE good \ {x}
    /\ Fixed /\ UNCHANGED <<fetch, due, trouble, placed, present, loaded, verdict>>

\* One goes: those behind it move up.
RemoteRemove(x) ==
    /\ Move /\ \E i \in DOMAIN remote : remote[i] = x /\ remote' = RemoveAt(remote, i)
    /\ good' = good \ {x}
    /\ due' = due \ {x}
    /\ trouble' = IF InPages THEN trouble \cup {"removed"} ELSE trouble
    /\ Fixed /\ UNCHANGED <<fetch, placed, present, loaded, verdict>>

\* A torrent is finished.
RemoteFinish(x) ==
    /\ Move /\ list # "links" /\ x \in ToSet(remote) \ good
    /\ good' = good \cup {x}
    /\ Fixed /\ UNCHANGED <<remote, fetch, due, trouble, placed, present, loaded, verdict>>

\* A link expires.
RemoteExpire(x) ==
    /\ Move /\ list = "links" /\ x \in good
    /\ good' = good \ {x} /\ due' = due \ {x}
    /\ Fixed /\ UNCHANGED <<remote, fetch, trouble, placed, present, loaded, verdict>>

-----------------------------------------------------------------------------
(* The fetch *)

Fetch ==
    /\ fetch.pc = "idle"
    /\ list = "present" => ~loaded
    /\ fetch' = [NotFetching EXCEPT !.pc = "page"]
    /\ due' = IF list = "present" THEN ToSet(remote) ELSE good
    /\ trouble' = {}
    /\ Fixed /\ UNCHANGED <<remote, good, placed, present, loaded, verdict, moves>>

Paged == client \in {"realdebrid", "torbox", "debridlink"}

\* limit is the hard limit when there is one.
Size == IF hardLimit # 0 THEN hardLimit ELSE PageSize

\* The answer to one request.  AllDebrid is asked for those that are ready;
\* premiumize and AllDebrid list all at once.
Answer ==
    IF Paged THEN ToSet(SubSeq(remote, fetch.offset + 1, Min({fetch.offset + Size, Len(remote)})))
    ELSE IF client = "alldebrid" THEN good ELSE ToSet(remote)

\* What the client takes from it: Real-Debrid's and debrid-link's torrents
\* are those that are downloaded, debrid-link's links those not expired.
Taken ==
    IF client = "debridlink" \/ (client = "realdebrid" /\ list = "torrents")
    THEN Answer \cap good ELSE Answer

\* Mutant: the first of the next page is taken for read.
NextOffset_Ahead == IF client = "debridlink" THEN fetch.offset + Size ELSE fetch.offset + Cardinality(Taken) + 1

\* debrid-link counts pages, the others what they took.
NextOffset == IF client = "debridlink" THEN fetch.offset + Size ELSE fetch.offset + Cardinality(Taken)

\* The page after which no other is asked for.
EndsHere ==
    \/ ~Paged
    \/ IF client = "debridlink" /\ list = "links" THEN Cardinality(Taken) < Size ELSE Taken = {}
    \/ hardLimit # 0 /\ fetch.count + Cardinality(Taken) >= hardLimit

\* The reasons for which the last page may come too early.
Early ==
    (IF Answer # Taken THEN {"filtered"} ELSE {}) \cup (IF hardLimit # 0 THEN {"limited"} ELSE {})

Page ==
    /\ InPages
    /\ fetch' = [pc     |-> IF EndsHere THEN "done" ELSE "page",
                 offset |-> NextOffset,
                 got    |-> fetch.got \cup Taken,
                 count  |-> fetch.count + Cardinality(Taken)]
    /\ present' = IF list = "present" THEN present \cup Taken ELSE present
    /\ trouble' = IF EndsHere THEN trouble \cup Early ELSE trouble
    /\ Fixed /\ UNCHANGED <<remote, good, due, placed, loaded, verdict, moves>>

\* A request fails.  Torbox returns what it has as if it were all.
PageFails ==
    /\ InPages
    /\ IF client = "torbox" /\ list = "torrents"
       THEN /\ fetch' = [fetch EXCEPT !.pc = "done"]
            /\ trouble' = trouble \cup {"failed"} /\ UNCHANGED due
       ELSE /\ fetch' = NotFetching
            /\ due' = {} /\ UNCHANGED trouble
    /\ Fixed /\ UNCHANGED <<remote, good, placed, present, loaded, verdict, moves>>

\* remoteTorrentsByHash.  Premiumize's torrents come without their hashes.
ByHash == IF client = "premiumize" THEN {} ELSE fetch.got

\* doRefreshTorrents: an empty list is ignored; what is not listed loses its
\* placement, what is new gets one if it is complete and can be processed.
Refresh ==
    /\ fetch.pc = "done" /\ list = "torrents"
    /\ IF fetch.got = {} THEN UNCHANGED placed
       ELSE \E new \in SUBSET (ByHash \cap good) : placed' = (placed \cap ByHash) \cup new
    /\ fetch' = NotFetching /\ due' = {}
    /\ Fixed /\ UNCHANGED <<remote, good, trouble, present, loaded, verdict, moves>>

\* RefreshLinks adds to the links of the account.
StoreLinks ==
    /\ fetch.pc = "done" /\ list = "links"
    /\ placed' = placed \cup fetch.got
    /\ fetch' = NotFetching /\ due' = {}
    /\ Fixed /\ UNCHANGED <<remote, good, trouble, present, loaded, verdict, moves>>

Loaded ==
    /\ fetch.pc = "done" /\ list = "present"
    /\ loaded' = TRUE
    /\ fetch' = NotFetching /\ due' = {}
    /\ Fixed /\ UNCHANGED <<remote, good, trouble, placed, present, verdict, moves>>

-----------------------------------------------------------------------------
(* CheckFile *)

\* Torbox answers from what was loaded once.  Premiumize asks whether the
\* hash is cached, of which a failed request says no; the hash of a torrent
\* of one's own need not be.  For Real-Debrid only a 404 is a broken link, and
\* the other two check nothing.
ListAnswers(x) ==
    CASE client = "torbox"     -> IF x \in present THEN {"fine"} ELSE {"broken"}
      [] client = "premiumize" -> {"fine", "broken"}
      [] client = "realdebrid" -> IF x \in ToSet(remote) THEN {"fine"} ELSE {"fine", "broken"}
      [] OTHER                 -> {"fine"}

CheckFile(x) ==
    /\ client = "torbox" => list = "present" /\ loaded
    /\ x \in placed \cup good
    /\ \E a \in ListAnswers(x) : verdict' = [verdict EXCEPT ![x] = a]
    /\ Fixed /\ UNCHANGED <<remote, good, fetch, due, trouble, placed, present, loaded, moves>>

-----------------------------------------------------------------------------
ListNext ==
    \/ \E x \in Items : RemoteAdd(x) \/ RemoteRemove(x) \/ RemoteFinish(x) \/ RemoteExpire(x) \/ CheckFile(x)
    \/ Fetch \/ Page \/ PageFails
    \/ Refresh \/ StoreLinks \/ Loaded

ListSpec == ListInit /\ [][ListNext]_listVars

-----------------------------------------------------------------------------
ListTypeOK ==
    /\ client \in Clients /\ list \in Lists /\ <<client, list>> \in Reads
    /\ \A i, j \in DOMAIN remote : remote[i] = remote[j] => i = j
    /\ good \subseteq ToSet(remote) /\ due \subseteq ToSet(remote) /\ fetch.got \subseteq Items
    /\ fetch.pc \in {"idle", "page", "done"} /\ fetch.offset \in Nat /\ fetch.count \in Nat
    /\ trouble \subseteq {"removed", "failed", "filtered", "limited"}
    /\ placed \subseteq Items /\ present \subseteq Items /\ loaded \in BOOLEAN /\ moves \in 0 .. MaxMoves

\* A fetch that reports no error has all that was there when it began and
\* still is, also when others are added in front meanwhile, unless one was
\* removed, a request failed, or the client stopped at a page of which it
\* took nothing or at its hard limit.
ListingComplete == fetch.pc = "done" /\ trouble = {} => due \subseteq fetch.got

\* Refuted by TLC.  A list without an error is a list of everything: the
\* refresh takes what it does not find for deleted.
ListingTrue == fetch.pc = "done" => due \subseteq fetch.got

\* Refuted by TLC.  A placement of a finished torrent survives the refresh.
PlacedStays ==
    [][\A x \in placed : x \in good /\ list = "torrents" => x \in placed' \/ trouble # {}]_listVars

\* Refuted by TLC.  What is said to be broken is gone.
BrokenIsGone ==
    [][\A x \in Items : verdict'[x] = "broken" /\ verdict[x] # "broken" => x \notin ToSet(remote)]_listVars
=============================================================================
