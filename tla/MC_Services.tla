------------------------------ MODULE MC_Services ------------------------------
(***************************************************************************)
(* Services on two keys of two providers, one folder and two packs.        *)
(***************************************************************************)
EXTENDS Services

CONSTANTS p1, p2, c1, c2, k1, k2, h1, h2, show, custom, e1, e2, a1, a2, a3

MCAccountsOf == [p \in Providers |-> IF p = p1 THEN 2 ELSE 1]
MCKeysOf     == [c \in Callers |-> IF c = c1 THEN {k1} ELSE Keys]
MCSpendable  == {<<p1, 1>>}
MCSpendAll   == Accounts

MCFolderOf   == [h \in Ids |-> show]
MCProtocolOf == [h \in Ids |-> IF h = h1 THEN "torrent" ELSE "nzb"]
MCFiltersOf  == [g \in Custom |-> {[kind |-> "regex", holds |-> {}], [kind |-> "files_regex", holds |-> {show}]}]

MCPackFiles   == [p \in Packs |-> IF p = e1 THEN {a1, a2} ELSE {a3}]
MCKinds       == [p \in Packs |-> IF p = e1 THEN {"download", "symlink", "strm", "none", "other"} ELSE {"native"}]
MCSeasonNames == {-1, 1, 2}
MCSeasonPaths == {<<>>, <<0, 1>>}

\* What a part may start with is fixed while another part runs.
Init ==
    /\ ServicesInit
    /\ part # "fetch" => pack[e1].kind = "download"
    /\ pack[e1].skip => pack[e1].title
    /\ pack[e1].kind = "symlink" => named[a1] = [name |-> 1, path |-> <<>>]
    /\ part # "link" => alive = {}

\* The second pack comes only where there are transfers to share the slots with.
InFewFetches(A) ==
    InFetch(A) /\ (pack[e1].kind \in {"download", "other"} \/ UNCHANGED at[e2])

Next == InLink(LinkNext) \/ InTree(TreeNext) \/ InFewFetches(FetchNext)

\* LinkFairness, TreeFairness and FetchFairness.
Fairness ==
    /\ \A k \in Keys : WF_servicesVars(InLink(FlightStep(k)))
    /\ \A g \in Shown : WF_servicesVars(InTree(StoreListing(g)))
    /\ WF_servicesVars(InTree(ScheduledRefresh))
    /\ WF_servicesVars(InFewFetches(FetchStep))

Spec == Init /\ [][Next]_servicesVars /\ Fairness
===============================================================================
