-------------------------------- MODULE Services --------------------------------
(***************************************************************************)
(* The link service, the listings and the downloads, side by side: a       *)
(* behaviour is one of them.                                               *)
(***************************************************************************)
EXTENDS LinkService, EntryTree, Downloads

VARIABLE part

servicesVars == <<part, linkVars, treeVars, fetchVars>>

ServicesInit == part \in {"link", "tree", "fetch"} /\ LinkInit /\ TreeInit /\ FetchInit

InLink(A)  == part = "link" /\ A /\ UNCHANGED <<part, treeVars, fetchVars>>
InTree(A)  == part = "tree" /\ A /\ UNCHANGED <<part, linkVars, fetchVars>>
InFetch(A) == part = "fetch" /\ A /\ UNCHANGED <<part, linkVars, treeVars>>

ServicesNext == InLink(LinkNext) \/ InTree(TreeNext) \/ InFetch(FetchNext)

ServicesSpec == ServicesInit /\ [][ServicesNext]_servicesVars

\* The type invariants of the parts.
ServicesTypeOK == LinkTypeOK /\ TreeTypeOK /\ FetchTypeOK
===============================================================================
