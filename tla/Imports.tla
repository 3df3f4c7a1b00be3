-------------------------------- MODULE Imports --------------------------------
(***************************************************************************)
(* The ways an entry comes in and what is read from Usenet, side by side:  *)
(* a behaviour is one of the parts.                                        *)
(***************************************************************************)
EXTENDS ImportQueue, DebridListing, NzbFiles, FileLayout, ArticleChecks, UsenetReaders, SegmentDownload,
        FileStreams

VARIABLE part

importsVars == <<part, importVars, listVars, nzbVars, layoutVars, checkVars, readersVars, downloadVars, streamVars>>

PartNames == {"import", "list", "nzb", "layout", "check", "readers", "download", "streams"}

ImportsInit ==
    /\ part \in PartNames
    /\ ImportInit /\ ListInit /\ NzbInit /\ LayoutInit /\ ChecksInit /\ ReadersInit /\ DownloadInit /\ StreamInit

InImport(A)   == part = "import" /\ A /\ UNCHANGED <<part, listVars, nzbVars, layoutVars, checkVars, readersVars, downloadVars, streamVars>>
InList(A)     == part = "list" /\ A /\ UNCHANGED <<part, importVars, nzbVars, layoutVars, checkVars, readersVars, downloadVars, streamVars>>
InNzb(A)      == part = "nzb" /\ A /\ UNCHANGED <<part, importVars, listVars, layoutVars, checkVars, readersVars, downloadVars, streamVars>>
InLayout(A)   == part = "layout" /\ A /\ UNCHANGED <<part, importVars, listVars, nzbVars, checkVars, readersVars, downloadVars, streamVars>>
InCheck(A)    == part = "check" /\ A /\ UNCHANGED <<part, importVars, listVars, nzbVars, layoutVars, readersVars, downloadVars, streamVars>>
InReaders(A)  == part = "readers" /\ A /\ UNCHANGED <<part, importVars, listVars, nzbVars, layoutVars, checkVars, downloadVars, streamVars>>
InDownload(A) == part = "download" /\ A /\ UNCHANGED <<part, importVars, listVars, nzbVars, layoutVars, checkVars, readersVars, streamVars>>
InStreams(A)  == part = "streams" /\ A /\ UNCHANGED <<part, importVars, listVars, nzbVars, layoutVars, checkVars, readersVars, downloadVars>>

ImportsNext ==
    \/ InImport(ImportNext) \/ InList(ListNext) \/ InNzb(NzbNext) \/ InLayout(LayoutNext)
    \/ InCheck(ChecksNext) \/ InReaders(ReadersNext) \/ InDownload(DownloadNext)
    \/ InStreams(StreamNext)

ImportsSpec == ImportsInit /\ [][ImportsNext]_importsVars

\* The type invariants of the parts.
ImportsTypeOK ==
    /\ ImportTypeOK /\ ListTypeOK /\ NzbTypeOK /\ LayoutTypeOK
    /\ ChecksTypeOK /\ ReadersTypeOK /\ DownloadTypeOK /\ StreamsTypeOK
===============================================================================
