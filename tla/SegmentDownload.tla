---------------------------- MODULE SegmentDownload ----------------------------
(***************************************************************************)
(* Usenet.Download of pkg/usenet/download.go: the segments of a file are   *)
(* fetched by several goroutines, sent over a channel, and written in      *)
(* order by one.  How a segment is fetched is in NntpFailover.             *)
(***************************************************************************)
EXTENDS Integers, Sequences, FiniteSets

CONSTANTS
    Length,         \* segments of the file
    Fetchers        \* maxConnections

ASSUME DownloadAssumption == Length \in Nat \ {0} /\ Fetchers \in Nat \ {0}

Parts == 1 .. Length

VARIABLES
    cancelled,      \* the context has ended
    started,        \* segments for which a goroutine of the pool was started
    fetching,       \* [Parts -> where the goroutine is]
    channel,        \* resultChan: <<segment, outcome>>
    pending,        \* pendingSegments
    nextToWrite,
    written,        \* what the writer has got, in order
    writing,        \* the writer goroutine is in its inner loop
    errors,         \* writeErr, and the errors of the pool
    returned

downloadVars == <<cancelled, started, fetching, channel, pending, nextToWrite, written, writing, errors, returned>>

DownloadInit ==
    /\ cancelled = FALSE /\ started = 0 /\ channel = <<>> /\ pending = {} /\ nextToWrite = 1 /\ written = <<>>
    /\ fetching = [p \in Parts |-> "none"]
    /\ writing = FALSE /\ errors = {} /\ returned = "no"

Active == {p \in Parts : fetching[p] \notin {"none", "ended"}}

Fetching(p, pc) == fetching' = [fetching EXCEPT ![p] = pc]

\* p.Go waits for a place in the pool.
StartFetch ==
    /\ started < Length /\ Cardinality(Active) < Fetchers
    /\ started' = started + 1
    /\ Fetching(started + 1, "starts")
    /\ UNCHANGED <<cancelled, channel, pending, nextToWrite, written, writing, errors, returned>>

\* An error of the writer, or of an earlier segment, ends it; so does the
\* context.
Skip(p) ==
    /\ fetching[p] = "starts" /\ (cancelled \/ "write" \in errors)
    /\ Fetching(p, "ended")
    /\ errors' = errors \cup {"fetch"}
    /\ UNCHANGED <<cancelled, started, channel, pending, nextToWrite, written, writing, returned>>

AskFor(p) ==
    /\ fetching[p] = "starts" /\ ~cancelled /\ "write" \notin errors
    /\ Fetching(p, "asks")
    /\ UNCHANGED <<cancelled, started, channel, pending, nextToWrite, written, writing, errors, returned>>

\* What is there of the article is cut to seg.Bytes; that it has as much is
\* not looked at.
FetchSegment(p) ==
    /\ fetching[p] = "asks"
    /\ \E outcome \in {"data", "error"} : Fetching(p, outcome)
    /\ UNCHANGED <<cancelled, started, channel, pending, nextToWrite, written, writing, errors, returned>>

Send(p) ==
    /\ fetching[p] \in {"data", "error"} /\ Len(channel) < 2 * Fetchers
    /\ channel' = Append(channel, <<p, fetching[p]>>)
    /\ Fetching(p, "ended")
    /\ UNCHANGED <<cancelled, started, pending, nextToWrite, written, writing, errors, returned>>

\* Mutant: what arrives when nothing is pending is written at once.
InOrder_Arrival == IF pending = {} THEN {} ELSE {CHOOSE p \in pending : \A q \in pending : p <= q}

\* The segment to write, if it has arrived.
InOrder == pending \cap {nextToWrite}

Receive ==
    /\ ~writing /\ channel # <<>>
    /\ LET p == Head(channel)[1]  outcome == Head(channel)[2]
       IN  IF outcome = "error"
           THEN errors' = errors \cup {"write"} /\ UNCHANGED <<pending, writing>>
           ELSE pending' = pending \cup {p} /\ writing' = TRUE /\ UNCHANGED errors
    /\ channel' = Tail(channel)
    /\ UNCHANGED <<cancelled, started, fetching, nextToWrite, written, returned>>

WriteSegment ==
    /\ writing
    /\ \E p \in InOrder :
          /\ pending' = pending \ {p}
          /\ \/ /\ written' = Append(written, p)
                /\ nextToWrite' = nextToWrite + 1
                /\ UNCHANGED <<writing, errors>>
             \/ /\ errors' = errors \cup {"write"}
                /\ writing' = FALSE
                /\ UNCHANGED <<written, nextToWrite>>
    /\ UNCHANGED <<cancelled, started, fetching, channel, returned>>

Missed ==
    /\ writing /\ InOrder = {}
    /\ writing' = FALSE
    /\ UNCHANGED <<cancelled, started, fetching, channel, pending, nextToWrite, written, errors, returned>>

\* p.Wait, close, writerWg.Wait.
Return ==
    /\ returned = "no"
    /\ started = Length /\ Active = {} /\ channel = <<>> /\ ~writing
    /\ returned' = IF errors = {} THEN "nil" ELSE "error"
    /\ UNCHANGED <<cancelled, started, fetching, channel, pending, nextToWrite, written, writing, errors>>

CancelDownload ==
    /\ ~cancelled /\ returned = "no"
    /\ cancelled' = TRUE
    /\ UNCHANGED <<started, fetching, channel, pending, nextToWrite, written, writing, errors, returned>>

DownloadNext ==
    \/ CancelDownload \/ StartFetch \/ Receive \/ WriteSegment \/ Missed \/ Return
    \/ \E p \in Parts : Skip(p) \/ AskFor(p) \/ FetchSegment(p) \/ Send(p)

DownloadSpec == DownloadInit /\ [][DownloadNext]_downloadVars

-----------------------------------------------------------------------------
DownloadTypeOK ==
    /\ cancelled \in BOOLEAN /\ started \in 0 .. Length /\ nextToWrite \in 1 .. Length + 1 /\ pending \subseteq Parts
    /\ fetching \in [Parts -> {"none", "starts", "asks", "data", "error", "ended"}]
    /\ Len(channel) <= 2 * Fetchers /\ writing \in BOOLEAN
    /\ errors \subseteq {"fetch", "write"} /\ returned \in {"no", "nil", "error"}

\* However the fetches overtake one another and whichever of them fail, the
\* file is written from its beginning, without a hole or a repetition, and no
\* error is returned only when it is there to the end.
WrittenInOrder ==
    /\ \A k \in DOMAIN written : written[k] = k
    /\ returned = "nil" => Len(written) = Length

\* Refuted by TLC.  Not more segments wait to be written than the channel
\* holds: while one is slow all the others are fetched and kept.
PendingIsBounded == Cardinality(pending) <= 2 * Fetchers
=============================================================================
