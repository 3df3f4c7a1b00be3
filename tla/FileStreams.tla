------------------------------ MODULE FileStreams ------------------------------
(***************************************************************************)
(* pkg/manager/stream.go, with the handler of WebDAV that calls it and the *)
(* reads of encrypted files below it: from the Range header of a request   *)
(* to the bytes that are sent.  The bytes of a file are its positions.     *)
(*                                                                         *)
(* Left out: the other methods of WebDAV, Last-Modified and the like, and  *)
(* what SegmentReader and UsenetReaders have of the reads.                 *)
(***************************************************************************)
EXTENDS Integers, Sequences, SequencesExt

CONSTANTS
    Viewers,        \* requests, each of which is made once
    Shows,          \* files
    ShowOf,         \* [size, source: "http" or "usenet", start: ByteRange[0] or -1,
                    \*  cipher: 0, or the length of what is encrypted]
    RangeHeaders,   \* what a request asks for
    BlockSize,      \* crypto.BlockSize
    BufferSize,     \* streamBufferSize, of a read below
    StreamRetries,  \* Config.Retries
    RangeIgnored,   \* the server behind a link may answer with the whole file
    NoRange, Garbage

\* A header's numbers are not negative, and its first is not after its last.
\* External: what is encrypted fills whole blocks, so every byte of a file
\* lies in one that is there.
ASSUME StreamAssumption ==
    /\ BlockSize \in Nat \ {0} /\ BufferSize \in Nat \ {0} /\ StreamRetries \in Nat /\ RangeIgnored \in BOOLEAN
    /\ ShowOf \in [Shows -> [size : Nat, source : {"http", "usenet"}, start : Nat \cup {-1}, cipher : Nat]]
    /\ \A f \in Shows : ShowOf[f].cipher > 0 =>
          /\ ShowOf[f].size <= ShowOf[f].cipher
          /\ \A pos \in 0 .. (ShowOf[f].size - 1) : (pos \div BlockSize + 1) * BlockSize <= ShowOf[f].cipher
    /\ \A h \in RangeHeaders :
          /\ h.kind \in {"none", "bad", "two", "span", "open", "suffix"}
          /\ h.kind \in {"span", "open"} => h.a \in Nat
          /\ h.kind = "span" => h.b \in Nat /\ h.a <= h.b
          /\ h.kind = "suffix" => h.n \in Nat
    /\ NoRange \notin [lo : Int, hi : Int]

VARIABLES
    get,            \* each request: pc, file, header, range, attempts, first byte of
                    \*  the body, result
    response,       \* what is told and sent: status, declared range, bytes
    activeStreams   \* Manager.activeStreams: the files it lists

streamVars == <<get, response, activeStreams>>

ShownSize(f) == ShowOf[f].size

-----------------------------------------------------------------------------
(* The range that is asked for.  A header is none, malformed, of two       *)
(* ranges, or one range: from a to b, from a on, or the last n.            *)

ParseRange(h, size) ==
    LET kept(r) == IF r.lo > size - 1 THEN <<>> ELSE <<r>>
    IN  CASE h.kind = "span"   -> kept([lo |-> h.a, hi |-> IF h.b >= size THEN size - 1 ELSE h.b])
          [] h.kind = "open"   -> kept([lo |-> h.a, hi |-> size - 1])
          [] h.kind = "suffix" -> kept([lo |-> size - (IF h.n > size THEN size ELSE h.n), hi |-> size - 1])
          [] OTHER             -> <<>>        \* an error, or not one range

\* What the client means: NoRange for a header that cannot be satisfied.
Wanted(f, h) ==
    IF h.kind = "none" THEN [lo |-> 0, hi |-> ShownSize(f) - 1]
    ELSE IF ParseRange(h, ShownSize(f)) = <<>> THEN NoRange ELSE ParseRange(h, ShownSize(f))[1]

\* getRange.  A file inside of an archive is shifted to its place there.
GetRange(f, h) ==
    LET shift == IF ShowOf[f].start >= 0 THEN ShowOf[f].start ELSE 0
        r     == ParseRange(h, ShownSize(f))
    IN  IF h.kind = "none"
        THEN IF ShowOf[f].start >= 0 THEN [lo |-> shift, hi |-> shift + ShownSize(f) - 1] ELSE [lo |-> 0, hi |-> -1]
        ELSE IF r = <<>> THEN [lo |-> 0, hi |-> 0]
        ELSE [lo |-> r[1].lo + shift, hi |-> r[1].hi + shift]

\* normalizeStreamRange, NoRange for an error.
Normalize(size, r) ==
    LET hi == IF r.hi = -1 \/ r.hi >= size THEN size - 1 ELSE r.hi
    IN  IF size <= 0 \/ r.lo >= size \/ hi < r.lo THEN NoRange ELSE [lo |-> r.lo, hi |-> hi]

-----------------------------------------------------------------------------
(* readAtEncrypted: whole blocks are read and decrypted in place, the last *)
(* one filled up with zeros; the block before gives the IV.                *)

PlainRead(f, off, len) ==
    LET end == IF off + len > ShowOf[f].cipher THEN ShowOf[f].cipher ELSE off + len
    IN  [i \in 1 .. (end - off) |-> off + i - 1]

Decrypted(f, pos) == IF (pos \div BlockSize + 1) * BlockSize <= ShowOf[f].cipher THEN pos ELSE Garbage

EncryptedRead_Misplaced(f, off, len) ==
    LET from  == (off \div BlockSize) * BlockSize
        end   == IF off + len > ShowOf[f].cipher THEN ShowOf[f].cipher ELSE off + len
        raw   == PlainRead(f, from, end - from)
    IN  [i \in 1 .. (end - off) |-> Decrypted(f, raw[i])]

EncryptedRead(f, off, len) ==
    LET from  == (off \div BlockSize) * BlockSize
        end   == IF off + len > ShowOf[f].cipher THEN ShowOf[f].cipher ELSE off + len
        top   == IF end % BlockSize = 0 THEN end ELSE end + BlockSize - (end % BlockSize)
        raw   == PlainRead(f, from, top - from)
        valid == IF Len(raw) > end - from THEN end - from ELSE Len(raw)
    IN  [i \in 1 .. (IF off - from >= valid THEN 0 ELSE valid - (off - from)) |->
            Decrypted(f, raw[off - from + i])]

ReadAt(f, off, len) ==
    IF ShowOf[f].cipher > 0 THEN EncryptedRead(f, off, len) ELSE [i \in 1 .. len |-> off + i - 1]

-----------------------------------------------------------------------------
StreamInit ==
    /\ get = [c \in Viewers |-> [pc |-> "new", file |-> NoRange, header |-> NoRange, range |-> NoRange,
                                 tries |-> 0, body |-> 0, result |-> "no"]]
    /\ response = [c \in Viewers |-> [status |-> 0, declared |-> NoRange, sent |-> <<>>]]
    /\ activeStreams = {}

FileOf(c)  == get[c].file
InStep(c, pc) == get[c].pc = pc
Expected(c) == get[c].range.hi - get[c].range.lo + 1

\* One record is kept for all streams of a file.
TrackStream(f)   == activeStreams' = activeStreams \cup {f}
UntrackStream(f) == activeStreams' = activeStreams \ {f}

\* handleSuccessfulResponse.
Told(c, status) == response' = [response EXCEPT ![c].status = status, ![c].declared = get[c].range]

\* StreamResponse: the stream is listed, and comes off the list when it ends.
RequestFile(c) ==
    /\ InStep(c, "new")
    /\ \E f \in Shows, h \in RangeHeaders :
          get' = [get EXCEPT ![c] = [@ EXCEPT !.pc = "range", !.file = f, !.header = h]]
    /\ TrackStream(get'[c].file)
    /\ UNCHANGED response

\* The response is an error when no header was sent yet; after that it is cut off.
Over(c, result) ==
    /\ get' = [get EXCEPT ![c].pc = "end", ![c].result = result]
    /\ UntrackStream(FileOf(c))
    /\ response' = [response EXCEPT ![c].status = IF result = "error" /\ @ = 0 THEN 500 ELSE @]

\* Stream.
Begin(c) ==
    /\ InStep(c, "range")
    /\ LET r == Normalize(ShownSize(FileOf(c)), GetRange(FileOf(c), get[c].header))
       IN  IF r = NoRange THEN Over(c, "error")
           ELSE /\ get' = [get EXCEPT ![c].range = r,
                                      ![c].pc = IF ShowOf[FileOf(c)].source = "usenet" THEN "open" ELSE "link"]
                /\ UNCHANGED <<response, activeStreams>>

\* streamHTTP, GetLink.
LinkFound(c) ==
    /\ InStep(c, "link")
    /\ get' = [get EXCEPT ![c].pc = "request"]
    /\ UNCHANGED <<response, activeStreams>>

NoLinkFound(c) == InStep(c, "link") /\ Over(c, "error")

\* doRequest: an error of the connection is retried, another is not.
RequestAgain(c) ==
    /\ InStep(c, "request") /\ get[c].tries < StreamRetries
    /\ get' = [get EXCEPT ![c].tries = @ + 1]
    /\ UNCHANGED <<response, activeStreams>>

\* It is not answered, or with a status other than 200 and 206.
RequestFails(c) == InStep(c, "request") /\ Over(c, "error")

(* The status and the range that are told are those of the server, but for *)
(* a part of a file that comes with status 200.                            *)
IsPartial(c) == get[c].range.lo > 0 \/ get[c].range.hi < ShownSize(FileOf(c)) - 1

Responds(c) ==
    /\ InStep(c, "request")
    /\ \E whole \in BOOLEAN :
          /\ LET r == get[c].range
             IN  /\ IF r.lo > 0 \/ r.hi > 0 THEN whole => RangeIgnored ELSE whole
                 /\ Told(c, IF whole /\ ~IsPartial(c) THEN 200 ELSE 206)
                 /\ get' = [get EXCEPT ![c].pc = "copy", ![c].body = IF whole THEN 0 ELSE r.lo]
    /\ UNCHANGED activeStreams

\* CopyBuffer: as much as is asked for, or less when the body ends or breaks.
SendBody(c) ==
    /\ InStep(c, "copy")
    /\ \E n \in 0 .. Expected(c) :
          /\ get' = [get EXCEPT ![c].pc = "end", ![c].result = IF n = Expected(c) THEN "ok" ELSE "error"]
          /\ response' = [response EXCEPT ![c].sent = [i \in 1 .. n |-> get[c].body + i - 1]]
    /\ UntrackStream(FileOf(c))

\* streamUsenet: the headers first.
OpenUsenet(c) ==
    /\ InStep(c, "open")
    /\ Told(c, IF IsPartial(c) THEN 206 ELSE 200)
    /\ get' = [get EXCEPT ![c].pc = "read"]
    /\ UNCHANGED activeStreams

\* Usenet.Stream, safeCopyBuffer: a buffer at a time.
CopyBuffer(c) ==
    /\ InStep(c, "read")
    /\ LET done == Len(response[c].sent)
           len  == IF Expected(c) - done > BufferSize THEN BufferSize ELSE Expected(c) - done
           got  == ReadAt(FileOf(c), get[c].range.lo + done, len)
       IN  IF len = 0 \/ got = <<>> THEN Over(c, "ok")
           ELSE /\ response' = [response EXCEPT ![c].sent = @ \o got]
                /\ UNCHANGED <<get, activeStreams>>

\* An article that is not there, a reader that is closed, a client that is gone.
CopyFails(c) == InStep(c, "read") /\ Over(c, "error")

StreamNext == \E c \in Viewers :
    \/ RequestFile(c) \/ Begin(c) \/ LinkFound(c) \/ NoLinkFound(c) \/ RequestAgain(c) \/ RequestFails(c)
    \/ Responds(c) \/ SendBody(c) \/ OpenUsenet(c) \/ CopyBuffer(c) \/ CopyFails(c)

StreamSpec == StreamInit /\ [][StreamNext]_streamVars

-----------------------------------------------------------------------------
(* Properties *)

StreamsTypeOK ==
    /\ \A c \in Viewers :
          /\ get[c].pc \in {"new", "range", "link", "request", "copy", "open", "read", "end"}
          /\ get[c].tries \in 0 .. StreamRetries /\ get[c].result \in {"no", "ok", "error"}
          /\ response[c].status \in {0, 200, 206, 500}
    /\ activeStreams \subseteq Shows

\* What a player is sent is what its header says it is sent, from the first byte
\* on and to the last when no error is returned, decrypted or not; and where
\* the request made sense that is what it asked for, but for a file that
\* lies further inside of an archive (see MembersAreServed).
ServedAsAsked == \A c \in Viewers :
    LET told == response[c].declared
    IN  told # NoRange =>
          /\ IsPrefix(response[c].sent, [i \in 1 .. (told.hi - told.lo + 1) |-> told.lo + i - 1])
          /\ get[c].result = "ok" => Len(response[c].sent) = told.hi - told.lo + 1
          /\ ShowOf[FileOf(c)].start <= 0 => Wanted(FileOf(c), get[c].header) \in {told, NoRange}

\* Refuted by TLC.  A file that is being sent is in the list of active streams:
\* of two streams of a file the first to end takes the record of both.
ActiveIsListed == \A c \in Viewers : get[c].pc \in {"copy", "read"} => FileOf(c) \in activeStreams

\* Refuted by TLC.  A file inside of an archive is served whole: its range,
\* shifted to its place in the archive, is cut off at its own size, or refused.
MembersAreServed == \A c \in Viewers :
    InStep(c, "range") /\ get[c].header.kind = "none" /\ ShowOf[FileOf(c)].start > 0 =>
        LET r == GetRange(FileOf(c), get[c].header) IN Normalize(ShownSize(FileOf(c)), r) = r

\* Refuted by TLC.  A request for the whole file is answered with 200.
WholeIsWhole == \A c \in Viewers :
    FileOf(c) # NoRange /\ response[c].status = 206 => get[c].header.kind # "none"
===============================================================================
