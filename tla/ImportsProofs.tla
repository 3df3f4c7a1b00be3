------------------------------ MODULE ImportsProofs -----------------------------
(***************************************************************************)
(* Proofs about the parts of Imports, for all values of their constants:   *)
(* the download of a whole file (SegmentDownload), the readers that        *)
(* streams share (UsenetReaders), the checks of articles (ArticleChecks),  *)
(* the files of an NZB (NzbFiles), the copies of a torrent (ImportQueue),  *)
(* the lists of the debrids (DebridListing), what a player is sent         *)
(* (FileStreams) and the walk over the volumes of an archive (FileLayout); *)
(* at the end, the types of all of them together.                          *)
(***************************************************************************)
EXTENDS Imports, SequenceTheorems, FiniteSetTheorems, WellFoundedInduction, TLAPS

-----------------------------------------------------------------------------
(* SegmentDownload *)

Outcomes == {"data", "error"}

DTypes ==
    /\ started \in 0 .. Length /\ nextToWrite \in 1 .. Length + 1 /\ pending \subseteq Parts
    /\ fetching \in [Parts -> {"none", "starts", "asks", "data", "error", "ended"}]
    /\ channel \in Seq(Parts \X Outcomes) /\ writing \in BOOLEAN
    /\ written \in Seq(Parts) /\ errors \subseteq {"fetch", "write"} /\ returned \in {"no", "nil", "error"}

\* What is written is the file up to the segment that is next.
Prefix ==
    /\ Len(written) = nextToWrite - 1
    /\ \A k \in DOMAIN written : written[k] = k

\* A segment that is on its way back.
InChannel(p) == \E i \in DOMAIN channel : channel[i][1] = p

\* While there is no error a goroutine that has ended has sent its segment,
\* which is in the channel, kept or written; one that is next is kept only
\* while the writer is at it.
NoneLost ==
    /\ \A p \in Parts : p <= started => fetching[p] # "none"
    /\ errors = {} => \A p \in Parts :
            fetching[p] = "ended" => p < nextToWrite \/ p \in pending \/ InChannel(p)
    /\ errors = {} /\ ~writing => nextToWrite \notin pending

EndReached == returned = "nil" => nextToWrite = Length + 1

DownloadInv == DTypes /\ Prefix /\ NoneLost /\ EndReached

LEMMA DownloadInvInit == DownloadInit => DownloadInv
<1> SUFFICES ASSUME DownloadInit PROVE DownloadInv
  OBVIOUS
<1> USE DownloadAssumption DEF DownloadInit, Parts
<1>1. DTypes
  <2>1. channel \in Seq(Parts \X Outcomes) /\ written \in Seq(Parts)
    OBVIOUS
  <2>2. fetching \in [Parts -> {"none", "starts", "asks", "data", "error", "ended"}]
    OBVIOUS
  <2>3. started \in 0 .. Length /\ nextToWrite \in 1 .. Length + 1
    OBVIOUS
  <2>5. pending \subseteq Parts
    OBVIOUS
  <2>6. writing \in BOOLEAN
    OBVIOUS
  <2>4. errors \subseteq {"fetch", "write"} /\ returned \in {"no", "nil", "error"}
    OBVIOUS
  <2> HIDE DEF DownloadInit, Parts
  <2> QED  BY <2>1, <2>2, <2>3, <2>4, <2>5, <2>6 DEF DTypes
<1>2. Prefix      BY DEF Prefix
<1>3. NoneLost    BY DEF NoneLost
<1>4. EndReached  BY DEF EndReached
<1> QED  BY <1>1, <1>2, <1>3, <1>4 DEF DownloadInv

(* One more segment at the end of the channel, one less at its head.       *)
LEMMA Sent ==
    ASSUME DTypes, NEW p \in Parts, NEW o \in Outcomes, channel' = Append(channel, <<p, o>>)
    PROVE  /\ channel' \in Seq(Parts \X Outcomes)
           /\ InChannel(p)' /\ \A q \in Parts : InChannel(q) => InChannel(q)'
<1>1. /\ Len(channel') = Len(channel) + 1 /\ channel'[Len(channel) + 1] = <<p, o>>
      /\ \A i \in DOMAIN channel : channel'[i] = channel[i]
  BY DEF DTypes
<1>2. channel' \in Seq(Parts \X Outcomes)
  BY DEF DTypes
<1>3. InChannel(p)'
  <2>1. Len(channel) + 1 \in DOMAIN channel' /\ channel'[Len(channel) + 1][1] = p
    BY <1>1, <1>2 DEF DTypes
  <2> QED  BY <2>1 DEF InChannel
<1>4. DOMAIN channel \subseteq DOMAIN channel'
  BY <1>1, <1>2 DEF DTypes
<1> QED  BY <1>1, <1>2, <1>3, <1>4 DEF InChannel

LEMMA Received ==
    ASSUME DTypes, channel # <<>>, channel' = Tail(channel)
    PROVE  /\ channel' \in Seq(Parts \X Outcomes)
           /\ Head(channel)[1] \in Parts /\ Head(channel)[2] \in Outcomes
           /\ \A q \in Parts : InChannel(q) => q = Head(channel)[1] \/ InChannel(q)'
<1>1. /\ channel' \in Seq(Parts \X Outcomes) /\ Len(channel') = Len(channel) - 1
      /\ \A i \in 1 .. Len(channel') : channel'[i] = channel[i + 1]
      /\ Head(channel) = channel[1] /\ Head(channel) \in Parts \X Outcomes
  BY DEF DTypes
<1>2. ASSUME NEW q \in Parts, NEW i \in DOMAIN channel, channel[i][1] = q, i # 1
      PROVE  InChannel(q)'
  <2>1. i - 1 \in 1 .. Len(channel') /\ channel'[i - 1] = channel[i]
    BY <1>1, <1>2 DEF DTypes
  <2> QED  BY <1>1, <1>2, <2>1 DEF InChannel
<1> QED  BY <1>1, <1>2 DEF InChannel

(* The actions of the pool, which touch neither the writer nor the file.   *)
LEMMA FetchersKeep ==
    ASSUME DownloadInv, NEW p \in Parts,
           \/ StartFetch \/ Skip(p) \/ AskFor(p) \/ FetchSegment(p) \/ CancelDownload
    PROVE  DownloadInv'
<1> USE DownloadAssumption DEF DownloadInv, DTypes, Parts
<1>1. CASE StartFetch
  <2>1. started + 1 \in Parts /\ fetching' = [fetching EXCEPT ![started + 1] = "starts"] /\ started' = started + 1
    BY <1>1 DEF StartFetch, Fetching
  <2>2. DTypes' /\ Prefix' /\ EndReached'
    BY <1>1, <2>1 DEF StartFetch, Prefix, EndReached
  <2>3. NoneLost'
    BY <1>1, <2>1 DEF StartFetch, NoneLost, InChannel
  <2> QED  BY <2>2, <2>3
<1>2. CASE Skip(p)
  <2>1. DTypes' /\ Prefix' /\ EndReached'
    BY <1>2 DEF Skip, Fetching, Prefix, EndReached
  <2>2. NoneLost'
    BY <1>2 DEF Skip, Fetching, NoneLost, InChannel
  <2> QED  BY <2>1, <2>2
<1>3. CASE AskFor(p)
  <2>1. DTypes' /\ Prefix' /\ EndReached'
    BY <1>3 DEF AskFor, Fetching, Prefix, EndReached
  <2>2. NoneLost'
    BY <1>3 DEF AskFor, Fetching, NoneLost, InChannel
  <2> QED  BY <2>1, <2>2
<1>4. CASE FetchSegment(p)
  <2>1. PICK outcome \in Outcomes : fetching' = [fetching EXCEPT ![p] = outcome]
    BY <1>4 DEF FetchSegment, Fetching, Outcomes
  <2>2. DTypes' /\ Prefix' /\ EndReached'
    BY <1>4, <2>1 DEF FetchSegment, Prefix, EndReached, Outcomes
  <2>3. NoneLost'
    BY <1>4, <2>1 DEF FetchSegment, NoneLost, InChannel, Outcomes
  <2> QED  BY <2>2, <2>3
<1>5. CASE CancelDownload
  BY <1>5 DEF CancelDownload, Prefix, EndReached, NoneLost, InChannel
<1> QED  BY <1>1, <1>2, <1>3, <1>4, <1>5

LEMMA SendKeeps == ASSUME DownloadInv, NEW p \in Parts, Send(p) PROVE DownloadInv'
<1>1. fetching[p] \in Outcomes /\ fetching' = [fetching EXCEPT ![p] = "ended"]
  BY DEF Send, Fetching, Outcomes
<1>2. /\ channel' \in Seq(Parts \X Outcomes) /\ InChannel(p)'
      /\ \A q \in Parts : InChannel(q) => InChannel(q)'
  BY <1>1, Sent DEF DownloadInv, Send
<1>3. DTypes' /\ Prefix' /\ EndReached'
  BY <1>1, <1>2 DEF DownloadInv, DTypes, Prefix, EndReached, Send
<1>4. NoneLost'
  <2> USE <1>1, <1>2 DEF DownloadInv, DTypes, Send
  <2>1. \A q \in Parts : q <= started' => fetching'[q] # "none"
    BY DEF NoneLost
  <2>2. ASSUME errors' = {}, NEW q \in Parts, fetching'[q] = "ended"
        PROVE  q < nextToWrite' \/ q \in pending' \/ InChannel(q)'
    BY <2>2 DEF NoneLost
  <2> QED  BY <2>1, <2>2 DEF NoneLost
<1> QED  BY <1>3, <1>4 DEF DownloadInv

(* The writer.                                                             *)
LEMMA ReceiveKeeps == ASSUME DownloadInv, Receive PROVE DownloadInv'
<1> DEFINE p == Head(channel)[1]
<1>1. /\ channel' \in Seq(Parts \X Outcomes) /\ p \in Parts
      /\ \A q \in Parts : InChannel(q) => q = p \/ InChannel(q)'
  BY Received DEF DownloadInv, Receive
<1>2. CASE Head(channel)[2] = "error"
  <2>1. "write" \in errors' /\ errors' \subseteq {"fetch", "write"} /\ pending' = pending /\ writing' = writing
    BY <1>2 DEF Receive, DownloadInv, DTypes
  <2> QED  BY <1>1, <2>1 DEF Receive, DownloadInv, DTypes, Prefix, NoneLost, EndReached
<1>3. CASE Head(channel)[2] # "error"
  <2>1. pending' = pending \cup {p} /\ writing' = TRUE /\ errors' = errors
    BY <1>3 DEF Receive
  <2>2. DTypes' /\ Prefix' /\ EndReached'
    BY <1>1, <2>1 DEF Receive, DownloadInv, DTypes, Prefix, EndReached
  <2>3. NoneLost'
    BY <1>1, <2>1 DEF Receive, DownloadInv, NoneLost
  <2> QED  BY <2>2, <2>3 DEF DownloadInv
<1> QED  BY <1>2, <1>3

LEMMA WriteKeeps == ASSUME DownloadInv, WriteSegment PROVE DownloadInv'
<1> USE DownloadAssumption DEF DownloadInv, DTypes, Parts
<1>1. nextToWrite \in pending /\ nextToWrite \in Parts /\ pending' = pending \ {nextToWrite}
  BY DEF WriteSegment, InOrder
<1>2. CASE /\ written' = Append(written, nextToWrite) /\ nextToWrite' = nextToWrite + 1
           /\ UNCHANGED <<writing, errors>>
  <2>1. DTypes'
    <3>1. written' \in Seq(Parts)
      BY <1>1, <1>2
    <3>2. nextToWrite' \in 1 .. Length + 1 /\ pending' \subseteq Parts
      BY <1>1, <1>2
    <3> QED  BY <1>2, <3>1, <3>2 DEF WriteSegment
  <2>2. Prefix'
    BY <1>1, <1>2 DEF Prefix
  <2>3. EndReached'
    BY <1>1, <1>2 DEF WriteSegment, EndReached
  <2>4. NoneLost'
    BY <1>1, <1>2 DEF WriteSegment, NoneLost, InChannel
  <2> QED  BY <2>1, <2>2, <2>3, <2>4
<1>3. CASE /\ errors' = errors \cup {"write"} /\ writing' = FALSE
           /\ UNCHANGED <<written, nextToWrite>>
  BY <1>1, <1>3 DEF WriteSegment, Prefix, EndReached, NoneLost
<1> QED  BY <1>1, <1>2, <1>3 DEF WriteSegment, InOrder

LEMMA MissedKeeps == ASSUME DownloadInv, Missed PROVE DownloadInv'
BY DEF Missed, InOrder, DownloadInv, DTypes, Prefix, NoneLost, EndReached, InChannel

\* Nobody is at work any more and nothing is under way, so that without an
\* error there is nothing left that could be next.
LEMMA ReturnKeeps == ASSUME DownloadInv, Return PROVE DownloadInv'
<1> USE DownloadAssumption DEF DownloadInv, DTypes, Parts
<1>1. ASSUME errors = {} PROVE nextToWrite = Length + 1
  <2> SUFFICES ASSUME nextToWrite \in Parts PROVE FALSE
    OBVIOUS
  <2>1. fetching[nextToWrite] = "ended"
    BY DEF Return, Active, NoneLost
  <2>2. ~InChannel(nextToWrite)
    BY DEF Return, InChannel
  <2> QED  BY <1>1, <2>1, <2>2 DEF Return, NoneLost
<1>2. returned' \in {"no", "nil", "error"} /\ (returned' = "nil" => errors = {})
  BY DEF Return
<1> QED  BY <1>1, <1>2 DEF Return, Prefix, NoneLost, EndReached, InChannel

\* Every step of a download.
LEMMA DownloadKeeps == DownloadInv /\ [DownloadNext]_downloadVars => DownloadInv'
<1> SUFFICES ASSUME DownloadInv, [DownloadNext]_downloadVars PROVE DownloadInv'
  OBVIOUS
<1>1. 1 \in Parts
  BY DownloadAssumption DEF Parts
<1>2. CASE StartFetch \/ CancelDownload
  BY <1>1, <1>2, FetchersKeep
<1>3. CASE \E p \in Parts : Skip(p) \/ AskFor(p) \/ FetchSegment(p)
  BY <1>3, FetchersKeep
<1>4. CASE \E p \in Parts : Send(p)
  BY <1>4, SendKeeps
<1>5. CASE Receive \/ WriteSegment \/ Missed \/ Return
  BY <1>5, ReceiveKeeps, WriteKeeps, MissedKeeps, ReturnKeeps
<1>6. CASE UNCHANGED downloadVars
  BY <1>6 DEF downloadVars, DownloadInv, DTypes, Prefix, NoneLost, EndReached, InChannel
<1> QED  BY <1>2, <1>3, <1>4, <1>5, <1>6 DEF DownloadNext

(* WrittenInOrder, for files of any length and any number of connections:  *)
(* what the writer of Usenet.Download has is the file from its beginning,  *)
(* and the call returns without an error only when it is all there.        *)
THEOREM WrittenInOrderAlways == DownloadSpec => []WrittenInOrder
<1>1. DownloadInv => WrittenInOrder
  BY DownloadAssumption DEF DownloadInv, DTypes, Prefix, EndReached, WrittenInOrder
<1> QED  BY DownloadKeeps, <1>1, DownloadInvInit, PTL DEF DownloadSpec

-----------------------------------------------------------------------------
(* UsenetReaders *)

EntryRecords == [refs : Int, recent : BOOLEAN, reader : {"none", "open", "closed", "failed"}]

RTypes ==
    /\ mapped \in Entries \cup {NoEntry} /\ made \in 0 .. MaxEntries /\ (mapped \in Entries => mapped <= made)
    /\ entry \in [Entries -> EntryRecords]
    /\ stream \in [Streams -> [pc : {"idle", "create", "count", "open", "read", "release"},
                               e : Entries \cup {NoEntry}]]
    /\ \A s \in Streams : stream[s].pc \notin {"idle", "create"} => stream[s].e \in Entries
    /\ sweeper \in [pc : {"idle", "counted", "judged", "closed"}, e : Entries \cup {NoEntry}]

Calm == closing = "no" /\ surprised = {}

\* Who uses an entry uses the one of the map.
OfTheMap == \A e \in Entries : Users(e) # {} => e = mapped

Counted == \A e \in Entries : entry[e].refs = Cardinality(Users(e))

\* The ticker is at the entry of the map, and nobody uses that.
SweepsUnused ==
    /\ sweeper.pc # "idle" => sweeper.e = mapped /\ mapped \in Entries /\ Users(mapped) = {}
    /\ sweeper.pc = "idle" => sweeper.e = NoEntry

\* A closed reader is that of an entry nobody can take any more.
ClosedUnused ==
    /\ \A e \in Entries : entry[e].reader = "closed" =>
            Users(e) = {} /\ (e = mapped => sweeper.pc = "closed")
    /\ \A e \in Entries : e > made => entry[e].reader = "none"

ReadersInv == RTypes /\ (Calm => OfTheMap /\ Counted /\ SweepsUnused /\ ClosedUnused)

(* The updates of an entry.                                                *)
LEMMA CountUpdate ==
    ASSUME NEW r \in EntryRecords, NEW n \in Int
    PROVE  /\ [r EXCEPT !.refs = n, !.recent = TRUE] \in EntryRecords
           /\ [r EXCEPT !.refs = n, !.recent = TRUE].refs = n
           /\ [r EXCEPT !.refs = n, !.recent = TRUE].reader = r.reader
<1>1. ASSUME NEW b \in BOOLEAN
      PROVE  /\ [r EXCEPT !.refs = n, !.recent = b] \in EntryRecords
             /\ [r EXCEPT !.refs = n, !.recent = b].refs = n
             /\ [r EXCEPT !.refs = n, !.recent = b].reader = r.reader
  BY DEF EntryRecords
<1> QED  BY <1>1, TRUE \in BOOLEAN, Zenon

LEMMA ReaderUpdate ==
    ASSUME NEW r \in EntryRecords, NEW state \in {"none", "open", "closed", "failed"}
    PROVE  [r EXCEPT !.reader = state] \in EntryRecords
BY DEF EntryRecords

LEMMA UsersFinite == \A e : IsFiniteSet(Users(e)) /\ (Cardinality(Users(e)) = 0 <=> Users(e) = {})
BY ReadersAssumption, FS_Subset, FS_EmptySet DEF Users

LEMMA ReadersInvInit == ReadersInit => ReadersInv
<1> SUFFICES ASSUME ReadersInit PROVE ReadersInv
  OBVIOUS
<1> USE ReadersAssumption DEF ReadersInit, Entries, Idle
<1>1. RTypes
  BY DEF RTypes, EntryRecords
<1>2. \A e : Users(e) = {}
  BY DEF Users
<1>3. Counted
  BY <1>2, FS_EmptySet DEF Counted
<1>4. OfTheMap /\ SweepsUnused /\ ClosedUnused
  BY <1>2 DEF OfTheMap, SweepsUnused, ClosedUnused
<1> QED  BY <1>1, <1>3, <1>4 DEF ReadersInv

(* A step that leaves the users, the counts and the readers alone.         *)
LEMMA ToAndFro ==
    ASSUME ReadersInv, NEW s \in Streams, LookUp(s) \/ CannotCreate(s) \/ Create(s)
    PROVE  ReadersInv'
<1> USE ReadersAssumption
<1>0. /\ stream[s].pc \in {"idle", "create"}
      /\ \/ mapped' = mapped /\ made' = made
         \/ mapped = NoEntry /\ mapped' = made + 1 /\ made' = made + 1 /\ made < MaxEntries
  BY DEF LookUp, CannotCreate, Create, StreamAt
<1>5. /\ mapped' \in Entries \cup {NoEntry} /\ made' \in 0 .. MaxEntries
      /\ mapped' \in Entries => mapped' <= made'
  BY <1>0 DEF ReadersInv, RTypes, Entries
<1>6. PICK pc \in {"idle", "create", "count"}, d \in Entries \cup {NoEntry} :
         stream' = [stream EXCEPT ![s] = [pc |-> pc, e |-> d]] /\ (pc = "count" => d \in Entries)
  <2>1. ASSUME NEW pc \in {"idle", "create", "count"}, NEW d \in Entries \cup {NoEntry},
               Goes(s, pc, d), pc = "count" => d \in Entries
        PROVE  \E p \in {"idle", "create", "count"}, b \in Entries \cup {NoEntry} :
                  stream' = [stream EXCEPT ![s] = [pc |-> p, e |-> b]] /\ (p = "count" => b \in Entries)
    BY <2>1 DEF Goes
  <2>2. CASE LookUp(s)
    BY <2>1, <2>2 DEF ReadersInv, RTypes, LookUp
  <2>3. CASE CannotCreate(s)
    BY <2>1, <2>3 DEF CannotCreate
  <2>4. CASE Create(s)
    <3>1. CASE mapped # NoEntry
      BY <2>1, <2>4, <3>1 DEF ReadersInv, RTypes, Create
    <3>2. CASE mapped = NoEntry
      <4>1. made + 1 \in Entries
        BY <2>4, <3>2 DEF ReadersInv, RTypes, Create, Entries
      <4> QED  BY <2>1, <2>4, <3>2, <4>1 DEF Create
    <3> QED  BY <3>1, <3>2
  <2> QED  BY <2>2, <2>3, <2>4
<1>1. RTypes'
  <2>1. entry' = entry /\ sweeper' = sweeper
    BY DEF LookUp, CannotCreate, Create
  <2>2. stream' \in [Streams -> [pc : {"idle", "create", "count", "open", "read", "release"},
                                 e : Entries \cup {NoEntry}]]
    BY <1>6 DEF ReadersInv, RTypes
  <2>3. \A t \in Streams : stream'[t].pc \notin {"idle", "create"} => stream'[t].e \in Entries
    BY <1>6 DEF ReadersInv, RTypes
  <2> QED  BY <1>5, <2>1, <2>2, <2>3 DEF ReadersInv, RTypes
<1>2. \A e \in Entries : Users(e)' = Users(e)
  BY <1>0, <1>6 DEF ReadersInv, RTypes, Users
<1>3. entry' = entry /\ sweeper' = sweeper /\ closing' = closing /\ surprised' = surprised
  BY DEF LookUp, CannotCreate, Create
<1>4. ASSUME Calm' PROVE (OfTheMap /\ Counted /\ SweepsUnused /\ ClosedUnused)'
  <2>1. OfTheMap /\ Counted /\ SweepsUnused /\ ClosedUnused
    BY <1>3, <1>4 DEF Calm, ReadersInv
  <2>2. CASE mapped' = mapped /\ made' = made
    BY <1>2, <1>3, <2>1, <2>2 DEF OfTheMap, Counted, SweepsUnused, ClosedUnused, ReadersInv, RTypes
  <2>3. CASE mapped = NoEntry /\ mapped' = made + 1 /\ made' = made + 1
    <3>1. \A e \in Entries : Users(e) = {}
      BY <2>1, <2>3 DEF OfTheMap
    <3>2. sweeper.pc = "idle"
      BY <2>1, <2>3 DEF SweepsUnused
    <3>3. ClosedUnused'
      BY <1>1, <1>2, <1>3, <2>1, <2>3 DEF ClosedUnused, ReadersInv, RTypes, Entries
    <3> QED  BY <1>2, <1>3, <2>1, <3>1, <3>2, <3>3 DEF OfTheMap, Counted, SweepsUnused
  <2> QED  BY <1>0, <2>2, <2>3
<1> QED  BY <1>1, <1>4 DEF ReadersInv

LEMMA CountKeeps ==
    ASSUME ReadersInv, NEW s \in Streams, Count(s)
    PROVE  ReadersInv'
<1>0. PICK e \in Entries : e = stream[s].e
  BY DEF ReadersInv, RTypes, Count, StreamAt
<1>1. /\ stream[s].pc = "count" /\ stream' = [stream EXCEPT ![s] = [pc |-> "open", e |-> e]]
      /\ entry' = [entry EXCEPT ![e].refs = @ + 1, ![e].recent = TRUE]
      /\ mapped' = mapped /\ made' = made /\ sweeper' = sweeper /\ closing' = closing
      /\ (surprised' = {} => surprised = {} /\ ~Unsafe(e))
  BY <1>0 DEF Count, StreamAt, Goes
<1>2. RTypes'
  <2>0. entry[e] \in EntryRecords /\ entry[e].refs + 1 \in Int
    BY DEF ReadersInv, RTypes, EntryRecords
  <2>3. entry' = [entry EXCEPT ![e] = [entry[e] EXCEPT !.refs = entry[e].refs + 1, !.recent = TRUE]]
    BY <1>1 DEF ReadersInv, RTypes
  <2>4. [entry[e] EXCEPT !.refs = entry[e].refs + 1, !.recent = TRUE] \in EntryRecords
    BY <2>0, CountUpdate
  <2>1. entry' \in [Entries -> EntryRecords]
    BY <2>3, <2>4 DEF ReadersInv, RTypes
  <2>2. stream' \in [Streams -> [pc : {"idle", "create", "count", "open", "read", "release"},
                                 e : Entries \cup {NoEntry}]]
    BY <1>1 DEF ReadersInv, RTypes
  <2> QED  BY <1>1, <2>1, <2>2 DEF ReadersInv, RTypes
<1>3. Users(e)' = Users(e) \cup {s} /\ s \notin Users(e)
  BY <1>0, <1>1 DEF Users, ReadersInv, RTypes
<1>4. \A d \in Entries : d # e => Users(d)' = Users(d)
  BY <1>0, <1>1 DEF Users, ReadersInv, RTypes
<1>5. ASSUME Calm' PROVE (OfTheMap /\ Counted /\ SweepsUnused /\ ClosedUnused)'
  <2>1. OfTheMap /\ Counted /\ SweepsUnused /\ ClosedUnused
    BY <1>1, <1>5 DEF Calm, ReadersInv
  <2>2. mapped = e /\ sweeper.e # e
    BY <1>1, <1>5 DEF Calm, Unsafe
  <2>3. Cardinality(Users(e)') = Cardinality(Users(e)) + 1
    BY <1>3, UsersFinite, FS_AddElement
  <2>4. \A d \in Entries : /\ entry'[d].reader = entry[d].reader
                           /\ entry'[d].refs = IF d = e THEN entry[d].refs + 1 ELSE entry[d].refs
    BY <1>1 DEF ReadersInv, RTypes
  <2>5. Counted'
    <3> SUFFICES ASSUME NEW d \in Entries PROVE entry'[d].refs = Cardinality(Users(d)')
      BY DEF Counted
    <3>1. CASE d = e
      BY <1>1, <2>1, <2>3, <2>4, <3>1 DEF Counted
    <3>2. CASE d # e
      BY <1>4, <2>1, <2>4, <3>2 DEF Counted
    <3> QED  BY <3>1, <3>2
  <2>6. OfTheMap'
    BY <1>1, <1>4, <2>1, <2>2 DEF OfTheMap
  <2>7. SweepsUnused'
    BY <1>1, <2>1, <2>2 DEF SweepsUnused
  <2>8. ClosedUnused'
    <3>1. entry[e].reader # "closed"
      BY <1>1, <2>1, <2>2 DEF ClosedUnused, SweepsUnused
    <3> QED  BY <1>1, <1>4, <2>1, <2>4, <3>1 DEF ClosedUnused
  <2> QED  BY <2>5, <2>6, <2>7, <2>8
<1> QED  BY <1>2, <1>5 DEF ReadersInv

(* A user stays one.                                                       *)
LEMMA UseKeeps ==
    ASSUME ReadersInv, NEW s \in Streams, Open(s) \/ UseEnds(s)
    PROVE  ReadersInv'
<1>0. PICK e \in Entries : e = stream[s].e
  BY DEF ReadersInv, RTypes, Open, UseEnds, StreamAt
<1>1. /\ stream[s].pc \in {"open", "read"}
      /\ \E pc \in {"read", "release"} : stream' = [stream EXCEPT ![s] = [pc |-> pc, e |-> e]]
      /\ mapped' = mapped /\ made' = made /\ sweeper' = sweeper /\ closing' = closing /\ surprised' = surprised
  BY <1>0 DEF Open, UseEnds, StreamAt, Goes
<1>2. entry' = entry \/ \E r \in {"open", "failed"} :
          entry' = [entry EXCEPT ![e].reader = IF @ = "none" THEN r ELSE @]
  BY <1>0 DEF Open, UseEnds
<1>3. RTypes'
  <2>0. entry \in [Entries -> EntryRecords] /\ entry[e] \in EntryRecords /\ entry[e].reader \in {"none", "open", "closed", "failed"}
    BY DEF ReadersInv, RTypes, EntryRecords
  <2>2. ASSUME NEW r \in {"open", "failed"},
               entry' = [entry EXCEPT ![e].reader = IF @ = "none" THEN r ELSE @]
        PROVE  entry' \in [Entries -> EntryRecords]
    <3> DEFINE state == IF entry[e].reader = "none" THEN r ELSE entry[e].reader
    <3>1. state \in {"none", "open", "closed", "failed"}
      BY <2>0
    <3>2. [entry[e] EXCEPT !.reader = state] \in EntryRecords
      BY <2>0, <3>1, ReaderUpdate
    <3>3. entry' = [entry EXCEPT ![e] = [entry[e] EXCEPT !.reader = state]]
      BY <2>0, <2>2
    <3> HIDE DEF state
    <3> QED  BY <2>0, <3>2, <3>3
  <2>1. entry' \in [Entries -> EntryRecords]
    BY <1>2, <2>0, <2>2
  <2> QED  BY <1>1, <2>1 DEF ReadersInv, RTypes
<1>4. \A d \in Entries : Users(d)' = Users(d)
  BY <1>0, <1>1 DEF Users, ReadersInv, RTypes
<1>5. s \in Users(e)
  BY <1>0, <1>1 DEF Users
<1>6. \A d \in Entries : /\ entry'[d].refs = entry[d].refs
                         /\ entry'[d].reader = "closed" <=> entry[d].reader = "closed"
                         /\ d # e => entry'[d].reader = entry[d].reader
  BY <1>1, <1>2 DEF ReadersInv, RTypes, EntryRecords
<1>7. ASSUME Calm' PROVE (OfTheMap /\ Counted /\ SweepsUnused /\ ClosedUnused)'
  <2>1. OfTheMap /\ Counted /\ SweepsUnused /\ ClosedUnused
    BY <1>1, <1>7 DEF Calm, ReadersInv
  <2>2. OfTheMap' /\ Counted'
    BY <1>1, <1>4, <1>6, <2>1 DEF OfTheMap, Counted
  <2>3. SweepsUnused'
    BY <1>1, <1>4, <2>1 DEF SweepsUnused
  <2>4. e <= made /\ e \in Nat /\ made \in Nat
    BY <1>5, <2>1 DEF OfTheMap, ReadersInv, RTypes, Entries
  <2>5. ClosedUnused'
    <3>1. \A d \in Entries : d > made => d # e
      BY <2>4
    <3> QED  BY <1>1, <1>4, <1>6, <2>1, <3>1 DEF ClosedUnused
  <2> QED  BY <2>2, <2>3, <2>5
<1> QED  BY <1>3, <1>7 DEF ReadersInv

LEMMA GivesBackKeeps ==
    ASSUME ReadersInv, NEW s \in Streams, GivesBack(s)
    PROVE  ReadersInv'
<1>0. PICK e \in Entries : e = stream[s].e
  BY DEF ReadersInv, RTypes, GivesBack, StreamAt
<1>1. /\ stream[s].pc = "release" /\ stream' = [stream EXCEPT ![s] = [pc |-> "idle", e |-> NoEntry]]
      /\ mapped' = mapped /\ made' = made /\ sweeper' = sweeper /\ closing' = closing /\ surprised' = surprised
  BY <1>0 DEF GivesBack, StreamAt, Goes
<1>2. \A d \in Entries : entry'[d] = IF d = mapped THEN [entry[d] EXCEPT !.refs = @ - 1, !.recent = TRUE]
                                                   ELSE entry[d]
  BY DEF GivesBack, Release
<1>3. RTypes'
  <2>3. \A d \in Entries : entry[d] \in EntryRecords /\ entry[d].refs - 1 \in Int
    BY DEF ReadersInv, RTypes, EntryRecords
  <2>4. \A d \in Entries : [entry[d] EXCEPT !.refs = @ - 1, !.recent = TRUE] \in EntryRecords
    BY <2>3, CountUpdate
  <2>1. entry' \in [Entries -> EntryRecords]
    BY <2>3, <2>4 DEF GivesBack
  <2>2. stream' \in [Streams -> [pc : {"idle", "create", "count", "open", "read", "release"},
                                 e : Entries \cup {NoEntry}]]
    BY <1>1 DEF ReadersInv, RTypes
  <2> QED  BY <1>1, <2>1, <2>2 DEF ReadersInv, RTypes
<1>4. s \in Users(e) /\ Users(e)' = Users(e) \ {s}
  BY <1>0, <1>1, ReadersAssumption DEF Users, ReadersInv, RTypes
<1>5. \A d \in Entries : d # e => Users(d)' = Users(d)
  BY <1>0, <1>1, ReadersAssumption DEF Users, ReadersInv, RTypes
<1>6. ASSUME Calm' PROVE (OfTheMap /\ Counted /\ SweepsUnused /\ ClosedUnused)'
  <2>1. OfTheMap /\ Counted /\ SweepsUnused /\ ClosedUnused
    BY <1>1, <1>6 DEF Calm, ReadersInv
  <2>2. mapped = e
    BY <1>4, <2>1 DEF OfTheMap
  <2>3. Cardinality(Users(e)') = Cardinality(Users(e)) - 1
    BY <1>4, UsersFinite, FS_RemoveElement
  <2>4. \A d \in Entries : /\ entry'[d].reader = entry[d].reader
                           /\ entry'[d].refs = IF d = e THEN entry[d].refs - 1 ELSE entry[d].refs
    <3>1. \A d \in Entries : entry[d] \in EntryRecords /\ entry[d].refs - 1 \in Int
      BY DEF ReadersInv, RTypes, EntryRecords
    <3>2. \A d \in Entries : /\ [entry[d] EXCEPT !.refs = @ - 1, !.recent = TRUE].refs = entry[d].refs - 1
                             /\ [entry[d] EXCEPT !.refs = @ - 1, !.recent = TRUE].reader = entry[d].reader
      BY <3>1, CountUpdate
    <3> QED  BY <1>2, <2>2, <3>2
  <2>5. Counted'
    <3> SUFFICES ASSUME NEW d \in Entries PROVE entry'[d].refs = Cardinality(Users(d)')
      BY DEF Counted
    <3>1. CASE d = e
      BY <2>1, <2>3, <2>4, <3>1 DEF Counted
    <3>2. CASE d # e
      BY <1>5, <2>1, <2>4, <3>2 DEF Counted
    <3> QED  BY <3>1, <3>2
  <2>6. OfTheMap'
    BY <1>1, <1>5, <2>1, <2>2 DEF OfTheMap
  <2>7. sweeper.pc = "idle"
    BY <1>4, <2>1, <2>2 DEF SweepsUnused
  <2>8. SweepsUnused'
    BY <1>1, <2>1, <2>7 DEF SweepsUnused
  <2>9. ClosedUnused'
    <3>1. entry[e].reader # "closed"
      BY <1>4, <2>1 DEF ClosedUnused
    <3> QED  BY <1>1, <1>5, <2>1, <2>4, <3>1 DEF ClosedUnused
  <2> QED  BY <2>5, <2>6, <2>8, <2>9
<1> QED  BY <1>3, <1>6 DEF ReadersInv

(* The ticker, and the time that goes by.                                  *)
LEMMA SweeperKeeps ==
    ASSUME ReadersInv, Age \/ LooksAt \/ Judges \/ Cleans
    PROVE  ReadersInv'
<1>1. mapped' = mapped /\ made' = made /\ stream' = stream /\ closing' = closing /\ surprised' = surprised
  BY DEF Age, LooksAt, Judges, Cleans
<1>2. \A d \in Entries : Users(d)' = Users(d)
  BY <1>1 DEF Users
<1>3. /\ sweeper' \in [pc : {"idle", "counted", "judged", "closed"}, e : Entries \cup {NoEntry}]
      /\ entry' \in [Entries -> EntryRecords]
  <2>1. CASE Age
    BY ZenonT(60), <2>1 DEF Age, ReadersInv, RTypes, EntryRecords
  <2>2. CASE LooksAt
    BY <2>2 DEF LooksAt, Swept, ReadersInv, RTypes
  <2>3. CASE Judges
    BY <2>3 DEF Judges, Swept, ReadersInv, RTypes
  <2>4. CASE Cleans
    BY ZenonT(60), <2>4 DEF Cleans, CloseReader, Swept, ReadersInv, RTypes, EntryRecords
  <2> QED  BY <2>1, <2>2, <2>3, <2>4
<1>4. RTypes'
  BY <1>1, <1>3 DEF ReadersInv, RTypes
<1>5. ASSUME Calm' PROVE (OfTheMap /\ Counted /\ SweepsUnused /\ ClosedUnused)'
  <2>1. OfTheMap /\ Counted /\ SweepsUnused /\ ClosedUnused
    BY <1>1, <1>5 DEF Calm, ReadersInv
  <2>2. \A d \in Entries : entry'[d].refs = entry[d].refs
    BY DEF Age, LooksAt, Judges, Cleans, CloseReader, ReadersInv, RTypes, EntryRecords
  <2>3. OfTheMap' /\ Counted'
    BY <1>1, <1>2, <2>1, <2>2 DEF OfTheMap, Counted
  <2>4. CASE Age
    <3>1. sweeper' = sweeper /\ \A d \in Entries : entry'[d].reader = entry[d].reader
      BY <2>4 DEF Age, ReadersInv, RTypes
    <3> QED  BY <1>1, <1>2, <2>1, <2>3, <3>1 DEF SweepsUnused, ClosedUnused, ReadersInv, RTypes
  <2>5. CASE LooksAt
    <3>1. mapped \in Entries /\ Users(mapped) = {}
      BY <2>1, <2>5, UsersFinite DEF LooksAt, Counted, ReadersInv, RTypes
    <3>2. entry' = entry /\ sweeper.pc = "idle" /\ sweeper' = [pc |-> "counted", e |-> mapped]
      BY <2>5 DEF LooksAt, Swept
    <3> QED  BY <1>1, <1>2, <2>1, <2>3, <3>1, <3>2 DEF SweepsUnused, ClosedUnused
  <2>6. CASE Judges
    <3>1. /\ entry' = entry /\ sweeper.pc = "counted"
          /\ sweeper' = [pc |-> "idle", e |-> NoEntry] \/ sweeper' = [pc |-> "judged", e |-> sweeper.e]
      BY <2>6 DEF Judges, Swept
    <3> QED  BY <1>1, <1>2, <2>1, <2>3, <3>1 DEF SweepsUnused, ClosedUnused
  <2>7. CASE Cleans
    <3>1. sweeper.pc = "judged" /\ sweeper' = [pc |-> "closed", e |-> sweeper.e]
      BY <2>7 DEF Cleans, Swept
    <3>2. \A d \in Entries : entry'[d].reader = IF d = sweeper.e /\ entry[d].reader = "open"
                                                THEN "closed" ELSE entry[d].reader
      BY <2>7 DEF Cleans, CloseReader, ReadersInv, RTypes
    <3>3. sweeper.e = mapped /\ mapped \in Entries /\ Users(mapped) = {} /\ mapped <= made
      BY <2>1, <3>1 DEF SweepsUnused, ReadersInv, RTypes
    <3>4. SweepsUnused'
      BY <1>1, <1>2, <3>1, <3>3 DEF SweepsUnused
    <3>5. ClosedUnused'
      <4>1. \A d \in Entries : d > made => d # mapped
        BY <3>3 DEF ReadersInv, RTypes, Entries
      <4> QED  BY <1>1, <1>2, <2>1, <3>1, <3>2, <3>3, <4>1 DEF ClosedUnused
    <3> QED  BY <2>3, <3>4, <3>5
  <2> QED  BY <2>4, <2>5, <2>6, <2>7
<1> QED  BY <1>4, <1>5 DEF ReadersInv

LEMMA DropsKeeps ==
    ASSUME ReadersInv, Drops
    PROVE  ReadersInv'
<1> USE ReadersAssumption
<1>1. /\ sweeper.pc = "closed" /\ mapped' = NoEntry /\ sweeper' = [pc |-> "idle", e |-> NoEntry]
      /\ entry' = entry /\ made' = made /\ stream' = stream /\ closing' = closing
      /\ (surprised' = {} => surprised = {})
  BY DEF Drops, Swept
<1>2. RTypes'
  BY <1>1 DEF ReadersInv, RTypes
<1>3. \A d \in Entries : Users(d)' = Users(d)
  BY <1>1 DEF Users
<1>4. ASSUME Calm' PROVE (OfTheMap /\ Counted /\ SweepsUnused /\ ClosedUnused)'
  <2>1. OfTheMap /\ Counted /\ SweepsUnused /\ ClosedUnused
    BY <1>1, <1>4 DEF Calm, ReadersInv
  <2>2. \A d \in Entries : Users(d) = {}
    BY <1>1, <2>1 DEF OfTheMap, SweepsUnused
  <2>3. OfTheMap' /\ Counted' /\ SweepsUnused'
    BY <1>1, <1>3, <2>1, <2>2 DEF OfTheMap, Counted, SweepsUnused
  <2>4. ClosedUnused'
    BY <1>1, <1>3, <2>1, <2>2 DEF ClosedUnused
  <2> QED  BY <2>3, <2>4
<1> QED  BY <1>2, <1>4 DEF ReadersInv

(* After Close nothing is claimed.                                         *)
LEMMA CloseKeeps ==
    ASSUME ReadersInv, CloseReaders \/ ClearMap
    PROVE  ReadersInv'
<1>1. RTypes'
  <2>1. CASE CloseReaders
    <3>1. entry' \in [Entries -> EntryRecords]
      BY <2>1 DEF CloseReaders, CloseReader, ReadersInv, RTypes, EntryRecords
    <3> QED  BY <2>1, <3>1 DEF CloseReaders, ReadersInv, RTypes
  <2>2. CASE ClearMap
    BY <2>2, ReadersAssumption DEF ClearMap, ReadersInv, RTypes
  <2> QED  BY <2>1, <2>2
<1>2. ~Calm'
  BY DEF CloseReaders, ClearMap, Calm
<1> QED  BY <1>1, <1>2 DEF ReadersInv

\* Every step of the streams, the ticker and Close.
LEMMA ReadersKeep == ReadersInv /\ [ReadersNext]_readersVars => ReadersInv'
<1> SUFFICES ASSUME ReadersInv, [ReadersNext]_readersVars PROVE ReadersInv'
  OBVIOUS
<1>1. CASE \E s \in Streams :
             LookUp(s) \/ CannotCreate(s) \/ Create(s) \/ Count(s) \/ Open(s) \/ UseEnds(s) \/ GivesBack(s)
  BY <1>1, ToAndFro, CountKeeps, UseKeeps, GivesBackKeeps
<1>2. CASE Age \/ LooksAt \/ Judges \/ Cleans
  BY <1>2, SweeperKeeps
<1>3. CASE Drops
  BY <1>3, DropsKeeps
<1>4. CASE CloseReaders \/ ClearMap
  BY <1>4, CloseKeeps
<1>5. CASE UNCHANGED readersVars
  BY <1>5 DEF readersVars, ReadersInv, RTypes, Calm, OfTheMap, Counted, SweepsUnused, ClosedUnused, Users
<1> QED  BY <1>1, <1>2, <1>3, <1>4, <1>5 DEF ReadersNext

(* UsersAreCounted, for any number of streams and of entries: releaseFS    *)
(* counts down what getOrCreateEntry counted up, on every path out of      *)
(* Stream and PreCache, and no user has its reader closed under it, as     *)
(* long as nobody takes an entry while cleanupIdleFS or Close is at it.    *)
THEOREM UsersAreCountedAlways == ReadersSpec => []UsersAreCounted
<1>1. ReadersInv => UsersAreCounted
  <2> SUFFICES ASSUME ReadersInv, Calm, NEW e \in Entries
               PROVE  /\ entry[e].refs = Cardinality(Users(e))
                      /\ entry[e].reader = "closed" => \A s \in Users(e) : ~StreamAt(s, "read")
    BY DEF UsersAreCounted, Calm
  <2> QED  BY DEF ReadersInv, Counted, ClosedUnused
<1> QED  BY ReadersKeep, <1>1, ReadersInvInit, PTL DEF ReadersSpec

-----------------------------------------------------------------------------
(* ArticleChecks *)

CheckFields  == {"pc", "chunks", "found", "missing", "cancelled", "verdict"}
WorkerFields == {"pc", "chunk", "next", "open", "notFound", "otherErr"}

Fields ==
    /\ DOMAIN check = Checks /\ DOMAIN worker = Workers
    /\ \A c \in Checks : DOMAIN check[c] = CheckFields
    /\ \A w \in Workers : DOMAIN worker[w] = WorkerFields
    /\ gone \subseteq Segments \X Sources

Nowhere(s) == s \in Segments /\ \A p \in Hosts : <<s, Source[p]>> \in gone

\* What a worker has been told, of the providers it is through with: each of
\* them has no such segment, unless the segment was found or there was an error.
ToldTrue(r) ==
    /\ r.next \in 1 .. Len(Providers) + 1 /\ r.notFound \subseteq gone
    /\ \A s \in r.open \ r.otherErr :
          \A i \in 1 .. r.next - 1 : <<s, Source[Providers[i]]>> \in r.notFound

ChecksInv ==
    /\ Fields
    /\ \A w \in Workers : WorkerAt(w, "stat") => ToldTrue(worker[w])
    /\ \A c \in Checks : \A s \in check[c].missing : Nowhere(s)
    /\ MissingIsMissing

LEMMA ChecksInvInit == ChecksInit => ChecksInv
BY DEF ChecksInit, ChecksInv, Fields, CheckFields, WorkerFields, NoWork, WorkerAt, MissingIsMissing

(* Steps of the call and of its workers that neither ask nor conclude.     *)
LEMMA ControlKeeps ==
    ASSUME ChecksInv,
           \/ \E c \in Checks : NotChecked(c) \/ Cancel(c)
           \/ \E w \in Workers : Acquire(w) \/ AcquireCancelled(w) \/ ChunkFails(w) \/ WorkerEnds(w) \/ Abandon(w)
    PROVE  ChecksInv'
<1>1. /\ gone' = gone
      /\ DOMAIN check' = Checks /\ DOMAIN worker' = Workers
      /\ \A c \in Checks : /\ DOMAIN check'[c] = CheckFields /\ check'[c].missing = check[c].missing
                           /\ check'[c].verdict \in {check[c].verdict, "fine"}
      /\ \A w \in Workers : /\ DOMAIN worker'[w] = WorkerFields
                            /\ worker'[w].pc = "stat" => worker'[w] = worker[w]
  <2>1. CASE \E c \in Checks : NotChecked(c) \/ Cancel(c)
    BY <2>1 DEF ChecksInv, Fields, CheckFields, NotChecked, Cancel
  <2>2. CASE \E w \in Workers : ChunkFails(w)
    BY <2>2 DEF ChecksInv, Fields, CheckFields, ChunkFails, NextChunk
  <2>3. CASE \E w \in Workers : Acquire(w) \/ AcquireCancelled(w) \/ Abandon(w)
    BY <2>3 DEF ChecksInv, Fields, WorkerFields, Acquire, AcquireCancelled, Abandon, WorkerGoes
  <2>4. CASE \E w \in Workers : WorkerEnds(w)
    BY <2>4 DEF ChecksInv, Fields, WorkerFields, WorkerEnds, NoWork
  <2> QED  BY <2>1, <2>2, <2>3, <2>4
<1>2. Fields'
  BY <1>1 DEF ChecksInv, Fields
<1>3. \A w \in Workers : (WorkerAt(w, "stat") => ToldTrue(worker[w]))'
  BY <1>1 DEF ChecksInv, WorkerAt, ToldTrue
<1>4. \A c \in Checks : \A s \in check'[c].missing : Nowhere(s)'
  BY <1>1 DEF ChecksInv, Nowhere
<1>5. MissingIsMissing'
  BY <1>1 DEF ChecksInv, MissingIsMissing
<1> QED  BY <1>2, <1>3, <1>4, <1>5 DEF ChecksInv

LEMMA CheckKeeps ==
    ASSUME ChecksInv, NEW c \in Checks, Check(c)
    PROVE  ChecksInv'
<1>1. /\ gone' = gone
      /\ DOMAIN check' = Checks /\ DOMAIN worker' = Workers
      /\ \A d \in Checks : /\ DOMAIN check'[d] = CheckFields /\ check'[d].missing = check[d].missing
                           /\ check'[d].verdict = check[d].verdict
  BY DEF ChecksInv, Fields, CheckFields, Check
<1>2. \A w \in Workers : /\ DOMAIN worker'[w] = WorkerFields
                         /\ worker'[w].pc = "stat" => worker'[w] = worker[w]
  BY DEF ChecksInv, Fields, WorkerFields, Check, NoWork
<1>3. Fields'
  BY <1>1, <1>2 DEF ChecksInv, Fields
<1>4. \A w \in Workers : (WorkerAt(w, "stat") => ToldTrue(worker[w]))'
  BY <1>1, <1>2 DEF ChecksInv, WorkerAt, ToldTrue
<1>5. \A d \in Checks : \A s \in check'[d].missing : Nowhere(s)'
  BY <1>1 DEF ChecksInv, Nowhere
<1>6. MissingIsMissing'
  BY <1>1 DEF ChecksInv, MissingIsMissing
<1> QED  BY <1>3, <1>4, <1>5, <1>6 DEF ChecksInv

LEMMA TakeKeeps ==
    ASSUME ChecksInv, NEW w \in Workers, Take(w)
    PROVE  ChecksInv'
<1> DEFINE new == [pc |-> "stat", chunk |-> Head(check[CallOf(w)].chunks), next |-> 1,
                   open |-> Head(check[CallOf(w)].chunks), notFound |-> {}, otherErr |-> {}]
<1>1. /\ gone' = gone /\ worker' = [worker EXCEPT ![w] = new]
      /\ DOMAIN check' = Checks
      /\ \A d \in Checks : /\ DOMAIN check'[d] = CheckFields /\ check'[d].missing = check[d].missing
                           /\ check'[d].verdict = check[d].verdict
  BY DEF ChecksInv, Fields, CheckFields, Take, NextChunk
<1>2. Len(Providers) \in Nat
  BY ChecksAssumption
<1>3. DOMAIN new = WorkerFields /\ ToldTrue(new)
  BY <1>2 DEF ToldTrue, WorkerFields
<1> HIDE DEF new
<1>4. Fields'
  BY <1>1, <1>3 DEF ChecksInv, Fields
<1>5. \A v \in Workers : (WorkerAt(v, "stat") => ToldTrue(worker[v]))'
  <2>1. \A v \in Workers : worker'[v] = IF v = w THEN new ELSE worker[v]
    BY <1>1 DEF ChecksInv, Fields
  <2> QED  BY <1>1, <1>3, <2>1 DEF ChecksInv, WorkerAt, ToldTrue
<1>6. \A d \in Checks : \A s \in check'[d].missing : Nowhere(s)'
  BY <1>1 DEF ChecksInv, Nowhere
<1>7. MissingIsMissing'
  BY <1>1 DEF ChecksInv, MissingIsMissing
<1> QED  BY <1>4, <1>5, <1>6, <1>7 DEF ChecksInv

LEMMA AskKeeps ==
    ASSUME ChecksInv, NEW w \in Workers, Ask(w)
    PROVE  ChecksInv'
<1>1. PICK failing \in SUBSET Queried(w) :
        LET b       == Source[Asked(w)]
            missing == {s \in Queried(w) \ failing : <<s, b>> \in gone}
        IN  worker' = [worker EXCEPT ![w].next     = @ + 1,
                                     ![w].open     = @ \ ((Queried(w) \ failing) \ missing),
                                     ![w].notFound = @ \cup (missing \X {b}),
                                     ![w].otherErr = @ \cup failing]
  BY DEF Ask
<1> DEFINE b       == Source[Providers[worker[w].next]]
           missing == {s \in Queried(w) \ failing : <<s, b>> \in gone}
<1>2. /\ DOMAIN worker' = Workers /\ \A v \in Workers : DOMAIN worker'[v] = WorkerFields
      /\ \A v \in Workers : v # w => worker'[v] = worker[v]
      /\ worker'[w].next = worker[w].next + 1 /\ worker'[w].notFound = worker[w].notFound \cup (missing \X {b})
      /\ worker'[w].open = worker[w].open \ ((Queried(w) \ failing) \ missing)
      /\ worker'[w].otherErr = worker[w].otherErr \cup failing
  BY <1>1 DEF ChecksInv, Fields, WorkerFields, Asked
<1>3. /\ gone' = gone /\ check' = check /\ WorkerAt(w, "stat") /\ ToldTrue(worker[w])
      /\ worker[w].next <= Len(Providers)
  BY DEF ChecksInv, Ask, HasNextProvider
<1>4. Len(Providers) \in Nat
  BY ChecksAssumption
<1>5. ToldTrue(worker'[w])
  <2>1. worker'[w].next \in 1 .. Len(Providers) + 1
    BY <1>2, <1>3, <1>4 DEF ToldTrue
  <2>2. worker'[w].notFound \subseteq gone
    BY <1>2, <1>3 DEF ToldTrue
  <2>3. ASSUME NEW s \in worker'[w].open \ worker'[w].otherErr, NEW i \in 1 .. worker'[w].next - 1
        PROVE  <<s, Source[Providers[i]]>> \in worker'[w].notFound
    <3>1. s \in worker[w].open \ worker[w].otherErr /\ s \notin failing
      BY <1>2
    <3>2. CASE i \in 1 .. worker[w].next - 1
      BY <1>2, <1>3, <3>1, <3>2 DEF ToldTrue
    <3>3. CASE i = worker[w].next
      <4>1. CASE s \in Queried(w)
        <5>1. s \in missing
          BY <1>2, <3>1, <4>1
        <5> QED  BY <1>2, <3>3, <5>1
      <4>2. CASE s \notin Queried(w)
        BY <1>2, <3>1, <3>3, <4>2 DEF Queried, Asked
      <4> QED  BY <4>1, <4>2
    <3> QED  BY <1>2, <1>3, <1>4, <3>2, <3>3 DEF ToldTrue
  <2> QED  BY <2>1, <2>2, <2>3 DEF ToldTrue
<1>6. Fields'
  BY <1>2, <1>3 DEF ChecksInv, Fields
<1>7. \A v \in Workers : (WorkerAt(v, "stat") => ToldTrue(worker[v]))'
  BY ZenonT(60), <1>2, <1>3, <1>5 DEF ChecksInv, WorkerAt, ToldTrue
<1>8. \A d \in Checks : \A s \in check'[d].missing : Nowhere(s)'
  BY <1>3 DEF ChecksInv, Nowhere
<1>9. MissingIsMissing'
  BY <1>3 DEF ChecksInv, MissingIsMissing
<1> QED  BY <1>6, <1>7, <1>8, <1>9 DEF ChecksInv

\* What is left open when all providers have been asked is nowhere.
LEMMA MissingNowhere ==
    ASSUME ChecksInv, NEW w \in Workers, WorkerAt(w, "stat"),
           worker[w].open = {} \/ worker[w].next > Len(Providers), NEW s \in Missing(w)
    PROVE  Nowhere(s)
<1>1. ToldTrue(worker[w]) /\ s \in worker[w].open \ worker[w].otherErr /\ worker[w].notFound \subseteq gone
  BY DEF ChecksInv, Missing, ToldTrue
<1>2. worker[w].next - 1 = Len(Providers) /\ Len(Providers) \in Nat
  BY <1>1, ChecksAssumption DEF ToldTrue
<1>3. s \in Segments
  BY <1>1 DEF Missing, ChecksInv, Fields
<1>4. ASSUME NEW p \in Hosts PROVE <<s, Source[p]>> \in gone
  <2>1. PICK i \in DOMAIN Providers : p = Providers[i]
    BY DEF Hosts, ToSet
  <2>2. i \in 1 .. Len(Providers)
    BY <2>1, ChecksAssumption
  <2> QED  BY <1>1, <1>2, <2>1, <2>2 DEF ToldTrue
<1> QED  BY <1>3, <1>4 DEF Nowhere

LEMMA ConcludeKeeps ==
    ASSUME ChecksInv, NEW w \in Workers, Conclude(w)
    PROVE  ChecksInv'
<1>1. /\ gone' = gone /\ DOMAIN worker' = Workers
      /\ \A v \in Workers : /\ DOMAIN worker'[v] = WorkerFields
                            /\ worker'[v].pc = "stat" => worker'[v] = worker[v]
  BY DEF ChecksInv, Fields, WorkerFields, Conclude, WorkerGoes
<1>2. /\ DOMAIN check' = Checks
      /\ \A c \in Checks : /\ DOMAIN check'[c] = CheckFields /\ check'[c].verdict = check[c].verdict
                           /\ check'[c].missing \subseteq check[c].missing \cup Missing(w)
  BY DEF ChecksInv, Fields, CheckFields, Conclude
<1>3. \A s \in Missing(w) : Nowhere(s)
  BY MissingNowhere DEF Conclude
<1>4. Fields'
  BY <1>1, <1>2 DEF ChecksInv, Fields
<1>5. \A v \in Workers : (WorkerAt(v, "stat") => ToldTrue(worker[v]))'
  BY <1>1 DEF ChecksInv, WorkerAt, ToldTrue
<1>6. \A c \in Checks : \A s \in check'[c].missing : Nowhere(s)'
  BY <1>1, <1>2, <1>3 DEF ChecksInv, Nowhere
<1>7. MissingIsMissing'
  BY <1>1, <1>2 DEF ChecksInv, MissingIsMissing
<1> QED  BY <1>4, <1>5, <1>6, <1>7 DEF ChecksInv

LEMMA JudgeKeeps ==
    ASSUME ChecksInv, NEW c \in Checks, Judge(c)
    PROVE  ChecksInv'
<1>1. gone' = gone /\ worker' = worker
  BY DEF Judge
<1>2. /\ DOMAIN check' = Checks
      /\ \A d \in Checks : /\ DOMAIN check'[d] = CheckFields /\ check'[d].missing = check[d].missing
                           /\ \/ check'[d].verdict \in {check[d].verdict, "fine"}
                              \/ check[d].missing # {}
  BY DEF ChecksInv, Fields, CheckFields, Judge
<1>3. Fields'
  BY <1>1, <1>2 DEF ChecksInv, Fields
<1>4. \A v \in Workers : (WorkerAt(v, "stat") => ToldTrue(worker[v]))'
  BY <1>1 DEF ChecksInv, WorkerAt, ToldTrue
<1>5. \A d \in Checks : \A s \in check'[d].missing : Nowhere(s)'
  BY <1>1, <1>2 DEF ChecksInv, Nowhere
<1>6. MissingIsMissing'
  BY <1>1, <1>2 DEF ChecksInv, MissingIsMissing, Nowhere
<1> QED  BY <1>3, <1>4, <1>5, <1>6 DEF ChecksInv

\* Every step of the checks.
LEMMA ChecksKeep == ChecksInv /\ [ChecksNext]_checkVars => ChecksInv'
<1> SUFFICES ASSUME ChecksInv, [ChecksNext]_checkVars PROVE ChecksInv'
  OBVIOUS
<1>1. CASE \/ \E c \in Checks : NotChecked(c) \/ Cancel(c)
           \/ \E w \in Workers : Acquire(w) \/ AcquireCancelled(w) \/ ChunkFails(w) \/ WorkerEnds(w) \/ Abandon(w)
  BY <1>1, ControlKeeps
<1>2. CASE \E c \in Checks : Check(c) \/ Judge(c)
  BY <1>2, CheckKeeps, JudgeKeeps
<1>3. CASE \E w \in Workers : Take(w) \/ Ask(w) \/ Conclude(w)
  BY <1>3, TakeKeeps, AskKeeps, ConcludeKeeps
<1>4. CASE UNCHANGED checkVars
  BY <1>4 DEF checkVars, ChecksInv, Fields, WorkerAt, ToldTrue, Nowhere, MissingIsMissing
<1> QED  BY <1>1, <1>2, <1>3, <1>4 DEF ChecksNext

(* MissingIsMissing, for any file, sample, providers and backbones, any    *)
(* chunks and tokens: when CheckFile says of a file that a segment is      *)
(* missing there is one that no provider has, whatever errors, lost        *)
(* connections and cancelled contexts BatchStat met on the way.            *)
THEOREM MissingIsMissingAlways == ChecksSpec => []MissingIsMissing
<1>1. ChecksInv => MissingIsMissing
  BY DEF ChecksInv
<1> QED  BY ChecksKeep, <1>1, ChecksInvInit, PTL DEF ChecksSpec

-----------------------------------------------------------------------------
(* NzbFiles *)

NzbPcs == {"idle", "mark", "store", "queue", "push", "complete", "processed", "unmark", "fail", "unmarkFailed", "remove",
           "scan", "file", "markers", "meta", "row"}
NzbStep == [pc : NzbPcs, id : Ids \cup {NoId}, todo : SUBSET Names, made : SUBSET Ids]

\* The ids that goroutine g, at w, has made and nobody else has yet: they get
\* their entry when the metadata are there.
Own(g, w) ==
    w.made \cup (IF w.pc \in {"mark", "store", "queue"} \/ (g \in Scans /\ w.pc \in {"complete", "processed", "unmark"})
                 THEN {w.id} ELSE {})
WithMeta(g, w) ==
    w.made \cup (IF w.pc = "queue" \/ (g \in Scans /\ w.pc \in {"processed", "unmark"}) THEN {w.id} ELSE {})

NzbTypes ==
    /\ file \subseteq Names /\ marks \subseteq Names \X Markers
    /\ meta \in [Ids -> {"none", "parsing", "completed", "failed"}]
    /\ entries \subseteq used /\ used \subseteq Ids /\ jobs \in Seq(used) /\ troubles \in 0 .. MaxMishaps
    /\ step \in [Jobs -> NzbStep]
    /\ \A g \in Jobs : /\ step[g].pc \notin {"idle", "scan"} => step[g].id \in used
                       /\ step[g].id \in used \cup {NoId} /\ step[g].made \subseteq used
    /\ \A g \in Jobs : (g \in Deletions => step[g].pc # "scan") /\ (g \notin Scans => step[g].made = {})
OwnersOK ==
    /\ \A g \in Jobs : Own(g, step[g]) \subseteq used \ entries
    /\ \A g, h \in Jobs : g # h => Own(g, step[g]) \cap Own(h, step[h]) = {}
    /\ \A d \in Deletions, g \in Jobs : step[d].pc # "idle" => step[d].id \notin Own(g, step[g])
StoredOK == \A g \in Jobs : \A i \in WithMeta(g, step[g]) : meta[i] # "none"

NzbInv == NzbTypes /\ OwnersOK /\ StoredOK /\ EntryHasMeta

LEMMA StepsAre ==
    ASSUME NzbInv, NEW g \in Jobs
    PROVE  /\ step[g] \in NzbStep /\ step[g].made \subseteq used /\ step[g].id \in used \cup {NoId}
           /\ step[g].pc \notin {"idle", "scan"} => step[g].id \in used /\ step[g].id \in Ids
BY DEF NzbInv, NzbTypes

LEMMA RestsOwnsNothing ==
    \A g : Rests \in NzbStep /\ Own(g, Rests) = {} /\ WithMeta(g, Rests) = {} /\ Rests.pc = "idle" /\ Rests.id = NoId
           /\ Rests.made = {}
BY DEF Rests, NzbStep, NzbPcs, Own, WithMeta

(* A goroutine goes on: what it owns it had or has just made, and what becomes *)
(* an entry it owned, or it was one.                                           *)
LEMMA NzbMoves ==
    ASSUME NzbInv, NEW g \in Jobs, NEW w \in NzbStep, step' = [step EXCEPT ![g] = w],
           NEW N \in SUBSET Ids, N \cap used = {}, used' = used \cup N,
           w.pc \notin {"idle", "scan"} => w.id \in used', w.id \in used' \cup {NoId}, w.made \subseteq used',
           Own(g, w) \subseteq Own(g, step[g]) \cup N,
           \* the entries, of which only a deletion takes any
           entries' \subseteq entries \cup WithMeta(g, step[g]), entries' \cap Own(g, w) = {},
           \* the deletions
           g \in Deletions => w.pc # "scan", g \notin Scans => w.made = {},
           g \in Deletions /\ w.pc # "idle" => IF step[g].pc = "idle" THEN w.id \in entries ELSE w.id = step[g].id,
           g \in Deletions /\ step[g].pc # "idle" /\ w.pc = "idle" => step[g].id \notin entries',
           \* the metadata, which only a deletion removes
           meta' \in [Ids -> {"none", "parsing", "completed", "failed"}],
           \A i \in Ids : meta[i] # "none" /\ meta'[i] = "none" => g \in Deletions /\ step[g].pc # "idle" /\ w.pc # "idle" /\ i = step[g].id,
           \A i \in WithMeta(g, w) : i \in WithMeta(g, step[g]) \/ meta'[i] # "none",
           file' \subseteq Names, marks' \subseteq Names \X Markers, jobs' \in Seq(used'),
           troubles' \in 0 .. MaxMishaps, UNCHANGED orphans
    PROVE  NzbInv'
<1>1. \A h \in Jobs : step'[h] = IF h = g THEN w ELSE step[h]
  BY DEF NzbInv, NzbTypes
<1>2. NzbTypes'
  <2>1. step' \in [Jobs -> NzbStep]
    BY DEF NzbInv, NzbTypes
  <2>2. ASSUME NEW h \in Jobs
        PROVE  /\ step'[h].pc \notin {"idle", "scan"} => step'[h].id \in used'
               /\ step'[h].id \in used' \cup {NoId} /\ step'[h].made \subseteq used'
    BY <1>1 DEF NzbInv, NzbTypes
  <2>3. used' \subseteq Ids
    BY DEF NzbInv, NzbTypes
  <2>4. ASSUME NEW d \in Jobs
        PROVE  (d \in Deletions => step'[d].pc # "scan") /\ (d \notin Scans => step'[d].made = {})
    BY <1>1 DEF NzbInv, NzbTypes
  <2>5. WithMeta(g, step[g]) \subseteq used
    BY DEF NzbInv, OwnersOK, WithMeta, Own
  <2>6. entries' \subseteq used'
    BY <2>5 DEF NzbInv, NzbTypes
  <2> QED  BY <2>1, <2>2, <2>3, <2>4, <2>6 DEF NzbTypes
<1>3. \A h \in Jobs : Own(h, step[h]) \subseteq used \ entries
  BY DEF NzbInv, OwnersOK
<1>4. WithMeta(g, step[g]) \subseteq Own(g, step[g])
  BY DEF WithMeta, Own
<1>5. OwnersOK'
  <2>1. ASSUME NEW h \in Jobs PROVE Own(h, step'[h]) \subseteq used' \ entries'
    <3>1. CASE h = g
      BY <1>1, <1>3, <3>1
    <3>2. CASE h # g
      <4>1. Own(h, step[h]) \cap Own(g, step[g]) = {}
        BY <3>2 DEF NzbInv, OwnersOK
      <4> QED  BY <1>1, <1>3, <1>4, <3>2, <4>1
    <3> QED  BY <3>1, <3>2
  <2>2. ASSUME NEW h \in Jobs, NEW k \in Jobs, h # k PROVE Own(h, step'[h]) \cap Own(k, step'[k]) = {}
    <3>1. Own(h, step[h]) \cap Own(k, step[k]) = {}
      BY <2>2 DEF NzbInv, OwnersOK
    <3>2. CASE h = g
      BY <1>1, <1>3, <2>2, <3>1, <3>2
    <3>3. CASE k = g
      BY <1>1, <1>3, <2>2, <3>1, <3>3
    <3>4. CASE h # g /\ k # g
      BY <1>1, <3>1, <3>4
    <3> QED  BY <3>2, <3>3, <3>4
  <2>3. ASSUME NEW d \in Deletions, NEW h \in Jobs, step'[d].pc # "idle" PROVE step'[d].id \notin Own(h, step'[h])
    <3>1. d \in Jobs
      BY DEF Jobs
    <3>2. step'[d].id \in used /\ step'[d].id \notin Own(h, step[h])
      <4>1. CASE step'[d].id \in entries
        BY <1>3, <4>1 DEF NzbInv, NzbTypes
      <4>2. CASE step[d].pc # "idle" /\ step'[d].id = step[d].id
        <5>1. step[d].pc # "scan" /\ step[d].id \in used
          BY <3>1, <4>2 DEF NzbInv, NzbTypes
        <5>2. step[d].id \notin Own(h, step[h])
          BY <4>2 DEF NzbInv, OwnersOK
        <5> QED  BY <4>2, <5>1, <5>2
      <4> QED  BY <1>1, <2>3, <3>1, <4>1, <4>2
    <3> QED  BY <1>1, <3>2
  <2> QED  BY <2>1, <2>2, <2>3 DEF OwnersOK
<1>6. ASSUME NEW h \in Jobs, NEW i \in Own(h, step[h]), meta[i] # "none" PROVE meta'[i] # "none"
  <2>1. i \in Ids
    BY <1>3 DEF NzbInv, NzbTypes
  <2> QED  BY <1>6, <2>1 DEF NzbInv, OwnersOK
<1>7. \A h \in Jobs : WithMeta(h, step[h]) \subseteq Own(h, step[h])
  BY DEF WithMeta, Own
<1>8. \A h \in Jobs : \A i \in WithMeta(h, step[h]) : meta'[i] # "none"
  BY <1>6, <1>7 DEF NzbInv, StoredOK
<1>9. StoredOK'
  <2>1. \A h \in Jobs : \A i \in WithMeta(h, step'[h]) : meta'[i] # "none"
    BY <1>1, <1>8
  <2> QED  BY <2>1 DEF StoredOK, WithMeta
<1>10. EntryHasMeta'
  <2>1. ASSUME NEW i \in entries', meta'[i] = "none" PROVE i \in Deleting' \cup orphans
    <3>1. i \in entries
      BY <1>8, <2>1
    <3>2. i \in Ids
      BY <3>1 DEF NzbInv, NzbTypes
    <3>3. CASE meta[i] # "none"
      <4>1. g \in Deletions /\ step[g].pc # "idle" /\ w.pc # "idle" /\ i = step[g].id /\ w.id = i
        BY <2>1, <3>2, <3>3
      <4> QED  BY <1>1, <4>1 DEF Deleting, IdOf, StepAt
    <3>4. CASE i \in Deleting
      <4>1. PICK d \in Deletions : step[d].pc # "idle" /\ step[d].id = i
        BY <3>4 DEF Deleting, IdOf, StepAt
      <4>2. step'[d].pc # "idle" /\ step'[d].id = i
        BY <1>1, <2>1, <4>1 DEF Jobs
      <4> QED  BY <4>2 DEF Deleting, IdOf, StepAt
    <3> QED  BY <3>1, <3>3, <3>4 DEF NzbInv, EntryHasMeta
  <2> QED  BY <2>1 DEF EntryHasMeta
<1> QED  BY <1>2, <1>5, <1>9, <1>10 DEF NzbInv

KindsApart(g) ==
    /\ g \in Imports => g \notin NzbWorkers /\ g \notin Scans /\ g \notin Deletions
    /\ g \in NzbWorkers => g \notin Scans /\ g \notin Deletions
    /\ g \in Scans => g \notin Deletions

LEMMA GoroutineKinds == \A g : KindsApart(g)
BY NzbFilesAssumption DEF KindsApart

\* What the invariant says of one goroutine and of what all share.
Known(g) ==
    /\ step \in [Jobs -> NzbStep] /\ step[g] \in NzbStep /\ step[g].made \subseteq used /\ used \subseteq Ids
    /\ step[g].id \in used \cup {NoId} /\ entries \subseteq used /\ jobs \in Seq(used)
    /\ meta \in [Ids -> {"none", "parsing", "completed", "failed"}]
    /\ file \subseteq Names /\ marks \subseteq Names \X Markers /\ troubles \in 0 .. MaxMishaps
    /\ step[g].pc \notin {"idle", "scan"} => step[g].id \in used
    /\ (g \notin Scans => step[g].made = {}) /\ (g \in Deletions => step[g].pc # "scan")
    /\ Own(g, step[g]) \subseteq used \ entries

LEMMA WhatIsKnown == ASSUME NzbInv, NEW g \in Jobs PROVE Known(g)
<1>1. step[g] \in NzbStep
  BY DEF NzbInv, NzbTypes
<1> QED  BY <1>1 DEF NzbInv, NzbTypes, OwnersOK, Known

LEMMA SeqGrows == ASSUME NEW A, NEW B, A \subseteq B, NEW s \in Seq(A) PROVE s \in Seq(B)
OBVIOUS

LEMMA SaveKeeps ==
    ASSUME NzbInv, NEW g \in Imports, NEW n \in Names, Save(g, n) PROVE NzbInv'
<1>1. g \in Jobs /\ KindsApart(g)
  BY GoroutineKinds DEF Jobs
<1>2. Known(g)
  BY <1>1, WhatIsKnown
<1>3. PICK i \in NewIds(n) : step' = [step EXCEPT ![g] = [Rests EXCEPT !.pc = "mark", !.id = i]] /\ used' = used \cup {i}
  BY <1>1, <1>2 DEF Save, NewIds, StepAt, IdOf, Steps, Stops, Marks, Unmarks
<1> DEFINE w == [Rests EXCEPT !.pc = "mark", !.id = i]
<1>4. w \in NzbStep /\ step' = [step EXCEPT ![g] = w]
  <2>1. step' = [step EXCEPT ![g] = w]
    BY <1>1, <1>2, <1>3 DEF Save, Known, NzbStep, Rests, StepAt, Stops, Steps, IdOf
  <2>2. i \in Ids
    BY DEF NewIds
  <2> QED  BY <1>1, <1>2, <1>3, <2>1, <2>2 DEF Known, NzbStep, NzbPcs, Rests
<1>5. /\ {i} \cap used = {} /\ used' = used \cup {i} /\ {i} \in SUBSET Ids
      /\ (w.pc \notin {"idle", "scan"} => w.id \in used') /\ w.id \in used' \cup {NoId} /\ w.made \subseteq used'
      /\ (g \in Deletions => w.pc # "scan") /\ (g \notin Scans => w.made = {})
  BY <1>1, <1>2, <1>3 DEF Save, Known, KindsApart, Rests, NewIds, StepAt, IdOf, Steps, Stops, Marks, Unmarks
<1>6. Own(g, w) \subseteq Own(g, step[g]) \cup {i}
  BY <1>1, <1>2, <1>3 DEF Save, Known, KindsApart, Rests, Own, StepAt, IdOf, Steps, Stops, Marks, Unmarks
<1>7. entries' \subseteq entries \cup WithMeta(g, step[g]) /\ entries' \cap Own(g, w) = {}
  BY <1>1, <1>2, <1>3, <1>6 DEF Save, Known, KindsApart, Rests, Own, WithMeta, NewIds, StepAt, IdOf, Steps, Stops, Marks, Unmarks
<1>8. /\ g \in Deletions /\ w.pc # "idle" => IF step[g].pc = "idle" THEN w.id \in entries ELSE w.id = step[g].id
      /\ g \in Deletions /\ step[g].pc # "idle" /\ w.pc = "idle" => step[g].id \notin entries'
  BY <1>1, <1>2, <1>3 DEF Save, Known, KindsApart, Rests, StepAt, IdOf, Steps, Stops, Marks, Unmarks
<1>9. /\ meta' \in [Ids -> {"none", "parsing", "completed", "failed"}]
      /\ \A k \in Ids : meta[k] # "none" /\ meta'[k] = "none" =>
            g \in Deletions /\ step[g].pc # "idle" /\ w.pc # "idle" /\ k = step[g].id
  BY <1>1, <1>2, <1>3 DEF Save, Known, KindsApart, StepAt, IdOf, Steps, Stops, Marks, Unmarks
<1>10. \A k \in WithMeta(g, w) : k \in WithMeta(g, step[g]) \/ meta'[k] # "none"
  BY <1>1, <1>2, <1>3 DEF Save, Known, KindsApart, Rests, WithMeta, StepAt, IdOf, Steps, Stops, Marks, Unmarks
<1>11. /\ file' \subseteq Names /\ marks' \subseteq Names \X Markers /\ troubles' \in 0 .. MaxMishaps /\ UNCHANGED orphans
  BY <1>1, <1>2, <1>3, NzbFilesAssumption DEF Save, Known, Markers, Path, Ids, Trouble, Unmarked, StepAt, IdOf, Steps, Stops, Marks, Unmarks
<1>12. jobs' \in Seq(used')
  BY <1>1, <1>2, <1>3, <1>5, SeqGrows DEF Save, Known, KindsApart, StepAt, IdOf, Steps, Stops, Marks, Unmarks
<1> HIDE DEF w
<1> QED  BY <1>1, <1>4, <1>5, <1>6, <1>7, <1>8, <1>9, <1>10, <1>11, <1>12, NzbMoves

LEMMA MarkKeeps ==
    ASSUME NzbInv, NEW g \in Imports, Mark(g) PROVE NzbInv'
<1>1. g \in Jobs /\ KindsApart(g)
  BY GoroutineKinds DEF Jobs
<1>2. Known(g)
  BY <1>1, WhatIsKnown
<1> DEFINE w == [step[g] EXCEPT !.pc = "store"]
<1>4. w \in NzbStep /\ step' = [step EXCEPT ![g] = w]
  BY <1>1, <1>2 DEF Mark, Known, KindsApart, NzbStep, NzbPcs, Rests, StepAt, IdOf, Steps, Stops, Marks, Unmarks
<1>5. /\ {} \cap used = {} /\ used' = used \cup {} /\ {} \in SUBSET Ids
      /\ (w.pc \notin {"idle", "scan"} => w.id \in used') /\ w.id \in used' \cup {NoId} /\ w.made \subseteq used'
      /\ (g \in Deletions => w.pc # "scan") /\ (g \notin Scans => w.made = {})
  BY <1>1, <1>2 DEF Mark, Known, KindsApart, Rests, NewIds, StepAt, IdOf, Steps, Stops, Marks, Unmarks
<1>6. Own(g, w) \subseteq Own(g, step[g]) \cup {}
  BY <1>1, <1>2 DEF Mark, Known, KindsApart, Rests, Own, StepAt, IdOf, Steps, Stops, Marks, Unmarks
<1>7. entries' \subseteq entries \cup WithMeta(g, step[g]) /\ entries' \cap Own(g, w) = {}
  BY <1>1, <1>2, <1>6 DEF Mark, Known, KindsApart, Rests, Own, WithMeta, NewIds, StepAt, IdOf, Steps, Stops, Marks, Unmarks
<1>8. /\ g \in Deletions /\ w.pc # "idle" => IF step[g].pc = "idle" THEN w.id \in entries ELSE w.id = step[g].id
      /\ g \in Deletions /\ step[g].pc # "idle" /\ w.pc = "idle" => step[g].id \notin entries'
  BY <1>1, <1>2 DEF Mark, Known, KindsApart, Rests, StepAt, IdOf, Steps, Stops, Marks, Unmarks
<1>9. /\ meta' \in [Ids -> {"none", "parsing", "completed", "failed"}]
      /\ \A k \in Ids : meta[k] # "none" /\ meta'[k] = "none" =>
            g \in Deletions /\ step[g].pc # "idle" /\ w.pc # "idle" /\ k = step[g].id
  BY <1>1, <1>2 DEF Mark, Known, KindsApart, StepAt, IdOf, Steps, Stops, Marks, Unmarks
<1>10. \A k \in WithMeta(g, w) : k \in WithMeta(g, step[g]) \/ meta'[k] # "none"
  BY <1>1, <1>2 DEF Mark, Known, KindsApart, Rests, WithMeta, StepAt, IdOf, Steps, Stops, Marks, Unmarks
<1>11. /\ file' \subseteq Names /\ marks' \subseteq Names \X Markers /\ troubles' \in 0 .. MaxMishaps /\ UNCHANGED orphans
  BY <1>1, <1>2, NzbFilesAssumption DEF Mark, Known, Markers, Path, Ids, Trouble, Unmarked, StepAt, IdOf, Steps, Stops, Marks, Unmarks
<1>12. jobs' \in Seq(used')
  BY <1>1, <1>2, <1>5, SeqGrows DEF Mark, Known, KindsApart, StepAt, IdOf, Steps, Stops, Marks, Unmarks
<1> HIDE DEF w
<1> QED  BY <1>1, <1>4, <1>5, <1>6, <1>7, <1>8, <1>9, <1>10, <1>11, <1>12, NzbMoves

LEMMA StoreKeeps ==
    ASSUME NzbInv, NEW g \in Imports, Store(g) PROVE NzbInv'
<1>1. g \in Jobs /\ KindsApart(g)
  BY GoroutineKinds DEF Jobs
<1>2. Known(g)
  BY <1>1, WhatIsKnown
<1> DEFINE w == [step[g] EXCEPT !.pc = "queue"]
<1>4. w \in NzbStep /\ step' = [step EXCEPT ![g] = w]
  BY <1>1, <1>2 DEF Store, Known, KindsApart, NzbStep, NzbPcs, Rests, StepAt, IdOf, Steps, Stops, Marks, Unmarks, Parsed
<1>5. /\ {} \cap used = {} /\ used' = used \cup {} /\ {} \in SUBSET Ids
      /\ (w.pc \notin {"idle", "scan"} => w.id \in used') /\ w.id \in used' \cup {NoId} /\ w.made \subseteq used'
      /\ (g \in Deletions => w.pc # "scan") /\ (g \notin Scans => w.made = {})
  BY <1>1, <1>2 DEF Store, Known, KindsApart, Rests, NewIds, StepAt, IdOf, Steps, Stops, Marks, Unmarks, Parsed
<1>6. Own(g, w) \subseteq Own(g, step[g]) \cup {}
  BY <1>1, <1>2 DEF Store, Known, KindsApart, Rests, Own, StepAt, IdOf, Steps, Stops, Marks, Unmarks, Parsed
<1>7. entries' \subseteq entries \cup WithMeta(g, step[g]) /\ entries' \cap Own(g, w) = {}
  BY <1>1, <1>2, <1>6 DEF Store, Known, KindsApart, Rests, Own, WithMeta, NewIds, StepAt, IdOf, Steps, Stops, Marks, Unmarks, Parsed
<1>8. /\ g \in Deletions /\ w.pc # "idle" => IF step[g].pc = "idle" THEN w.id \in entries ELSE w.id = step[g].id
      /\ g \in Deletions /\ step[g].pc # "idle" /\ w.pc = "idle" => step[g].id \notin entries'
  BY <1>1, <1>2 DEF Store, Known, KindsApart, Rests, StepAt, IdOf, Steps, Stops, Marks, Unmarks, Parsed
<1>9. /\ meta' \in [Ids -> {"none", "parsing", "completed", "failed"}]
      /\ \A k \in Ids : meta[k] # "none" /\ meta'[k] = "none" =>
            g \in Deletions /\ step[g].pc # "idle" /\ w.pc # "idle" /\ k = step[g].id
  BY <1>1, <1>2 DEF Store, Known, KindsApart, StepAt, IdOf, Steps, Stops, Marks, Unmarks, Parsed
<1>10. \A k \in WithMeta(g, w) : k \in WithMeta(g, step[g]) \/ meta'[k] # "none"
  BY <1>1, <1>2 DEF Store, Known, KindsApart, Rests, WithMeta, StepAt, IdOf, Steps, Stops, Marks, Unmarks, Parsed
<1>11. /\ file' \subseteq Names /\ marks' \subseteq Names \X Markers /\ troubles' \in 0 .. MaxMishaps /\ UNCHANGED orphans
  BY <1>1, <1>2, NzbFilesAssumption DEF Store, Known, Markers, Path, Ids, Trouble, Unmarked, StepAt, IdOf, Steps, Stops, Marks, Unmarks, Parsed
<1>12. jobs' \in Seq(used')
  BY <1>1, <1>2, <1>5, SeqGrows DEF Store, Known, KindsApart, StepAt, IdOf, Steps, Stops, Marks, Unmarks, Parsed
<1> HIDE DEF w
<1> QED  BY <1>1, <1>4, <1>5, <1>6, <1>7, <1>8, <1>9, <1>10, <1>11, <1>12, NzbMoves

LEMMA EnqueueKeeps ==
    ASSUME NzbInv, NEW g \in Imports, Enqueue(g) PROVE NzbInv'
<1>1. g \in Jobs /\ KindsApart(g)
  BY GoroutineKinds DEF Jobs
<1>2. Known(g)
  BY <1>1, WhatIsKnown
<1> DEFINE w == [step[g] EXCEPT !.pc = "push"]
<1>4. w \in NzbStep /\ step' = [step EXCEPT ![g] = w]
  BY <1>1, <1>2 DEF Enqueue, Known, KindsApart, NzbStep, NzbPcs, Rests, StepAt, IdOf, Steps, Stops, Marks, Unmarks
<1>5. /\ {} \cap used = {} /\ used' = used \cup {} /\ {} \in SUBSET Ids
      /\ (w.pc \notin {"idle", "scan"} => w.id \in used') /\ w.id \in used' \cup {NoId} /\ w.made \subseteq used'
      /\ (g \in Deletions => w.pc # "scan") /\ (g \notin Scans => w.made = {})
  BY <1>1, <1>2 DEF Enqueue, Known, KindsApart, Rests, NewIds, StepAt, IdOf, Steps, Stops, Marks, Unmarks
<1>6. Own(g, w) \subseteq Own(g, step[g]) \cup {}
  BY <1>1, <1>2 DEF Enqueue, Known, KindsApart, Rests, Own, StepAt, IdOf, Steps, Stops, Marks, Unmarks
<1>7. entries' \subseteq entries \cup WithMeta(g, step[g]) /\ entries' \cap Own(g, w) = {}
  BY <1>1, <1>2, <1>6 DEF Enqueue, Known, KindsApart, Rests, Own, WithMeta, NewIds, StepAt, IdOf, Steps, Stops, Marks, Unmarks
<1>8. /\ g \in Deletions /\ w.pc # "idle" => IF step[g].pc = "idle" THEN w.id \in entries ELSE w.id = step[g].id
      /\ g \in Deletions /\ step[g].pc # "idle" /\ w.pc = "idle" => step[g].id \notin entries'
  BY <1>1, <1>2 DEF Enqueue, Known, KindsApart, Rests, StepAt, IdOf, Steps, Stops, Marks, Unmarks
<1>9. /\ meta' \in [Ids -> {"none", "parsing", "completed", "failed"}]
      /\ \A k \in Ids : meta[k] # "none" /\ meta'[k] = "none" =>
            g \in Deletions /\ step[g].pc # "idle" /\ w.pc # "idle" /\ k = step[g].id
  BY <1>1, <1>2 DEF Enqueue, Known, KindsApart, StepAt, IdOf, Steps, Stops, Marks, Unmarks
<1>10. \A k \in WithMeta(g, w) : k \in WithMeta(g, step[g]) \/ meta'[k] # "none"
  BY <1>1, <1>2 DEF Enqueue, Known, KindsApart, Rests, WithMeta, StepAt, IdOf, Steps, Stops, Marks, Unmarks
<1>11. /\ file' \subseteq Names /\ marks' \subseteq Names \X Markers /\ troubles' \in 0 .. MaxMishaps /\ UNCHANGED orphans
  BY <1>1, <1>2, NzbFilesAssumption DEF Enqueue, Known, Markers, Path, Ids, Trouble, Unmarked, StepAt, IdOf, Steps, Stops, Marks, Unmarks
<1>12. jobs' \in Seq(used')
  BY <1>1, <1>2, <1>5, SeqGrows DEF Enqueue, Known, KindsApart, StepAt, IdOf, Steps, Stops, Marks, Unmarks
<1> HIDE DEF w
<1> QED  BY <1>1, <1>4, <1>5, <1>6, <1>7, <1>8, <1>9, <1>10, <1>11, <1>12, NzbMoves

LEMMA PushKeeps ==
    ASSUME NzbInv, NEW g \in Imports, Push(g) PROVE NzbInv'
<1>1. g \in Jobs /\ KindsApart(g)
  BY GoroutineKinds DEF Jobs
<1>2. Known(g)
  BY <1>1, WhatIsKnown
<1> DEFINE w == Rests
<1>4. w \in NzbStep /\ step' = [step EXCEPT ![g] = w]
  BY <1>1, <1>2 DEF Push, Known, KindsApart, NzbStep, NzbPcs, Rests, StepAt, IdOf, Steps, Stops, Marks, Unmarks
<1>5. /\ {} \cap used = {} /\ used' = used \cup {} /\ {} \in SUBSET Ids
      /\ (w.pc \notin {"idle", "scan"} => w.id \in used') /\ w.id \in used' \cup {NoId} /\ w.made \subseteq used'
      /\ (g \in Deletions => w.pc # "scan") /\ (g \notin Scans => w.made = {})
  BY <1>1, <1>2 DEF Push, Known, KindsApart, Rests, NewIds, StepAt, IdOf, Steps, Stops, Marks, Unmarks
<1>6. Own(g, w) \subseteq Own(g, step[g]) \cup {}
  BY <1>1, <1>2 DEF Push, Known, KindsApart, Rests, Own, StepAt, IdOf, Steps, Stops, Marks, Unmarks
<1>7. entries' \subseteq entries \cup WithMeta(g, step[g]) /\ entries' \cap Own(g, w) = {}
  BY <1>1, <1>2, <1>6 DEF Push, Known, KindsApart, Rests, Own, WithMeta, NewIds, StepAt, IdOf, Steps, Stops, Marks, Unmarks
<1>8. /\ g \in Deletions /\ w.pc # "idle" => IF step[g].pc = "idle" THEN w.id \in entries ELSE w.id = step[g].id
      /\ g \in Deletions /\ step[g].pc # "idle" /\ w.pc = "idle" => step[g].id \notin entries'
  BY <1>1, <1>2 DEF Push, Known, KindsApart, Rests, StepAt, IdOf, Steps, Stops, Marks, Unmarks
<1>9. /\ meta' \in [Ids -> {"none", "parsing", "completed", "failed"}]
      /\ \A k \in Ids : meta[k] # "none" /\ meta'[k] = "none" =>
            g \in Deletions /\ step[g].pc # "idle" /\ w.pc # "idle" /\ k = step[g].id
  BY <1>1, <1>2 DEF Push, Known, KindsApart, StepAt, IdOf, Steps, Stops, Marks, Unmarks
<1>10. \A k \in WithMeta(g, w) : k \in WithMeta(g, step[g]) \/ meta'[k] # "none"
  BY <1>1, <1>2 DEF Push, Known, KindsApart, Rests, WithMeta, StepAt, IdOf, Steps, Stops, Marks, Unmarks
<1>11. /\ file' \subseteq Names /\ marks' \subseteq Names \X Markers /\ troubles' \in 0 .. MaxMishaps /\ UNCHANGED orphans
  BY <1>1, <1>2, NzbFilesAssumption DEF Push, Known, Markers, Path, Ids, Trouble, Unmarked, StepAt, IdOf, Steps, Stops, Marks, Unmarks
<1>12. jobs' \in Seq(used')
  BY <1>1, <1>2, <1>5, SeqGrows DEF Push, Known, KindsApart, StepAt, IdOf, Steps, Stops, Marks, Unmarks
<1> HIDE DEF w
<1> QED  BY <1>1, <1>4, <1>5, <1>6, <1>7, <1>8, <1>9, <1>10, <1>11, <1>12, NzbMoves

LEMMA ImportFailsKeeps ==
    ASSUME NzbInv, NEW g \in Imports, ImportFails(g) PROVE NzbInv'
<1>1. g \in Jobs /\ KindsApart(g)
  BY GoroutineKinds DEF Jobs
<1>2. Known(g)
  BY <1>1, WhatIsKnown
<1> DEFINE w == Rests
<1>4. w \in NzbStep /\ step' = [step EXCEPT ![g] = w]
  BY <1>1, <1>2 DEF ImportFails, Known, KindsApart, NzbStep, NzbPcs, Rests, StepAt, IdOf, Steps, Stops, Marks, Unmarks
<1>5. /\ {} \cap used = {} /\ used' = used \cup {} /\ {} \in SUBSET Ids
      /\ (w.pc \notin {"idle", "scan"} => w.id \in used') /\ w.id \in used' \cup {NoId} /\ w.made \subseteq used'
      /\ (g \in Deletions => w.pc # "scan") /\ (g \notin Scans => w.made = {})
  BY <1>1, <1>2 DEF ImportFails, Known, KindsApart, Rests, NewIds, StepAt, IdOf, Steps, Stops, Marks, Unmarks
<1>6. Own(g, w) \subseteq Own(g, step[g]) \cup {}
  BY <1>1, <1>2 DEF ImportFails, Known, KindsApart, Rests, Own, StepAt, IdOf, Steps, Stops, Marks, Unmarks
<1>7. entries' \subseteq entries \cup WithMeta(g, step[g]) /\ entries' \cap Own(g, w) = {}
  BY <1>1, <1>2, <1>6 DEF ImportFails, Known, KindsApart, Rests, Own, WithMeta, NewIds, StepAt, IdOf, Steps, Stops, Marks, Unmarks
<1>8. /\ g \in Deletions /\ w.pc # "idle" => IF step[g].pc = "idle" THEN w.id \in entries ELSE w.id = step[g].id
      /\ g \in Deletions /\ step[g].pc # "idle" /\ w.pc = "idle" => step[g].id \notin entries'
  BY <1>1, <1>2 DEF ImportFails, Known, KindsApart, Rests, StepAt, IdOf, Steps, Stops, Marks, Unmarks
<1>9. /\ meta' \in [Ids -> {"none", "parsing", "completed", "failed"}]
      /\ \A k \in Ids : meta[k] # "none" /\ meta'[k] = "none" =>
            g \in Deletions /\ step[g].pc # "idle" /\ w.pc # "idle" /\ k = step[g].id
  BY <1>1, <1>2 DEF ImportFails, Known, KindsApart, StepAt, IdOf, Steps, Stops, Marks, Unmarks
<1>10. \A k \in WithMeta(g, w) : k \in WithMeta(g, step[g]) \/ meta'[k] # "none"
  BY <1>1, <1>2 DEF ImportFails, Known, KindsApart, Rests, WithMeta, StepAt, IdOf, Steps, Stops, Marks, Unmarks
<1>11. /\ file' \subseteq Names /\ marks' \subseteq Names \X Markers /\ troubles' \in 0 .. MaxMishaps /\ UNCHANGED orphans
  BY <1>1, <1>2, NzbFilesAssumption DEF ImportFails, Known, Markers, Path, Ids, Trouble, Unmarked, StepAt, IdOf, Steps, Stops, Marks, Unmarks
<1>12. jobs' \in Seq(used')
  BY <1>1, <1>2, <1>5, SeqGrows DEF ImportFails, Known, KindsApart, StepAt, IdOf, Steps, Stops, Marks, Unmarks
<1> HIDE DEF w
<1> QED  BY <1>1, <1>4, <1>5, <1>6, <1>7, <1>8, <1>9, <1>10, <1>11, <1>12, NzbMoves

LEMMA TakeJobKeeps ==
    ASSUME NzbInv, NEW g \in NzbWorkers, TakeJob(g) PROVE NzbInv'
<1>1. g \in Jobs /\ KindsApart(g)
  BY GoroutineKinds DEF Jobs
<1>2. Known(g)
  BY <1>1, WhatIsKnown
<1>3. PICK pc \in {"complete", "fail"} : step' = [step EXCEPT ![g] = [Rests EXCEPT !.pc = pc, !.id = Head(jobs)]]
  BY <1>1, <1>2 DEF TakeJob, NewIds, StepAt, IdOf, Steps, Stops, Marks, Unmarks
<1> DEFINE w == [Rests EXCEPT !.pc = pc, !.id = Head(jobs)]
<1>4. w \in NzbStep /\ step' = [step EXCEPT ![g] = w]
  <2>1. step' = [step EXCEPT ![g] = w]
    BY <1>1, <1>2, <1>3 DEF TakeJob, Known, NzbStep, Rests, StepAt, Stops, Steps, IdOf
  <2>2. Head(jobs) \in Ids
    BY <1>2 DEF TakeJob, Known
  <2> QED  BY <1>1, <1>2, <1>3, <2>1, <2>2 DEF Known, NzbStep, NzbPcs, Rests
<1>5. /\ {} \cap used = {} /\ used' = used \cup {} /\ {} \in SUBSET Ids
      /\ (w.pc \notin {"idle", "scan"} => w.id \in used') /\ w.id \in used' \cup {NoId} /\ w.made \subseteq used'
      /\ (g \in Deletions => w.pc # "scan") /\ (g \notin Scans => w.made = {})
  BY <1>1, <1>2, <1>3 DEF TakeJob, Known, KindsApart, Rests, NewIds, StepAt, IdOf, Steps, Stops, Marks, Unmarks
<1>6. Own(g, w) \subseteq Own(g, step[g]) \cup {}
  BY <1>1, <1>2, <1>3 DEF TakeJob, Known, KindsApart, Rests, Own, StepAt, IdOf, Steps, Stops, Marks, Unmarks
<1>7. entries' \subseteq entries \cup WithMeta(g, step[g]) /\ entries' \cap Own(g, w) = {}
  BY <1>1, <1>2, <1>3, <1>6 DEF TakeJob, Known, KindsApart, Rests, Own, WithMeta, NewIds, StepAt, IdOf, Steps, Stops, Marks, Unmarks
<1>8. /\ g \in Deletions /\ w.pc # "idle" => IF step[g].pc = "idle" THEN w.id \in entries ELSE w.id = step[g].id
      /\ g \in Deletions /\ step[g].pc # "idle" /\ w.pc = "idle" => step[g].id \notin entries'
  BY <1>1, <1>2, <1>3 DEF TakeJob, Known, KindsApart, Rests, StepAt, IdOf, Steps, Stops, Marks, Unmarks
<1>9. /\ meta' \in [Ids -> {"none", "parsing", "completed", "failed"}]
      /\ \A k \in Ids : meta[k] # "none" /\ meta'[k] = "none" =>
            g \in Deletions /\ step[g].pc # "idle" /\ w.pc # "idle" /\ k = step[g].id
  BY <1>1, <1>2, <1>3 DEF TakeJob, Known, KindsApart, StepAt, IdOf, Steps, Stops, Marks, Unmarks
<1>10. \A k \in WithMeta(g, w) : k \in WithMeta(g, step[g]) \/ meta'[k] # "none"
  BY <1>1, <1>2, <1>3 DEF TakeJob, Known, KindsApart, Rests, WithMeta, StepAt, IdOf, Steps, Stops, Marks, Unmarks
<1>11. /\ file' \subseteq Names /\ marks' \subseteq Names \X Markers /\ troubles' \in 0 .. MaxMishaps /\ UNCHANGED orphans
  BY <1>1, <1>2, <1>3, NzbFilesAssumption DEF TakeJob, Known, Markers, Path, Ids, Trouble, Unmarked, StepAt, IdOf, Steps, Stops, Marks, Unmarks
<1>12. jobs' \in Seq(used')
  BY <1>1, <1>2, <1>3, <1>5, SeqGrows DEF TakeJob, Known, KindsApart, StepAt, IdOf, Steps, Stops, Marks, Unmarks
<1> HIDE DEF w
<1> QED  BY <1>1, <1>4, <1>5, <1>6, <1>7, <1>8, <1>9, <1>10, <1>11, <1>12, NzbMoves

LEMMA FailKeeps ==
    ASSUME NzbInv, NEW g \in NzbWorkers, Fail(g) PROVE NzbInv'
<1>1. g \in Jobs /\ KindsApart(g)
  BY GoroutineKinds DEF Jobs
<1>2. Known(g)
  BY <1>1, WhatIsKnown
<1> DEFINE w == [step[g] EXCEPT !.pc = "unmarkFailed"]
<1>4. w \in NzbStep /\ step' = [step EXCEPT ![g] = w]
  BY <1>1, <1>2 DEF Fail, Known, KindsApart, NzbStep, NzbPcs, Rests, StepAt, IdOf, Steps, Stops, Marks, Unmarks
<1>5. /\ {} \cap used = {} /\ used' = used \cup {} /\ {} \in SUBSET Ids
      /\ (w.pc \notin {"idle", "scan"} => w.id \in used') /\ w.id \in used' \cup {NoId} /\ w.made \subseteq used'
      /\ (g \in Deletions => w.pc # "scan") /\ (g \notin Scans => w.made = {})
  BY <1>1, <1>2 DEF Fail, Known, KindsApart, Rests, NewIds, StepAt, IdOf, Steps, Stops, Marks, Unmarks
<1>6. Own(g, w) \subseteq Own(g, step[g]) \cup {}
  BY <1>1, <1>2 DEF Fail, Known, KindsApart, Rests, Own, StepAt, IdOf, Steps, Stops, Marks, Unmarks
<1>7. entries' \subseteq entries \cup WithMeta(g, step[g]) /\ entries' \cap Own(g, w) = {}
  BY <1>1, <1>2, <1>6 DEF Fail, Known, KindsApart, Rests, Own, WithMeta, NewIds, StepAt, IdOf, Steps, Stops, Marks, Unmarks
<1>8. /\ g \in Deletions /\ w.pc # "idle" => IF step[g].pc = "idle" THEN w.id \in entries ELSE w.id = step[g].id
      /\ g \in Deletions /\ step[g].pc # "idle" /\ w.pc = "idle" => step[g].id \notin entries'
  BY <1>1, <1>2 DEF Fail, Known, KindsApart, Rests, StepAt, IdOf, Steps, Stops, Marks, Unmarks
<1>9. /\ meta' \in [Ids -> {"none", "parsing", "completed", "failed"}]
      /\ \A k \in Ids : meta[k] # "none" /\ meta'[k] = "none" =>
            g \in Deletions /\ step[g].pc # "idle" /\ w.pc # "idle" /\ k = step[g].id
  BY <1>1, <1>2 DEF Fail, Known, KindsApart, StepAt, IdOf, Steps, Stops, Marks, Unmarks
<1>10. \A k \in WithMeta(g, w) : k \in WithMeta(g, step[g]) \/ meta'[k] # "none"
  BY <1>1, <1>2 DEF Fail, Known, KindsApart, Rests, WithMeta, StepAt, IdOf, Steps, Stops, Marks, Unmarks
<1>11. /\ file' \subseteq Names /\ marks' \subseteq Names \X Markers /\ troubles' \in 0 .. MaxMishaps /\ UNCHANGED orphans
  BY <1>1, <1>2, NzbFilesAssumption DEF Fail, Known, Markers, Path, Ids, Trouble, Unmarked, StepAt, IdOf, Steps, Stops, Marks, Unmarks
<1>12. jobs' \in Seq(used')
  BY <1>1, <1>2, <1>5, SeqGrows DEF Fail, Known, KindsApart, StepAt, IdOf, Steps, Stops, Marks, Unmarks
<1> HIDE DEF w
<1> QED  BY <1>1, <1>4, <1>5, <1>6, <1>7, <1>8, <1>9, <1>10, <1>11, <1>12, NzbMoves

LEMMA UnmarkFailedKeeps ==
    ASSUME NzbInv, NEW g \in NzbWorkers, UnmarkFailed(g) PROVE NzbInv'
<1>1. g \in Jobs /\ KindsApart(g)
  BY GoroutineKinds DEF Jobs
<1>2. Known(g)
  BY <1>1, WhatIsKnown
<1> DEFINE w == [step[g] EXCEPT !.pc = "remove"]
<1>4. w \in NzbStep /\ step' = [step EXCEPT ![g] = w]
  BY <1>1, <1>2 DEF UnmarkFailed, Known, KindsApart, NzbStep, NzbPcs, Rests, StepAt, IdOf, Steps, Stops, Marks, Unmarks
<1>5. /\ {} \cap used = {} /\ used' = used \cup {} /\ {} \in SUBSET Ids
      /\ (w.pc \notin {"idle", "scan"} => w.id \in used') /\ w.id \in used' \cup {NoId} /\ w.made \subseteq used'
      /\ (g \in Deletions => w.pc # "scan") /\ (g \notin Scans => w.made = {})
  BY <1>1, <1>2 DEF UnmarkFailed, Known, KindsApart, Rests, NewIds, StepAt, IdOf, Steps, Stops, Marks, Unmarks
<1>6. Own(g, w) \subseteq Own(g, step[g]) \cup {}
  BY <1>1, <1>2 DEF UnmarkFailed, Known, KindsApart, Rests, Own, StepAt, IdOf, Steps, Stops, Marks, Unmarks
<1>7. entries' \subseteq entries \cup WithMeta(g, step[g]) /\ entries' \cap Own(g, w) = {}
  BY <1>1, <1>2, <1>6 DEF UnmarkFailed, Known, KindsApart, Rests, Own, WithMeta, NewIds, StepAt, IdOf, Steps, Stops, Marks, Unmarks
<1>8. /\ g \in Deletions /\ w.pc # "idle" => IF step[g].pc = "idle" THEN w.id \in entries ELSE w.id = step[g].id
      /\ g \in Deletions /\ step[g].pc # "idle" /\ w.pc = "idle" => step[g].id \notin entries'
  BY <1>1, <1>2 DEF UnmarkFailed, Known, KindsApart, Rests, StepAt, IdOf, Steps, Stops, Marks, Unmarks
<1>9. /\ meta' \in [Ids -> {"none", "parsing", "completed", "failed"}]
      /\ \A k \in Ids : meta[k] # "none" /\ meta'[k] = "none" =>
            g \in Deletions /\ step[g].pc # "idle" /\ w.pc # "idle" /\ k = step[g].id
  BY <1>1, <1>2 DEF UnmarkFailed, Known, KindsApart, StepAt, IdOf, Steps, Stops, Marks, Unmarks
<1>10. \A k \in WithMeta(g, w) : k \in WithMeta(g, step[g]) \/ meta'[k] # "none"
  BY <1>1, <1>2 DEF UnmarkFailed, Known, KindsApart, Rests, WithMeta, StepAt, IdOf, Steps, Stops, Marks, Unmarks
<1>11. /\ file' \subseteq Names /\ marks' \subseteq Names \X Markers /\ troubles' \in 0 .. MaxMishaps /\ UNCHANGED orphans
  BY <1>1, <1>2, NzbFilesAssumption DEF UnmarkFailed, Known, Markers, Path, Ids, Trouble, Unmarked, StepAt, IdOf, Steps, Stops, Marks, Unmarks
<1>12. jobs' \in Seq(used')
  BY <1>1, <1>2, <1>5, SeqGrows DEF UnmarkFailed, Known, KindsApart, StepAt, IdOf, Steps, Stops, Marks, Unmarks
<1> HIDE DEF w
<1> QED  BY <1>1, <1>4, <1>5, <1>6, <1>7, <1>8, <1>9, <1>10, <1>11, <1>12, NzbMoves

LEMMA RemoveFileKeeps ==
    ASSUME NzbInv, NEW g \in NzbWorkers, RemoveFile(g) PROVE NzbInv'
<1>1. g \in Jobs /\ KindsApart(g)
  BY GoroutineKinds DEF Jobs
<1>2. Known(g)
  BY <1>1, WhatIsKnown
<1> DEFINE w == Rests
<1>4. w \in NzbStep /\ step' = [step EXCEPT ![g] = w]
  BY <1>1, <1>2 DEF RemoveFile, Known, KindsApart, NzbStep, NzbPcs, Rests, StepAt, IdOf, Steps, Stops, Marks, Unmarks
<1>5. /\ {} \cap used = {} /\ used' = used \cup {} /\ {} \in SUBSET Ids
      /\ (w.pc \notin {"idle", "scan"} => w.id \in used') /\ w.id \in used' \cup {NoId} /\ w.made \subseteq used'
      /\ (g \in Deletions => w.pc # "scan") /\ (g \notin Scans => w.made = {})
  BY <1>1, <1>2 DEF RemoveFile, Known, KindsApart, Rests, NewIds, StepAt, IdOf, Steps, Stops, Marks, Unmarks
<1>6. Own(g, w) \subseteq Own(g, step[g]) \cup {}
  BY <1>1, <1>2 DEF RemoveFile, Known, KindsApart, Rests, Own, StepAt, IdOf, Steps, Stops, Marks, Unmarks
<1>7. entries' \subseteq entries \cup WithMeta(g, step[g]) /\ entries' \cap Own(g, w) = {}
  BY <1>1, <1>2, <1>6 DEF RemoveFile, Known, KindsApart, Rests, Own, WithMeta, NewIds, StepAt, IdOf, Steps, Stops, Marks, Unmarks
<1>8. /\ g \in Deletions /\ w.pc # "idle" => IF step[g].pc = "idle" THEN w.id \in entries ELSE w.id = step[g].id
      /\ g \in Deletions /\ step[g].pc # "idle" /\ w.pc = "idle" => step[g].id \notin entries'
  BY <1>1, <1>2 DEF RemoveFile, Known, KindsApart, Rests, StepAt, IdOf, Steps, Stops, Marks, Unmarks
<1>9. /\ meta' \in [Ids -> {"none", "parsing", "completed", "failed"}]
      /\ \A k \in Ids : meta[k] # "none" /\ meta'[k] = "none" =>
            g \in Deletions /\ step[g].pc # "idle" /\ w.pc # "idle" /\ k = step[g].id
  BY <1>1, <1>2 DEF RemoveFile, Known, KindsApart, StepAt, IdOf, Steps, Stops, Marks, Unmarks
<1>10. \A k \in WithMeta(g, w) : k \in WithMeta(g, step[g]) \/ meta'[k] # "none"
  BY <1>1, <1>2 DEF RemoveFile, Known, KindsApart, Rests, WithMeta, StepAt, IdOf, Steps, Stops, Marks, Unmarks
<1>11. /\ file' \subseteq Names /\ marks' \subseteq Names \X Markers /\ troubles' \in 0 .. MaxMishaps /\ UNCHANGED orphans
  BY <1>1, <1>2, NzbFilesAssumption DEF RemoveFile, Known, Markers, Path, Ids, Trouble, Unmarked, StepAt, IdOf, Steps, Stops, Marks, Unmarks
<1>12. jobs' \in Seq(used')
  BY <1>1, <1>2, <1>5, SeqGrows DEF RemoveFile, Known, KindsApart, StepAt, IdOf, Steps, Stops, Marks, Unmarks
<1> HIDE DEF w
<1> QED  BY <1>1, <1>4, <1>5, <1>6, <1>7, <1>8, <1>9, <1>10, <1>11, <1>12, NzbMoves

LEMMA CompletesKeeps ==
    ASSUME NzbInv, NEW g \in NzbWorkers \cup Scans, Completes(g) PROVE NzbInv'
<1>1. g \in Jobs /\ KindsApart(g)
  BY GoroutineKinds DEF Jobs
<1>2. Known(g)
  BY <1>1, WhatIsKnown
<1> DEFINE w == [step[g] EXCEPT !.pc = "processed"]
<1>4. w \in NzbStep /\ step' = [step EXCEPT ![g] = w]
  BY <1>1, <1>2 DEF Completes, Known, KindsApart, NzbStep, NzbPcs, Rests, StepAt, IdOf, Steps, Stops, Marks, Unmarks
<1>5. /\ {} \cap used = {} /\ used' = used \cup {} /\ {} \in SUBSET Ids
      /\ (w.pc \notin {"idle", "scan"} => w.id \in used') /\ w.id \in used' \cup {NoId} /\ w.made \subseteq used'
      /\ (g \in Deletions => w.pc # "scan") /\ (g \notin Scans => w.made = {})
  BY <1>1, <1>2 DEF Completes, Known, KindsApart, Rests, NewIds, StepAt, IdOf, Steps, Stops, Marks, Unmarks
<1>6. Own(g, w) \subseteq Own(g, step[g]) \cup {}
  BY <1>1, <1>2 DEF Completes, Known, KindsApart, Rests, Own, StepAt, IdOf, Steps, Stops, Marks, Unmarks
<1>7. entries' \subseteq entries \cup WithMeta(g, step[g]) /\ entries' \cap Own(g, w) = {}
  BY <1>1, <1>2, <1>6 DEF Completes, Known, KindsApart, Rests, Own, WithMeta, NewIds, StepAt, IdOf, Steps, Stops, Marks, Unmarks
<1>8. /\ g \in Deletions /\ w.pc # "idle" => IF step[g].pc = "idle" THEN w.id \in entries ELSE w.id = step[g].id
      /\ g \in Deletions /\ step[g].pc # "idle" /\ w.pc = "idle" => step[g].id \notin entries'
  BY <1>1, <1>2 DEF Completes, Known, KindsApart, Rests, StepAt, IdOf, Steps, Stops, Marks, Unmarks
<1>9. /\ meta' \in [Ids -> {"none", "parsing", "completed", "failed"}]
      /\ \A k \in Ids : meta[k] # "none" /\ meta'[k] = "none" =>
            g \in Deletions /\ step[g].pc # "idle" /\ w.pc # "idle" /\ k = step[g].id
  BY <1>1, <1>2 DEF Completes, Known, KindsApart, StepAt, IdOf, Steps, Stops, Marks, Unmarks
<1>10. \A k \in WithMeta(g, w) : k \in WithMeta(g, step[g]) \/ meta'[k] # "none"
  BY <1>1, <1>2 DEF Completes, Known, KindsApart, Rests, WithMeta, StepAt, IdOf, Steps, Stops, Marks, Unmarks
<1>11. /\ file' \subseteq Names /\ marks' \subseteq Names \X Markers /\ troubles' \in 0 .. MaxMishaps /\ UNCHANGED orphans
  BY <1>1, <1>2, NzbFilesAssumption DEF Completes, Known, Markers, Path, Ids, Trouble, Unmarked, StepAt, IdOf, Steps, Stops, Marks, Unmarks
<1>12. jobs' \in Seq(used')
  BY <1>1, <1>2, <1>5, SeqGrows DEF Completes, Known, KindsApart, StepAt, IdOf, Steps, Stops, Marks, Unmarks
<1> HIDE DEF w
<1> QED  BY <1>1, <1>4, <1>5, <1>6, <1>7, <1>8, <1>9, <1>10, <1>11, <1>12, NzbMoves

LEMMA MarkProcessedKeeps ==
    ASSUME NzbInv, NEW g \in NzbWorkers \cup Scans, MarkProcessed(g) PROVE NzbInv'
<1>1. g \in Jobs /\ KindsApart(g)
  BY GoroutineKinds DEF Jobs
<1>2. Known(g)
  BY <1>1, WhatIsKnown
<1> DEFINE w == [step[g] EXCEPT !.pc = "unmark"]
<1>4. w \in NzbStep /\ step' = [step EXCEPT ![g] = w]
  BY <1>1, <1>2 DEF MarkProcessed, Known, KindsApart, NzbStep, NzbPcs, Rests, StepAt, IdOf, Steps, Stops, Marks, Unmarks
<1>5. /\ {} \cap used = {} /\ used' = used \cup {} /\ {} \in SUBSET Ids
      /\ (w.pc \notin {"idle", "scan"} => w.id \in used') /\ w.id \in used' \cup {NoId} /\ w.made \subseteq used'
      /\ (g \in Deletions => w.pc # "scan") /\ (g \notin Scans => w.made = {})
  BY <1>1, <1>2 DEF MarkProcessed, Known, KindsApart, Rests, NewIds, StepAt, IdOf, Steps, Stops, Marks, Unmarks
<1>6. Own(g, w) \subseteq Own(g, step[g]) \cup {}
  BY <1>1, <1>2 DEF MarkProcessed, Known, KindsApart, Rests, Own, StepAt, IdOf, Steps, Stops, Marks, Unmarks
<1>7. entries' \subseteq entries \cup WithMeta(g, step[g]) /\ entries' \cap Own(g, w) = {}
  BY <1>1, <1>2, <1>6 DEF MarkProcessed, Known, KindsApart, Rests, Own, WithMeta, NewIds, StepAt, IdOf, Steps, Stops, Marks, Unmarks
<1>8. /\ g \in Deletions /\ w.pc # "idle" => IF step[g].pc = "idle" THEN w.id \in entries ELSE w.id = step[g].id
      /\ g \in Deletions /\ step[g].pc # "idle" /\ w.pc = "idle" => step[g].id \notin entries'
  BY <1>1, <1>2 DEF MarkProcessed, Known, KindsApart, Rests, StepAt, IdOf, Steps, Stops, Marks, Unmarks
<1>9. /\ meta' \in [Ids -> {"none", "parsing", "completed", "failed"}]
      /\ \A k \in Ids : meta[k] # "none" /\ meta'[k] = "none" =>
            g \in Deletions /\ step[g].pc # "idle" /\ w.pc # "idle" /\ k = step[g].id
  BY <1>1, <1>2 DEF MarkProcessed, Known, KindsApart, StepAt, IdOf, Steps, Stops, Marks, Unmarks
<1>10. \A k \in WithMeta(g, w) : k \in WithMeta(g, step[g]) \/ meta'[k] # "none"
  BY <1>1, <1>2 DEF MarkProcessed, Known, KindsApart, Rests, WithMeta, StepAt, IdOf, Steps, Stops, Marks, Unmarks
<1>11. /\ file' \subseteq Names /\ marks' \subseteq Names \X Markers /\ troubles' \in 0 .. MaxMishaps /\ UNCHANGED orphans
  BY <1>1, <1>2, NzbFilesAssumption DEF MarkProcessed, Known, Markers, Path, Ids, Trouble, Unmarked, StepAt, IdOf, Steps, Stops, Marks, Unmarks
<1>12. jobs' \in Seq(used')
  BY <1>1, <1>2, <1>5, SeqGrows DEF MarkProcessed, Known, KindsApart, StepAt, IdOf, Steps, Stops, Marks, Unmarks
<1> HIDE DEF w
<1> QED  BY <1>1, <1>4, <1>5, <1>6, <1>7, <1>8, <1>9, <1>10, <1>11, <1>12, NzbMoves

LEMMA UnmarkKeeps ==
    ASSUME NzbInv, NEW g \in NzbWorkers \cup Scans, Unmark(g) PROVE NzbInv'
<1>1. g \in Jobs /\ KindsApart(g)
  BY GoroutineKinds DEF Jobs
<1>2. Known(g)
  BY <1>1, WhatIsKnown
<1> DEFINE w == IF g \in Scans THEN [step[g] EXCEPT !.pc = "scan", !.id = NoId, !.made = @ \cup {step[g].id}] ELSE Rests
<1>4. w \in NzbStep /\ step' = [step EXCEPT ![g] = w]
  <2>1. step' = [step EXCEPT ![g] = w]
    BY <1>1, <1>2 DEF Unmark, Known, NzbStep, Rests, StepAt, Stops, Steps, IdOf
  <2>2. step[g].id \in Ids
    BY <1>2 DEF Unmark, Known, StepAt
  <2>3. CASE g \in Scans
    BY <1>1, <1>2, <2>1, <2>2, <2>3 DEF Known, NzbStep, NzbPcs
  <2>4. CASE g \notin Scans
    BY <1>1, <1>2, <2>1, <2>4 DEF Known, NzbStep, NzbPcs, Rests
  <2> QED  BY <2>3, <2>4
<1>5. /\ {} \cap used = {} /\ used' = used \cup {} /\ {} \in SUBSET Ids
      /\ (w.pc \notin {"idle", "scan"} => w.id \in used') /\ w.id \in used' \cup {NoId} /\ w.made \subseteq used'
      /\ (g \in Deletions => w.pc # "scan") /\ (g \notin Scans => w.made = {})
  BY <1>1, <1>2 DEF Unmark, Known, KindsApart, Rests, NewIds, StepAt, IdOf, Steps, Stops, Marks, Unmarks
<1>6. Own(g, w) \subseteq Own(g, step[g]) \cup {}
  BY <1>1, <1>2 DEF Unmark, Known, KindsApart, Rests, Own, StepAt, IdOf, Steps, Stops, Marks, Unmarks
<1>7. entries' \subseteq entries \cup WithMeta(g, step[g]) /\ entries' \cap Own(g, w) = {}
  BY <1>1, <1>2, <1>6 DEF Unmark, Known, KindsApart, Rests, Own, WithMeta, NewIds, StepAt, IdOf, Steps, Stops, Marks, Unmarks
<1>8. /\ g \in Deletions /\ w.pc # "idle" => IF step[g].pc = "idle" THEN w.id \in entries ELSE w.id = step[g].id
      /\ g \in Deletions /\ step[g].pc # "idle" /\ w.pc = "idle" => step[g].id \notin entries'
  BY <1>1, <1>2 DEF Unmark, Known, KindsApart, Rests, StepAt, IdOf, Steps, Stops, Marks, Unmarks
<1>9. /\ meta' \in [Ids -> {"none", "parsing", "completed", "failed"}]
      /\ \A k \in Ids : meta[k] # "none" /\ meta'[k] = "none" =>
            g \in Deletions /\ step[g].pc # "idle" /\ w.pc # "idle" /\ k = step[g].id
  BY <1>1, <1>2 DEF Unmark, Known, KindsApart, StepAt, IdOf, Steps, Stops, Marks, Unmarks
<1>10. \A k \in WithMeta(g, w) : k \in WithMeta(g, step[g]) \/ meta'[k] # "none"
  BY <1>1, <1>2 DEF Unmark, Known, KindsApart, Rests, WithMeta, StepAt, IdOf, Steps, Stops, Marks, Unmarks
<1>11. /\ file' \subseteq Names /\ marks' \subseteq Names \X Markers /\ troubles' \in 0 .. MaxMishaps /\ UNCHANGED orphans
  BY <1>1, <1>2, NzbFilesAssumption DEF Unmark, Known, Markers, Path, Ids, Trouble, Unmarked, StepAt, IdOf, Steps, Stops, Marks, Unmarks
<1>12. jobs' \in Seq(used')
  BY <1>1, <1>2, <1>5, SeqGrows DEF Unmark, Known, KindsApart, StepAt, IdOf, Steps, Stops, Marks, Unmarks
<1> HIDE DEF w
<1> QED  BY <1>1, <1>4, <1>5, <1>6, <1>7, <1>8, <1>9, <1>10, <1>11, <1>12, NzbMoves

LEMMA ScanKeeps ==
    ASSUME NzbInv, NEW g \in Scans, Scan(g) PROVE NzbInv'
<1>1. g \in Jobs /\ KindsApart(g)
  BY GoroutineKinds DEF Jobs
<1>2. Known(g)
  BY <1>1, WhatIsKnown
<1> DEFINE w == [Rests EXCEPT !.pc = "scan", !.todo = Unmarked]
<1>4. w \in NzbStep /\ step' = [step EXCEPT ![g] = w]
  <2>1. step' = [step EXCEPT ![g] = w]
    BY <1>1, <1>2 DEF Scan, Known, NzbStep, Rests, StepAt, Stops, Steps, IdOf
  <2>2. Unmarked \subseteq Names
    BY <1>2 DEF Unmarked, Known
  <2> QED  BY <1>1, <1>2, <2>1, <2>2 DEF Known, NzbStep, NzbPcs, Rests
<1>5. /\ {} \cap used = {} /\ used' = used \cup {} /\ {} \in SUBSET Ids
      /\ (w.pc \notin {"idle", "scan"} => w.id \in used') /\ w.id \in used' \cup {NoId} /\ w.made \subseteq used'
      /\ (g \in Deletions => w.pc # "scan") /\ (g \notin Scans => w.made = {})
  BY <1>1, <1>2 DEF Scan, Known, KindsApart, Rests, NewIds, StepAt, IdOf, Steps, Stops, Marks, Unmarks
<1>6. Own(g, w) \subseteq Own(g, step[g]) \cup {}
  BY <1>1, <1>2 DEF Scan, Known, KindsApart, Rests, Own, StepAt, IdOf, Steps, Stops, Marks, Unmarks
<1>7. entries' \subseteq entries \cup WithMeta(g, step[g]) /\ entries' \cap Own(g, w) = {}
  BY <1>1, <1>2, <1>6 DEF Scan, Known, KindsApart, Rests, Own, WithMeta, NewIds, StepAt, IdOf, Steps, Stops, Marks, Unmarks
<1>8. /\ g \in Deletions /\ w.pc # "idle" => IF step[g].pc = "idle" THEN w.id \in entries ELSE w.id = step[g].id
      /\ g \in Deletions /\ step[g].pc # "idle" /\ w.pc = "idle" => step[g].id \notin entries'
  BY <1>1, <1>2 DEF Scan, Known, KindsApart, Rests, StepAt, IdOf, Steps, Stops, Marks, Unmarks
<1>9. /\ meta' \in [Ids -> {"none", "parsing", "completed", "failed"}]
      /\ \A k \in Ids : meta[k] # "none" /\ meta'[k] = "none" =>
            g \in Deletions /\ step[g].pc # "idle" /\ w.pc # "idle" /\ k = step[g].id
  BY <1>1, <1>2 DEF Scan, Known, KindsApart, StepAt, IdOf, Steps, Stops, Marks, Unmarks
<1>10. \A k \in WithMeta(g, w) : k \in WithMeta(g, step[g]) \/ meta'[k] # "none"
  BY <1>1, <1>2 DEF Scan, Known, KindsApart, Rests, WithMeta, StepAt, IdOf, Steps, Stops, Marks, Unmarks
<1>11. /\ file' \subseteq Names /\ marks' \subseteq Names \X Markers /\ troubles' \in 0 .. MaxMishaps /\ UNCHANGED orphans
  BY <1>1, <1>2, NzbFilesAssumption DEF Scan, Known, Markers, Path, Ids, Trouble, Unmarked, StepAt, IdOf, Steps, Stops, Marks, Unmarks
<1>12. jobs' \in Seq(used')
  BY <1>1, <1>2, <1>5, SeqGrows DEF Scan, Known, KindsApart, StepAt, IdOf, Steps, Stops, Marks, Unmarks
<1> HIDE DEF w
<1> QED  BY <1>1, <1>4, <1>5, <1>6, <1>7, <1>8, <1>9, <1>10, <1>11, <1>12, NzbMoves

LEMMA ScanFileKeeps ==
    ASSUME NzbInv, NEW g \in Scans, ScanFile(g) PROVE NzbInv'
<1>1. g \in Jobs /\ KindsApart(g)
  BY GoroutineKinds DEF Jobs
<1>2. Known(g)
  BY <1>1, WhatIsKnown
<1>3. PICK n \in step[g].todo, i \in Ids : i \in NewIds(n) /\
          step' = [step EXCEPT ![g].pc = "complete", ![g].id = i, ![g].todo = @ \ {n}] /\ used' = used \cup {i}
  BY <1>1, <1>2 DEF ScanFile, NewIds, StepAt, IdOf, Steps, Stops, Marks, Unmarks
<1> DEFINE w == [step[g] EXCEPT !.pc = "complete", !.id = i, !.todo = @ \ {n}]
<1>4. w \in NzbStep /\ step' = [step EXCEPT ![g] = w]
  BY <1>1, <1>2, <1>3 DEF ScanFile, Known, KindsApart, NzbStep, NzbPcs, Rests, StepAt, IdOf, Steps, Stops, Marks, Unmarks
<1>5. /\ {i} \cap used = {} /\ used' = used \cup {i} /\ {i} \in SUBSET Ids
      /\ (w.pc \notin {"idle", "scan"} => w.id \in used') /\ w.id \in used' \cup {NoId} /\ w.made \subseteq used'
      /\ (g \in Deletions => w.pc # "scan") /\ (g \notin Scans => w.made = {})
  BY <1>1, <1>2, <1>3 DEF ScanFile, Known, KindsApart, Rests, NewIds, StepAt, IdOf, Steps, Stops, Marks, Unmarks
<1>6. Own(g, w) \subseteq Own(g, step[g]) \cup {i}
  BY <1>1, <1>2, <1>3 DEF ScanFile, Known, KindsApart, Rests, Own, StepAt, IdOf, Steps, Stops, Marks, Unmarks
<1>7. entries' \subseteq entries \cup WithMeta(g, step[g]) /\ entries' \cap Own(g, w) = {}
  BY <1>1, <1>2, <1>3, <1>6 DEF ScanFile, Known, KindsApart, Rests, Own, WithMeta, NewIds, StepAt, IdOf, Steps, Stops, Marks, Unmarks
<1>8. /\ g \in Deletions /\ w.pc # "idle" => IF step[g].pc = "idle" THEN w.id \in entries ELSE w.id = step[g].id
      /\ g \in Deletions /\ step[g].pc # "idle" /\ w.pc = "idle" => step[g].id \notin entries'
  BY <1>1, <1>2, <1>3 DEF ScanFile, Known, KindsApart, Rests, StepAt, IdOf, Steps, Stops, Marks, Unmarks
<1>9. /\ meta' \in [Ids -> {"none", "parsing", "completed", "failed"}]
      /\ \A k \in Ids : meta[k] # "none" /\ meta'[k] = "none" =>
            g \in Deletions /\ step[g].pc # "idle" /\ w.pc # "idle" /\ k = step[g].id
  BY <1>1, <1>2, <1>3 DEF ScanFile, Known, KindsApart, StepAt, IdOf, Steps, Stops, Marks, Unmarks
<1>10. \A k \in WithMeta(g, w) : k \in WithMeta(g, step[g]) \/ meta'[k] # "none"
  BY <1>1, <1>2, <1>3 DEF ScanFile, Known, KindsApart, Rests, WithMeta, StepAt, IdOf, Steps, Stops, Marks, Unmarks
<1>11. /\ file' \subseteq Names /\ marks' \subseteq Names \X Markers /\ troubles' \in 0 .. MaxMishaps /\ UNCHANGED orphans
  BY <1>1, <1>2, <1>3, NzbFilesAssumption DEF ScanFile, Known, Markers, Path, Ids, Trouble, Unmarked, StepAt, IdOf, Steps, Stops, Marks, Unmarks
<1>12. jobs' \in Seq(used')
  BY <1>1, <1>2, <1>3, <1>5, SeqGrows DEF ScanFile, Known, KindsApart, StepAt, IdOf, Steps, Stops, Marks, Unmarks
<1> HIDE DEF w
<1> QED  BY <1>1, <1>4, <1>5, <1>6, <1>7, <1>8, <1>9, <1>10, <1>11, <1>12, NzbMoves

LEMMA ScanFailsKeeps ==
    ASSUME NzbInv, NEW g \in Scans, ScanFails(g) PROVE NzbInv'
<1>1. g \in Jobs /\ KindsApart(g)
  BY GoroutineKinds DEF Jobs
<1>2. Known(g)
  BY <1>1, WhatIsKnown
<1>3. PICK n \in step[g].todo : step' = [step EXCEPT ![g].todo = @ \ {n}] /\ marks' = marks \cup {<<n, "failed">>}
  BY <1>1, <1>2 DEF ScanFails, NewIds, StepAt, IdOf, Steps, Stops, Marks, Unmarks
<1> DEFINE w == [step[g] EXCEPT !.todo = @ \ {n}]
<1>4. w \in NzbStep /\ step' = [step EXCEPT ![g] = w]
  BY <1>1, <1>2, <1>3 DEF ScanFails, Known, KindsApart, NzbStep, NzbPcs, Rests, StepAt, IdOf, Steps, Stops, Marks, Unmarks
<1>5. /\ {} \cap used = {} /\ used' = used \cup {} /\ {} \in SUBSET Ids
      /\ (w.pc \notin {"idle", "scan"} => w.id \in used') /\ w.id \in used' \cup {NoId} /\ w.made \subseteq used'
      /\ (g \in Deletions => w.pc # "scan") /\ (g \notin Scans => w.made = {})
  BY <1>1, <1>2, <1>3 DEF ScanFails, Known, KindsApart, Rests, NewIds, StepAt, IdOf, Steps, Stops, Marks, Unmarks
<1>6. Own(g, w) \subseteq Own(g, step[g]) \cup {}
  BY <1>1, <1>2, <1>3 DEF ScanFails, Known, KindsApart, Rests, Own, StepAt, IdOf, Steps, Stops, Marks, Unmarks
<1>7. entries' \subseteq entries \cup WithMeta(g, step[g]) /\ entries' \cap Own(g, w) = {}
  BY <1>1, <1>2, <1>3, <1>6 DEF ScanFails, Known, KindsApart, Rests, Own, WithMeta, NewIds, StepAt, IdOf, Steps, Stops, Marks, Unmarks
<1>8. /\ g \in Deletions /\ w.pc # "idle" => IF step[g].pc = "idle" THEN w.id \in entries ELSE w.id = step[g].id
      /\ g \in Deletions /\ step[g].pc # "idle" /\ w.pc = "idle" => step[g].id \notin entries'
  BY <1>1, <1>2, <1>3 DEF ScanFails, Known, KindsApart, Rests, StepAt, IdOf, Steps, Stops, Marks, Unmarks
<1>9. /\ meta' \in [Ids -> {"none", "parsing", "completed", "failed"}]
      /\ \A k \in Ids : meta[k] # "none" /\ meta'[k] = "none" =>
            g \in Deletions /\ step[g].pc # "idle" /\ w.pc # "idle" /\ k = step[g].id
  BY <1>1, <1>2, <1>3 DEF ScanFails, Known, KindsApart, StepAt, IdOf, Steps, Stops, Marks, Unmarks
<1>10. \A k \in WithMeta(g, w) : k \in WithMeta(g, step[g]) \/ meta'[k] # "none"
  BY <1>1, <1>2, <1>3 DEF ScanFails, Known, KindsApart, Rests, WithMeta, StepAt, IdOf, Steps, Stops, Marks, Unmarks
<1>11. /\ file' \subseteq Names /\ marks' \subseteq Names \X Markers /\ troubles' \in 0 .. MaxMishaps /\ UNCHANGED orphans
  <2>1. n \in Names
    BY <1>2 DEF Known, NzbStep
  <2>2. marks' \subseteq Names \X Markers
    BY <1>2, <1>3, <2>1 DEF Known, Markers
  <2> QED  BY <1>2, <2>2 DEF ScanFails, Known
<1>12. jobs' \in Seq(used')
  BY <1>1, <1>2, <1>3, <1>5, SeqGrows DEF ScanFails, Known, KindsApart, StepAt, IdOf, Steps, Stops, Marks, Unmarks
<1> HIDE DEF w
<1> QED  BY <1>1, <1>4, <1>5, <1>6, <1>7, <1>8, <1>9, <1>10, <1>11, <1>12, NzbMoves

LEMMA SyncKeeps ==
    ASSUME NzbInv, NEW g \in Scans, Sync(g) PROVE NzbInv'
<1>1. g \in Jobs /\ KindsApart(g)
  BY GoroutineKinds DEF Jobs
<1>2. Known(g)
  BY <1>1, WhatIsKnown
<1> DEFINE w == Rests
<1>4. w \in NzbStep /\ step' = [step EXCEPT ![g] = w]
  BY <1>1, <1>2 DEF Sync, Known, KindsApart, NzbStep, NzbPcs, Rests, StepAt, IdOf, Steps, Stops, Marks, Unmarks
<1>5. /\ {} \cap used = {} /\ used' = used \cup {} /\ {} \in SUBSET Ids
      /\ (w.pc \notin {"idle", "scan"} => w.id \in used') /\ w.id \in used' \cup {NoId} /\ w.made \subseteq used'
      /\ (g \in Deletions => w.pc # "scan") /\ (g \notin Scans => w.made = {})
  BY <1>1, <1>2 DEF Sync, Known, KindsApart, Rests, NewIds, StepAt, IdOf, Steps, Stops, Marks, Unmarks
<1>6. Own(g, w) \subseteq Own(g, step[g]) \cup {}
  BY <1>1, <1>2 DEF Sync, Known, KindsApart, Rests, Own, StepAt, IdOf, Steps, Stops, Marks, Unmarks
<1>7. entries' \subseteq entries \cup WithMeta(g, step[g]) /\ entries' \cap Own(g, w) = {}
  BY <1>1, <1>2, <1>6 DEF Sync, Known, KindsApart, Rests, Own, WithMeta, NewIds, StepAt, IdOf, Steps, Stops, Marks, Unmarks
<1>8. /\ g \in Deletions /\ w.pc # "idle" => IF step[g].pc = "idle" THEN w.id \in entries ELSE w.id = step[g].id
      /\ g \in Deletions /\ step[g].pc # "idle" /\ w.pc = "idle" => step[g].id \notin entries'
  BY <1>1, <1>2 DEF Sync, Known, KindsApart, Rests, StepAt, IdOf, Steps, Stops, Marks, Unmarks
<1>9. /\ meta' \in [Ids -> {"none", "parsing", "completed", "failed"}]
      /\ \A k \in Ids : meta[k] # "none" /\ meta'[k] = "none" =>
            g \in Deletions /\ step[g].pc # "idle" /\ w.pc # "idle" /\ k = step[g].id
  BY <1>1, <1>2 DEF Sync, Known, KindsApart, StepAt, IdOf, Steps, Stops, Marks, Unmarks
<1>10. \A k \in WithMeta(g, w) : k \in WithMeta(g, step[g]) \/ meta'[k] # "none"
  BY <1>1, <1>2 DEF Sync, Known, KindsApart, Rests, WithMeta, StepAt, IdOf, Steps, Stops, Marks, Unmarks
<1>11. /\ file' \subseteq Names /\ marks' \subseteq Names \X Markers /\ troubles' \in 0 .. MaxMishaps /\ UNCHANGED orphans
  BY <1>1, <1>2, NzbFilesAssumption DEF Sync, Known, Markers, Path, Ids, Trouble, Unmarked, StepAt, IdOf, Steps, Stops, Marks, Unmarks
<1>12. jobs' \in Seq(used')
  BY <1>1, <1>2, <1>5, SeqGrows DEF Sync, Known, KindsApart, StepAt, IdOf, Steps, Stops, Marks, Unmarks
<1> HIDE DEF w
<1> QED  BY <1>1, <1>4, <1>5, <1>6, <1>7, <1>8, <1>9, <1>10, <1>11, <1>12, NzbMoves

LEMMA DeleteFirstKeeps ==
    ASSUME NzbInv, NEW g \in Deletions, NEW i \in Ids, DeleteFirst(g, i) PROVE NzbInv'
<1>1. g \in Jobs /\ KindsApart(g)
  BY GoroutineKinds DEF Jobs
<1>2. Known(g)
  BY <1>1, WhatIsKnown
<1> DEFINE w == [Rests EXCEPT !.pc = "file", !.id = i]
<1>4. w \in NzbStep /\ step' = [step EXCEPT ![g] = w]
  BY <1>1, <1>2 DEF DeleteFirst, Known, KindsApart, NzbStep, NzbPcs, Rests, StepAt, IdOf, Steps, Stops, Marks, Unmarks
<1>5. /\ {} \cap used = {} /\ used' = used \cup {} /\ {} \in SUBSET Ids
      /\ (w.pc \notin {"idle", "scan"} => w.id \in used') /\ w.id \in used' \cup {NoId} /\ w.made \subseteq used'
      /\ (g \in Deletions => w.pc # "scan") /\ (g \notin Scans => w.made = {})
  BY <1>1, <1>2 DEF DeleteFirst, Known, KindsApart, Rests, NewIds, StepAt, IdOf, Steps, Stops, Marks, Unmarks
<1>6. Own(g, w) \subseteq Own(g, step[g]) \cup {}
  BY <1>1, <1>2 DEF DeleteFirst, Known, KindsApart, Rests, Own, StepAt, IdOf, Steps, Stops, Marks, Unmarks
<1>7. entries' \subseteq entries \cup WithMeta(g, step[g]) /\ entries' \cap Own(g, w) = {}
  BY <1>1, <1>2, <1>6 DEF DeleteFirst, Known, KindsApart, Rests, Own, WithMeta, NewIds, StepAt, IdOf, Steps, Stops, Marks, Unmarks
<1>8. /\ g \in Deletions /\ w.pc # "idle" => IF step[g].pc = "idle" THEN w.id \in entries ELSE w.id = step[g].id
      /\ g \in Deletions /\ step[g].pc # "idle" /\ w.pc = "idle" => step[g].id \notin entries'
  BY <1>1, <1>2 DEF DeleteFirst, Known, KindsApart, Rests, StepAt, IdOf, Steps, Stops, Marks, Unmarks
<1>9. /\ meta' \in [Ids -> {"none", "parsing", "completed", "failed"}]
      /\ \A k \in Ids : meta[k] # "none" /\ meta'[k] = "none" =>
            g \in Deletions /\ step[g].pc # "idle" /\ w.pc # "idle" /\ k = step[g].id
  BY <1>1, <1>2 DEF DeleteFirst, Known, KindsApart, StepAt, IdOf, Steps, Stops, Marks, Unmarks
<1>10. \A k \in WithMeta(g, w) : k \in WithMeta(g, step[g]) \/ meta'[k] # "none"
  BY <1>1, <1>2 DEF DeleteFirst, Known, KindsApart, Rests, WithMeta, StepAt, IdOf, Steps, Stops, Marks, Unmarks
<1>11. /\ file' \subseteq Names /\ marks' \subseteq Names \X Markers /\ troubles' \in 0 .. MaxMishaps /\ UNCHANGED orphans
  BY <1>1, <1>2, NzbFilesAssumption DEF DeleteFirst, Known, Markers, Path, Ids, Trouble, Unmarked, StepAt, IdOf, Steps, Stops, Marks, Unmarks
<1>12. jobs' \in Seq(used')
  BY <1>1, <1>2, <1>5, SeqGrows DEF DeleteFirst, Known, KindsApart, StepAt, IdOf, Steps, Stops, Marks, Unmarks
<1> HIDE DEF w
<1> QED  BY <1>1, <1>4, <1>5, <1>6, <1>7, <1>8, <1>9, <1>10, <1>11, <1>12, NzbMoves

LEMMA DeleteLastKeeps ==
    ASSUME NzbInv, NEW g \in Deletions, NEW i \in Ids, DeleteLast(g, i) PROVE NzbInv'
<1>1. g \in Jobs /\ KindsApart(g)
  BY GoroutineKinds DEF Jobs
<1>2. Known(g)
  BY <1>1, WhatIsKnown
<1> DEFINE w == [Rests EXCEPT !.pc = "file", !.id = i]
<1>4. w \in NzbStep /\ step' = [step EXCEPT ![g] = w]
  BY <1>1, <1>2 DEF DeleteLast, Known, KindsApart, NzbStep, NzbPcs, Rests, StepAt, IdOf, Steps, Stops, Marks, Unmarks
<1>5. /\ {} \cap used = {} /\ used' = used \cup {} /\ {} \in SUBSET Ids
      /\ (w.pc \notin {"idle", "scan"} => w.id \in used') /\ w.id \in used' \cup {NoId} /\ w.made \subseteq used'
      /\ (g \in Deletions => w.pc # "scan") /\ (g \notin Scans => w.made = {})
  BY <1>1, <1>2 DEF DeleteLast, Known, KindsApart, Rests, NewIds, StepAt, IdOf, Steps, Stops, Marks, Unmarks
<1>6. Own(g, w) \subseteq Own(g, step[g]) \cup {}
  BY <1>1, <1>2 DEF DeleteLast, Known, KindsApart, Rests, Own, StepAt, IdOf, Steps, Stops, Marks, Unmarks
<1>7. entries' \subseteq entries \cup WithMeta(g, step[g]) /\ entries' \cap Own(g, w) = {}
  BY <1>1, <1>2, <1>6 DEF DeleteLast, Known, KindsApart, Rests, Own, WithMeta, NewIds, StepAt, IdOf, Steps, Stops, Marks, Unmarks
<1>8. /\ g \in Deletions /\ w.pc # "idle" => IF step[g].pc = "idle" THEN w.id \in entries ELSE w.id = step[g].id
      /\ g \in Deletions /\ step[g].pc # "idle" /\ w.pc = "idle" => step[g].id \notin entries'
  BY <1>1, <1>2 DEF DeleteLast, Known, KindsApart, Rests, StepAt, IdOf, Steps, Stops, Marks, Unmarks
<1>9. /\ meta' \in [Ids -> {"none", "parsing", "completed", "failed"}]
      /\ \A k \in Ids : meta[k] # "none" /\ meta'[k] = "none" =>
            g \in Deletions /\ step[g].pc # "idle" /\ w.pc # "idle" /\ k = step[g].id
  BY <1>1, <1>2 DEF DeleteLast, Known, KindsApart, StepAt, IdOf, Steps, Stops, Marks, Unmarks
<1>10. \A k \in WithMeta(g, w) : k \in WithMeta(g, step[g]) \/ meta'[k] # "none"
  BY <1>1, <1>2 DEF DeleteLast, Known, KindsApart, Rests, WithMeta, StepAt, IdOf, Steps, Stops, Marks, Unmarks
<1>11. /\ file' \subseteq Names /\ marks' \subseteq Names \X Markers /\ troubles' \in 0 .. MaxMishaps /\ UNCHANGED orphans
  BY <1>1, <1>2, NzbFilesAssumption DEF DeleteLast, Known, Markers, Path, Ids, Trouble, Unmarked, StepAt, IdOf, Steps, Stops, Marks, Unmarks
<1>12. jobs' \in Seq(used')
  BY <1>1, <1>2, <1>5, SeqGrows DEF DeleteLast, Known, KindsApart, StepAt, IdOf, Steps, Stops, Marks, Unmarks
<1> HIDE DEF w
<1> QED  BY <1>1, <1>4, <1>5, <1>6, <1>7, <1>8, <1>9, <1>10, <1>11, <1>12, NzbMoves

LEMMA DeleteFileKeeps ==
    ASSUME NzbInv, NEW g \in Deletions, DeleteFile(g) PROVE NzbInv'
<1>1. g \in Jobs /\ KindsApart(g)
  BY GoroutineKinds DEF Jobs
<1>2. Known(g)
  BY <1>1, WhatIsKnown
<1> DEFINE w == [step[g] EXCEPT !.pc = IF meta[step[g].id] = "none" THEN "row" ELSE "markers"]
<1>4. w \in NzbStep /\ step' = [step EXCEPT ![g] = w]
  BY <1>1, <1>2 DEF DeleteFile, Known, KindsApart, NzbStep, NzbPcs, Rests, StepAt, IdOf, Steps, Stops, Marks, Unmarks
<1>5. /\ {} \cap used = {} /\ used' = used \cup {} /\ {} \in SUBSET Ids
      /\ (w.pc \notin {"idle", "scan"} => w.id \in used') /\ w.id \in used' \cup {NoId} /\ w.made \subseteq used'
      /\ (g \in Deletions => w.pc # "scan") /\ (g \notin Scans => w.made = {})
  BY <1>1, <1>2 DEF DeleteFile, Known, KindsApart, Rests, NewIds, StepAt, IdOf, Steps, Stops, Marks, Unmarks
<1>6. Own(g, w) \subseteq Own(g, step[g]) \cup {}
  BY <1>1, <1>2 DEF DeleteFile, Known, KindsApart, Rests, Own, StepAt, IdOf, Steps, Stops, Marks, Unmarks
<1>7. entries' \subseteq entries \cup WithMeta(g, step[g]) /\ entries' \cap Own(g, w) = {}
  BY <1>1, <1>2, <1>6 DEF DeleteFile, Known, KindsApart, Rests, Own, WithMeta, NewIds, StepAt, IdOf, Steps, Stops, Marks, Unmarks
<1>8. /\ g \in Deletions /\ w.pc # "idle" => IF step[g].pc = "idle" THEN w.id \in entries ELSE w.id = step[g].id
      /\ g \in Deletions /\ step[g].pc # "idle" /\ w.pc = "idle" => step[g].id \notin entries'
  BY <1>1, <1>2 DEF DeleteFile, Known, KindsApart, Rests, StepAt, IdOf, Steps, Stops, Marks, Unmarks
<1>9. /\ meta' \in [Ids -> {"none", "parsing", "completed", "failed"}]
      /\ \A k \in Ids : meta[k] # "none" /\ meta'[k] = "none" =>
            g \in Deletions /\ step[g].pc # "idle" /\ w.pc # "idle" /\ k = step[g].id
  BY <1>1, <1>2 DEF DeleteFile, Known, KindsApart, StepAt, IdOf, Steps, Stops, Marks, Unmarks
<1>10. \A k \in WithMeta(g, w) : k \in WithMeta(g, step[g]) \/ meta'[k] # "none"
  BY <1>1, <1>2 DEF DeleteFile, Known, KindsApart, Rests, WithMeta, StepAt, IdOf, Steps, Stops, Marks, Unmarks
<1>11. /\ file' \subseteq Names /\ marks' \subseteq Names \X Markers /\ troubles' \in 0 .. MaxMishaps /\ UNCHANGED orphans
  BY <1>1, <1>2, NzbFilesAssumption DEF DeleteFile, Known, Markers, Path, Ids, Trouble, Unmarked, StepAt, IdOf, Steps, Stops, Marks, Unmarks
<1>12. jobs' \in Seq(used')
  BY <1>1, <1>2, <1>5, SeqGrows DEF DeleteFile, Known, KindsApart, StepAt, IdOf, Steps, Stops, Marks, Unmarks
<1> HIDE DEF w
<1> QED  BY <1>1, <1>4, <1>5, <1>6, <1>7, <1>8, <1>9, <1>10, <1>11, <1>12, NzbMoves

LEMMA DeleteMarkersKeeps ==
    ASSUME NzbInv, NEW g \in Deletions, DeleteMarkers(g) PROVE NzbInv'
<1>1. g \in Jobs /\ KindsApart(g)
  BY GoroutineKinds DEF Jobs
<1>2. Known(g)
  BY <1>1, WhatIsKnown
<1> DEFINE w == [step[g] EXCEPT !.pc = "meta"]
<1>4. w \in NzbStep /\ step' = [step EXCEPT ![g] = w]
  BY <1>1, <1>2 DEF DeleteMarkers, Known, KindsApart, NzbStep, NzbPcs, Rests, StepAt, IdOf, Steps, Stops, Marks, Unmarks
<1>5. /\ {} \cap used = {} /\ used' = used \cup {} /\ {} \in SUBSET Ids
      /\ (w.pc \notin {"idle", "scan"} => w.id \in used') /\ w.id \in used' \cup {NoId} /\ w.made \subseteq used'
      /\ (g \in Deletions => w.pc # "scan") /\ (g \notin Scans => w.made = {})
  BY <1>1, <1>2 DEF DeleteMarkers, Known, KindsApart, Rests, NewIds, StepAt, IdOf, Steps, Stops, Marks, Unmarks
<1>6. Own(g, w) \subseteq Own(g, step[g]) \cup {}
  BY <1>1, <1>2 DEF DeleteMarkers, Known, KindsApart, Rests, Own, StepAt, IdOf, Steps, Stops, Marks, Unmarks
<1>7. entries' \subseteq entries \cup WithMeta(g, step[g]) /\ entries' \cap Own(g, w) = {}
  BY <1>1, <1>2, <1>6 DEF DeleteMarkers, Known, KindsApart, Rests, Own, WithMeta, NewIds, StepAt, IdOf, Steps, Stops, Marks, Unmarks
<1>8. /\ g \in Deletions /\ w.pc # "idle" => IF step[g].pc = "idle" THEN w.id \in entries ELSE w.id = step[g].id
      /\ g \in Deletions /\ step[g].pc # "idle" /\ w.pc = "idle" => step[g].id \notin entries'
  BY <1>1, <1>2 DEF DeleteMarkers, Known, KindsApart, Rests, StepAt, IdOf, Steps, Stops, Marks, Unmarks
<1>9. /\ meta' \in [Ids -> {"none", "parsing", "completed", "failed"}]
      /\ \A k \in Ids : meta[k] # "none" /\ meta'[k] = "none" =>
            g \in Deletions /\ step[g].pc # "idle" /\ w.pc # "idle" /\ k = step[g].id
  BY <1>1, <1>2 DEF DeleteMarkers, Known, KindsApart, StepAt, IdOf, Steps, Stops, Marks, Unmarks
<1>10. \A k \in WithMeta(g, w) : k \in WithMeta(g, step[g]) \/ meta'[k] # "none"
  BY <1>1, <1>2 DEF DeleteMarkers, Known, KindsApart, Rests, WithMeta, StepAt, IdOf, Steps, Stops, Marks, Unmarks
<1>11. /\ file' \subseteq Names /\ marks' \subseteq Names \X Markers /\ troubles' \in 0 .. MaxMishaps /\ UNCHANGED orphans
  BY <1>1, <1>2, NzbFilesAssumption DEF DeleteMarkers, Known, Markers, Path, Ids, Trouble, Unmarked, StepAt, IdOf, Steps, Stops, Marks, Unmarks
<1>12. jobs' \in Seq(used')
  BY <1>1, <1>2, <1>5, SeqGrows DEF DeleteMarkers, Known, KindsApart, StepAt, IdOf, Steps, Stops, Marks, Unmarks
<1> HIDE DEF w
<1> QED  BY <1>1, <1>4, <1>5, <1>6, <1>7, <1>8, <1>9, <1>10, <1>11, <1>12, NzbMoves

LEMMA DeleteMetaKeeps ==
    ASSUME NzbInv, NEW g \in Deletions, DeleteMeta(g) PROVE NzbInv'
<1>1. g \in Jobs /\ KindsApart(g)
  BY GoroutineKinds DEF Jobs
<1>2. Known(g)
  BY <1>1, WhatIsKnown
<1> DEFINE w == [step[g] EXCEPT !.pc = "row"]
<1>4. w \in NzbStep /\ step' = [step EXCEPT ![g] = w]
  BY <1>1, <1>2 DEF DeleteMeta, Known, KindsApart, NzbStep, NzbPcs, Rests, StepAt, IdOf, Steps, Stops, Marks, Unmarks
<1>5. /\ {} \cap used = {} /\ used' = used \cup {} /\ {} \in SUBSET Ids
      /\ (w.pc \notin {"idle", "scan"} => w.id \in used') /\ w.id \in used' \cup {NoId} /\ w.made \subseteq used'
      /\ (g \in Deletions => w.pc # "scan") /\ (g \notin Scans => w.made = {})
  BY <1>1, <1>2 DEF DeleteMeta, Known, KindsApart, Rests, NewIds, StepAt, IdOf, Steps, Stops, Marks, Unmarks
<1>6. Own(g, w) \subseteq Own(g, step[g]) \cup {}
  BY <1>1, <1>2 DEF DeleteMeta, Known, KindsApart, Rests, Own, StepAt, IdOf, Steps, Stops, Marks, Unmarks
<1>7. entries' \subseteq entries \cup WithMeta(g, step[g]) /\ entries' \cap Own(g, w) = {}
  BY <1>1, <1>2, <1>6 DEF DeleteMeta, Known, KindsApart, Rests, Own, WithMeta, NewIds, StepAt, IdOf, Steps, Stops, Marks, Unmarks
<1>8. /\ g \in Deletions /\ w.pc # "idle" => IF step[g].pc = "idle" THEN w.id \in entries ELSE w.id = step[g].id
      /\ g \in Deletions /\ step[g].pc # "idle" /\ w.pc = "idle" => step[g].id \notin entries'
  BY <1>1, <1>2 DEF DeleteMeta, Known, KindsApart, Rests, StepAt, IdOf, Steps, Stops, Marks, Unmarks
<1>9. /\ meta' \in [Ids -> {"none", "parsing", "completed", "failed"}]
      /\ \A k \in Ids : meta[k] # "none" /\ meta'[k] = "none" =>
            g \in Deletions /\ step[g].pc # "idle" /\ w.pc # "idle" /\ k = step[g].id
  BY <1>1, <1>2 DEF DeleteMeta, Known, KindsApart, StepAt, IdOf, Steps, Stops, Marks, Unmarks
<1>10. \A k \in WithMeta(g, w) : k \in WithMeta(g, step[g]) \/ meta'[k] # "none"
  BY <1>1, <1>2 DEF DeleteMeta, Known, KindsApart, Rests, WithMeta, StepAt, IdOf, Steps, Stops, Marks, Unmarks
<1>11. /\ file' \subseteq Names /\ marks' \subseteq Names \X Markers /\ troubles' \in 0 .. MaxMishaps /\ UNCHANGED orphans
  BY <1>1, <1>2, NzbFilesAssumption DEF DeleteMeta, Known, Markers, Path, Ids, Trouble, Unmarked, StepAt, IdOf, Steps, Stops, Marks, Unmarks
<1>12. jobs' \in Seq(used')
  BY <1>1, <1>2, <1>5, SeqGrows DEF DeleteMeta, Known, KindsApart, StepAt, IdOf, Steps, Stops, Marks, Unmarks
<1> HIDE DEF w
<1> QED  BY <1>1, <1>4, <1>5, <1>6, <1>7, <1>8, <1>9, <1>10, <1>11, <1>12, NzbMoves

LEMMA DeleteRowKeeps ==
    ASSUME NzbInv, NEW g \in Deletions, DeleteRow(g) PROVE NzbInv'
<1>1. g \in Jobs /\ KindsApart(g)
  BY GoroutineKinds DEF Jobs
<1>2. Known(g)
  BY <1>1, WhatIsKnown
<1> DEFINE w == Rests
<1>4. w \in NzbStep /\ step' = [step EXCEPT ![g] = w]
  BY <1>1, <1>2 DEF DeleteRow, Known, KindsApart, NzbStep, NzbPcs, Rests, StepAt, IdOf, Steps, Stops, Marks, Unmarks
<1>5. /\ {} \cap used = {} /\ used' = used \cup {} /\ {} \in SUBSET Ids
      /\ (w.pc \notin {"idle", "scan"} => w.id \in used') /\ w.id \in used' \cup {NoId} /\ w.made \subseteq used'
      /\ (g \in Deletions => w.pc # "scan") /\ (g \notin Scans => w.made = {})
  BY <1>1, <1>2 DEF DeleteRow, Known, KindsApart, Rests, NewIds, StepAt, IdOf, Steps, Stops, Marks, Unmarks
<1>6. Own(g, w) \subseteq Own(g, step[g]) \cup {}
  BY <1>1, <1>2 DEF DeleteRow, Known, KindsApart, Rests, Own, StepAt, IdOf, Steps, Stops, Marks, Unmarks
<1>7. entries' \subseteq entries \cup WithMeta(g, step[g]) /\ entries' \cap Own(g, w) = {}
  BY <1>1, <1>2, <1>6 DEF DeleteRow, Known, KindsApart, Rests, Own, WithMeta, NewIds, StepAt, IdOf, Steps, Stops, Marks, Unmarks
<1>8. /\ g \in Deletions /\ w.pc # "idle" => IF step[g].pc = "idle" THEN w.id \in entries ELSE w.id = step[g].id
      /\ g \in Deletions /\ step[g].pc # "idle" /\ w.pc = "idle" => step[g].id \notin entries'
  BY <1>1, <1>2 DEF DeleteRow, Known, KindsApart, Rests, StepAt, IdOf, Steps, Stops, Marks, Unmarks
<1>9. /\ meta' \in [Ids -> {"none", "parsing", "completed", "failed"}]
      /\ \A k \in Ids : meta[k] # "none" /\ meta'[k] = "none" =>
            g \in Deletions /\ step[g].pc # "idle" /\ w.pc # "idle" /\ k = step[g].id
  BY <1>1, <1>2 DEF DeleteRow, Known, KindsApart, StepAt, IdOf, Steps, Stops, Marks, Unmarks
<1>10. \A k \in WithMeta(g, w) : k \in WithMeta(g, step[g]) \/ meta'[k] # "none"
  BY <1>1, <1>2 DEF DeleteRow, Known, KindsApart, Rests, WithMeta, StepAt, IdOf, Steps, Stops, Marks, Unmarks
<1>11. /\ file' \subseteq Names /\ marks' \subseteq Names \X Markers /\ troubles' \in 0 .. MaxMishaps /\ UNCHANGED orphans
  BY <1>1, <1>2, NzbFilesAssumption DEF DeleteRow, Known, Markers, Path, Ids, Trouble, Unmarked, StepAt, IdOf, Steps, Stops, Marks, Unmarks
<1>12. jobs' \in Seq(used')
  BY <1>1, <1>2, <1>5, SeqGrows DEF DeleteRow, Known, KindsApart, StepAt, IdOf, Steps, Stops, Marks, Unmarks
<1> HIDE DEF w
<1> QED  BY <1>1, <1>4, <1>5, <1>6, <1>7, <1>8, <1>9, <1>10, <1>11, <1>12, NzbMoves

LEMMA DropKeeps == ASSUME NzbInv, NEW n \in Names, Drop(n) PROVE NzbInv'
<1>1. /\ UNCHANGED <<marks, meta, entries, jobs, used, step, orphans, troubles>> /\ file' \subseteq Names
  BY DEF Drop, NzbInv, NzbTypes
<1>2. NzbTypes'
  BY <1>1 DEF NzbInv, NzbTypes
<1>3. OwnersOK' /\ StoredOK'
  BY <1>1 DEF NzbInv, OwnersOK, StoredOK
<1>4. EntryHasMeta'
  BY <1>1 DEF NzbInv, EntryHasMeta, Deleting, IdOf, StepAt
<1> QED  BY <1>2, <1>3, <1>4 DEF NzbInv

LEMMA RestartKeeps == ASSUME NzbInv, Restart PROVE NzbInv'
<1>1. /\ UNCHANGED <<file, marks, meta, entries, used>> /\ jobs' = <<>> /\ troubles' \in 0 .. MaxMishaps
      /\ step' = [g \in Jobs |-> Rests] /\ orphans' = orphans \cup Deleting
  BY NzbFilesAssumption DEF Restart, Trouble, NzbInv, NzbTypes
<1>2. \A g \in Jobs : step'[g] = Rests
  BY <1>1
<1>3. NzbTypes'
  <2>1. step' \in [Jobs -> NzbStep]
    BY <1>1, RestsOwnsNothing
  <2>2. jobs' \in Seq(used')
    BY <1>1
  <2> QED  BY <1>1, <1>2, <2>1, <2>2, RestsOwnsNothing DEF NzbInv, NzbTypes
<1>4. OwnersOK' /\ StoredOK'
  BY <1>2, RestsOwnsNothing DEF OwnersOK, StoredOK, Jobs
<1>5. EntryHasMeta'
  BY <1>1 DEF NzbInv, EntryHasMeta
<1> QED  BY <1>3, <1>4, <1>5 DEF NzbInv

LEMMA NzbStarts == NzbInit => NzbInv
<1> SUFFICES ASSUME NzbInit PROVE NzbInv
  OBVIOUS
<1>1. /\ file = {} /\ marks = {} /\ entries = {} /\ jobs = <<>> /\ used = {}
      /\ meta = [i \in Ids |-> "none"] /\ step = [g \in Jobs |-> Rests] /\ troubles = 0
  BY DEF NzbInit
<1>2. \A g \in Jobs : step[g] = Rests
  BY <1>1
<1>3. NzbTypes
  <2>1. step \in [Jobs -> NzbStep]
    BY <1>1, RestsOwnsNothing
  <2>2. troubles \in 0 .. MaxMishaps
    BY <1>1, NzbFilesAssumption
  <2> QED  BY <1>1, <1>2, <2>1, <2>2, RestsOwnsNothing DEF NzbTypes
<1>4. OwnersOK /\ StoredOK
  BY <1>2, RestsOwnsNothing DEF OwnersOK, StoredOK, Jobs
<1> QED  BY <1>1, <1>3, <1>4 DEF NzbInv, EntryHasMeta

LEMMA NzbKeeps == NzbInv /\ [NzbNext]_nzbVars => NzbInv'
<1> SUFFICES ASSUME NzbInv, [NzbNext]_nzbVars PROVE NzbInv'
  OBVIOUS
<1>1. CASE \E g \in Imports, n \in Names : Save(g, n)
  BY <1>1, SaveKeeps
<1>2. CASE \E g \in Imports : Mark(g) \/ Store(g) \/ Enqueue(g) \/ Push(g) \/ ImportFails(g)
  BY <1>2, MarkKeeps, StoreKeeps, EnqueueKeeps, PushKeeps, ImportFailsKeeps
<1>3. CASE \E g \in NzbWorkers : TakeJob(g) \/ Fail(g) \/ UnmarkFailed(g) \/ RemoveFile(g)
  BY <1>3, TakeJobKeeps, FailKeeps, UnmarkFailedKeeps, RemoveFileKeeps
<1>4. CASE \E g \in NzbWorkers \cup Scans : Completes(g) \/ MarkProcessed(g) \/ Unmark(g)
  BY <1>4, CompletesKeeps, MarkProcessedKeeps, UnmarkKeeps
<1>5. CASE \E n \in Names : Drop(n)
  BY <1>5, DropKeeps
<1>6. CASE \E g \in Scans : Scan(g) \/ ScanFile(g) \/ ScanFails(g) \/ Sync(g)
  BY <1>6, ScanKeeps, ScanFileKeeps, ScanFailsKeeps, SyncKeeps
<1>7. CASE \E g \in Deletions, i \in Ids : DeleteFirst(g, i) \/ DeleteLast(g, i)
  BY <1>7, DeleteFirstKeeps, DeleteLastKeeps
<1>8. CASE \E g \in Deletions : DeleteFile(g) \/ DeleteMarkers(g) \/ DeleteMeta(g) \/ DeleteRow(g)
  BY <1>8, DeleteFileKeeps, DeleteMarkersKeeps, DeleteMetaKeeps, DeleteRowKeeps
<1>9. CASE Restart
  BY <1>9, RestartKeeps
<1>10. CASE UNCHANGED nzbVars
  <2>1. UNCHANGED <<file, marks, meta, entries, jobs, used, step, orphans, troubles>>
    BY <1>10 DEF nzbVars
  <2>2. NzbTypes'
    BY <2>1 DEF NzbInv, NzbTypes
  <2>3. OwnersOK' /\ StoredOK'
    BY <2>1 DEF NzbInv, OwnersOK, StoredOK
  <2>4. EntryHasMeta'
    BY <2>1 DEF NzbInv, EntryHasMeta, Deleting, IdOf, StepAt
  <2> QED  BY <2>2, <2>3, <2>4 DEF NzbInv
<1> QED  BY <1>1, <1>2, <1>3, <1>4, <1>5, <1>6, <1>7, <1>8, <1>9, <1>10 DEF NzbNext

(* What an NZB's entry streams is there: however imports, workers, scans,    *)
(* deletions, failed writes and restarts follow each other, an entry has its *)
(* metadata, or a deletion of it has begun or was cut short.                 *)
THEOREM EntryKeepsMeta == NzbSpec => []EntryHasMeta
<1>1. NzbSpec => []NzbInv
  BY NzbStarts, NzbKeeps, PTL DEF NzbSpec
<1>2. NzbInv => EntryHasMeta
  BY DEF NzbInv
<1> QED  BY <1>1, <1>2, PTL

-----------------------------------------------------------------------------
(* ImportQueue: what a request has made a debrid download *)

GoFields == {"pc", "req", "rest", "limit", "copy", "files", "slots"}

ImportInv ==
    /\ DOMAIN go = Gos /\ \A g \in Gos : DOMAIN go[g] = GoFields
    /\ CopiesOwned

\* The copy in hand of a goroutine, from the answer of the debrid until it has
\* added, deleted or lost it.
InHand(w) == IF w.pc \in {"check", "add"} THEN {w.copy} ELSE {}

LEMMA HeldIsInHand == ASSUME NEW c PROVE c \in Held <=> \E g \in Gos : c \in InHand(go[g])
BY DEF Held, InHand, At

LEMMA FreeHasNothing == DOMAIN Free = GoFields /\ InHand(Free) = {} /\ Free.pc = "idle"
BY DEF Free, GoFields, InHand

(* A goroutine goes on: a copy is new only if it is the one in hand, and the *)
(* one it had in hand is still accounted for.                                *)
LEMMA CopyGoesOn ==
    ASSUME ImportInv, NEW g \in Gos, NEW w, go' = [go EXCEPT ![g] = w], DOMAIN w = GoFields,
           copies' \subseteq copies \cup InHand(w),
           InHand(go[g]) \subseteq InHand(w) \cup deleting' \cup kept' \cup strays',
           deleting \subseteq deleting', kept \subseteq kept', strays \subseteq strays'
    PROVE  ImportInv'
<1>1. \A h \in Gos : go'[h] = IF h = g THEN w ELSE go[h]
  BY DEF ImportInv
<1>2. \A c : c \in Held' <=> \E h \in Gos : c \in InHand(go'[h])
  BY DEF Held, InHand, At
<1>3. CopiesOwned'
  <2>1. ASSUME NEW c \in copies' PROVE c \in Held' \cup deleting' \cup kept' \cup strays'
    <3>1. CASE c \in InHand(w)
      BY <1>1, <1>2, <3>1
    <3>2. CASE c \in deleting \cup kept \cup strays
      BY <3>2
    <3>3. CASE c \in Held
      BY <1>1, <1>2, <3>3, HeldIsInHand
    <3> QED  BY <2>1, <3>1, <3>2, <3>3 DEF ImportInv, CopiesOwned
  <2> QED  BY <2>1 DEF CopiesOwned
<1> QED  BY <1>1, <1>3 DEF ImportInv

LEMMA NoRoutineStep ==
    ASSUME ImportInv, UNCHANGED <<go, kept>>, copies' \subseteq copies,
           \A c \in copies' : c \in deleting => c \in deleting' \cup strays', strays \subseteq strays'
    PROVE  ImportInv'
<1>1. Held' = Held
  BY DEF Held, At
<1> QED  BY <1>1 DEF ImportInv, CopiesOwned

LEMMA RequestAccounts ==
    ASSUME ImportInv, NEW g \in Callers, NEW r \in Requests, Request(g, r) PROVE ImportInv'
<1>1. g \in Gos /\ DOMAIN go[g] = GoFields
  BY DEF ImportInv, Gos
<1> DEFINE w == [go[g] EXCEPT !.pc = "order", !.req = r, !.limit = FALSE, !.copy = NoCopy, !.files = {}, !.slots = 0]
<1>3. go' = [go EXCEPT ![g] = w]
  BY <1>1 DEF Request, Becomes, Starts
<1>4. DOMAIN w = GoFields
  BY <1>1, FreeHasNothing DEF Request, At, HasNext, NoneLeft, GoFields
<1>5. /\ copies' \subseteq copies \cup InHand(w)
      /\ InHand(go[g]) \subseteq InHand(w) \cup deleting' \cup kept' \cup strays'
  BY <1>1, FreeHasNothing DEF Request, At, HasNext, NoneLeft, GoFields, InHand, Discards, Starts
<1>6. deleting \subseteq deleting' /\ kept \subseteq kept' /\ strays \subseteq strays'
  BY <1>1 DEF Request, Discards
<1> HIDE DEF w
<1> QED  BY <1>1, <1>3, <1>4, <1>5, <1>6, CopyGoesOn

LEMMA OrderAccounts ==
    ASSUME ImportInv, NEW g \in Gos, Order(g) PROVE ImportInv'
<1>1. g \in Gos /\ DOMAIN go[g] = GoFields
  BY DEF ImportInv, Gos
<1>2. PICK r : go' = [go EXCEPT ![g] = [go[g] EXCEPT !.pc = "submit", !.rest = r]]
  BY DEF Order, Becomes
<1> DEFINE w == [go[g] EXCEPT !.pc = "submit", !.rest = r]
<1>3. go' = [go EXCEPT ![g] = w]
  BY <1>1, <1>2 DEF Order, Becomes
<1>4. DOMAIN w = GoFields
  BY <1>1, <1>2, FreeHasNothing DEF Order, At, HasNext, NoneLeft, GoFields
<1>5. /\ copies' \subseteq copies \cup InHand(w)
      /\ InHand(go[g]) \subseteq InHand(w) \cup deleting' \cup kept' \cup strays'
  BY <1>1, <1>2, FreeHasNothing DEF Order, At, HasNext, NoneLeft, GoFields, InHand, Discards
<1>6. deleting \subseteq deleting' /\ kept \subseteq kept' /\ strays \subseteq strays'
  BY <1>1, <1>2 DEF Order, Discards
<1> HIDE DEF w
<1> QED  BY <1>1, <1>3, <1>4, <1>5, <1>6, CopyGoesOn

LEMMA AcceptedAccounts ==
    ASSUME ImportInv, NEW g \in Gos, Accepted(g) PROVE ImportInv'
<1>1. g \in Gos /\ DOMAIN go[g] = GoFields
  BY DEF ImportInv, Gos
<1>2. PICK c, F : /\ go' = [go EXCEPT ![g] = [go[g] EXCEPT !.pc = "check", !.copy = c, !.files = F]]
               /\ copies' = copies \cup {c}
  BY DEF Accepted, Becomes
<1> DEFINE w == [go[g] EXCEPT !.pc = "check", !.copy = c, !.files = F]
<1>3. go' = [go EXCEPT ![g] = w]
  BY <1>1, <1>2 DEF Accepted, Becomes
<1>4. DOMAIN w = GoFields
  BY <1>1, <1>2, FreeHasNothing DEF Accepted, At, HasNext, NoneLeft, GoFields
<1>5. /\ copies' \subseteq copies \cup InHand(w)
      /\ InHand(go[g]) \subseteq InHand(w) \cup deleting' \cup kept' \cup strays'
  BY <1>1, <1>2, FreeHasNothing DEF Accepted, At, HasNext, NoneLeft, GoFields, InHand, Discards
<1>6. deleting \subseteq deleting' /\ kept \subseteq kept' /\ strays \subseteq strays'
  BY <1>1, <1>2 DEF Accepted, Discards
<1> HIDE DEF w
<1> QED  BY <1>1, <1>3, <1>4, <1>5, <1>6, CopyGoesOn

LEMMA RefusedAccounts ==
    ASSUME ImportInv, NEW g \in Gos, Refused(g) PROVE ImportInv'
<1>1. g \in Gos /\ DOMAIN go[g] = GoFields
  BY DEF ImportInv, Gos
<1>2. PICK l : go' = [go EXCEPT ![g] = [go[g] EXCEPT !.rest = Tail(@), !.limit = l]]
  BY DEF Refused, Becomes
<1> DEFINE w == [go[g] EXCEPT !.rest = Tail(@), !.limit = l]
<1>3. go' = [go EXCEPT ![g] = w]
  BY <1>1, <1>2 DEF Refused, Becomes
<1>4. DOMAIN w = GoFields
  BY <1>1, <1>2, FreeHasNothing DEF Refused, At, HasNext, NoneLeft, GoFields
<1>5. /\ copies' \subseteq copies \cup InHand(w)
      /\ InHand(go[g]) \subseteq InHand(w) \cup deleting' \cup kept' \cup strays'
  BY <1>1, <1>2, FreeHasNothing DEF Refused, At, HasNext, NoneLeft, GoFields, InHand, Discards
<1>6. deleting \subseteq deleting' /\ kept \subseteq kept' /\ strays \subseteq strays'
  BY <1>1, <1>2 DEF Refused, Discards
<1> HIDE DEF w
<1> QED  BY <1>1, <1>3, <1>4, <1>5, <1>6, CopyGoesOn

LEMMA AcceptedAsZeroAccounts ==
    ASSUME ImportInv, NEW g \in Gos, AcceptedAsZero(g) PROVE ImportInv'
<1>1. g \in Gos /\ DOMAIN go[g] = GoFields
  BY DEF ImportInv, Gos
<1> DEFINE w == [go[g] EXCEPT !.rest = Tail(@)]
<1>3. go' = [go EXCEPT ![g] = w]
  BY <1>1 DEF AcceptedAsZero, Becomes
<1>4. DOMAIN w = GoFields
  BY <1>1, FreeHasNothing DEF AcceptedAsZero, At, HasNext, NoneLeft, GoFields
<1>5. /\ copies' \subseteq copies \cup InHand(w)
      /\ InHand(go[g]) \subseteq InHand(w) \cup deleting' \cup kept' \cup strays'
  BY <1>1, FreeHasNothing DEF AcceptedAsZero, At, HasNext, NoneLeft, GoFields, InHand, Discards
<1>6. deleting \subseteq deleting' /\ kept \subseteq kept' /\ strays \subseteq strays'
  BY <1>1 DEF AcceptedAsZero, Discards
<1> HIDE DEF w
<1> QED  BY <1>1, <1>3, <1>4, <1>5, <1>6, CopyGoesOn

LEMMA SucceedsAccounts ==
    ASSUME ImportInv, NEW g \in Gos, Succeeds(g) PROVE ImportInv'
<1>1. g \in Gos /\ DOMAIN go[g] = GoFields
  BY DEF ImportInv, Gos
<1>2. PICK F : go' = [go EXCEPT ![g] = [go[g] EXCEPT !.pc = "add", !.files = F]]
  BY DEF Succeeds, Becomes
<1> DEFINE w == [go[g] EXCEPT !.pc = "add", !.files = F]
<1>3. go' = [go EXCEPT ![g] = w]
  BY <1>1, <1>2 DEF Succeeds, Becomes
<1>4. DOMAIN w = GoFields
  BY <1>1, <1>2, FreeHasNothing DEF Succeeds, At, HasNext, NoneLeft, GoFields
<1>5. /\ copies' \subseteq copies \cup InHand(w)
      /\ InHand(go[g]) \subseteq InHand(w) \cup deleting' \cup kept' \cup strays'
  BY <1>1, <1>2, FreeHasNothing DEF Succeeds, At, HasNext, NoneLeft, GoFields, InHand, Discards
<1>6. deleting \subseteq deleting' /\ kept \subseteq kept' /\ strays \subseteq strays'
  BY <1>1, <1>2 DEF Succeeds, Discards
<1> HIDE DEF w
<1> QED  BY <1>1, <1>3, <1>4, <1>5, <1>6, CopyGoesOn

LEMMA FailsAccounts ==
    ASSUME ImportInv, NEW g \in Gos, Fails(g) PROVE ImportInv'
<1>1. g \in Gos /\ DOMAIN go[g] = GoFields
  BY DEF ImportInv, Gos
<1>2. PICK F : go' = [go EXCEPT ![g] = [go[g] EXCEPT !.pc = "submit", !.rest = Tail(@), !.copy = NoCopy, !.files = F]]
  BY DEF Fails, Becomes
<1> DEFINE w == [go[g] EXCEPT !.pc = "submit", !.rest = Tail(@), !.copy = NoCopy, !.files = F]
<1>3. go' = [go EXCEPT ![g] = w]
  BY <1>1, <1>2 DEF Fails, Becomes
<1>4. DOMAIN w = GoFields
  BY <1>1, <1>2, FreeHasNothing DEF Fails, At, HasNext, NoneLeft, GoFields
<1>5. /\ copies' \subseteq copies \cup InHand(w)
      /\ InHand(go[g]) \subseteq InHand(w) \cup deleting' \cup kept' \cup strays'
  BY <1>1, <1>2, FreeHasNothing DEF Fails, At, HasNext, NoneLeft, GoFields, InHand, Discards
<1>6. deleting \subseteq deleting' /\ kept \subseteq kept' /\ strays \subseteq strays'
  BY <1>1, <1>2 DEF Fails, Discards
<1> HIDE DEF w
<1> QED  BY <1>1, <1>3, <1>4, <1>5, <1>6, CopyGoesOn

LEMMA SelectionLimitedAccounts ==
    ASSUME ImportInv, NEW g \in Gos, SelectionLimited(g) PROVE ImportInv'
<1>1. g \in Gos /\ DOMAIN go[g] = GoFields
  BY DEF ImportInv, Gos
<1> DEFINE w == [go[g] EXCEPT !.pc = "submit", !.rest = Tail(@), !.limit = TRUE, !.copy = NoCopy,
                                !.files = {go[g].copy[1]}]
<1>3. go' = [go EXCEPT ![g] = w]
  BY <1>1 DEF SelectionLimited, Becomes
<1>4. DOMAIN w = GoFields
  BY <1>1, FreeHasNothing DEF SelectionLimited, At, HasNext, NoneLeft, GoFields
<1>5. /\ copies' \subseteq copies \cup InHand(w)
      /\ InHand(go[g]) \subseteq InHand(w) \cup deleting' \cup kept' \cup strays'
  BY <1>1, FreeHasNothing DEF SelectionLimited, At, HasNext, NoneLeft, GoFields, InHand, Discards
<1>6. deleting \subseteq deleting' /\ kept \subseteq kept' /\ strays \subseteq strays'
  BY <1>1 DEF SelectionLimited, Discards
<1> HIDE DEF w
<1> QED  BY <1>1, <1>3, <1>4, <1>5, <1>6, CopyGoesOn

LEMMA AddedAccounts ==
    ASSUME ImportInv, NEW g \in Gos, Added(g) PROVE ImportInv'
<1>1. g \in Gos /\ DOMAIN go[g] = GoFields
  BY DEF ImportInv, Gos
<1> DEFINE w == IF g \in Trackers /\ go[g].slots > 1 THEN [Free EXCEPT !.pc = "pop", !.slots = go[g].slots - 1] ELSE Free
<1>3. go' = [go EXCEPT ![g] = w]
  BY <1>1 DEF Added, Becomes, GoesOn
<1>4. DOMAIN w = GoFields
  BY <1>1, FreeHasNothing DEF Added, At, HasNext, NoneLeft, GoFields
<1>5. /\ copies' \subseteq copies \cup InHand(w)
      /\ InHand(go[g]) \subseteq InHand(w) \cup deleting' \cup kept' \cup strays'
  BY <1>1, FreeHasNothing DEF Added, At, HasNext, NoneLeft, GoFields, InHand, Discards, GoesOn
<1>6. deleting \subseteq deleting' /\ kept \subseteq kept' /\ strays \subseteq strays'
  BY <1>1 DEF Added, Discards
<1> HIDE DEF w
<1> QED  BY <1>1, <1>3, <1>4, <1>5, <1>6, CopyGoesOn

LEMMA NotAddedAccounts ==
    ASSUME ImportInv, NEW g \in Gos, NotAdded(g) PROVE ImportInv'
<1>1. g \in Gos /\ DOMAIN go[g] = GoFields
  BY DEF ImportInv, Gos
<1> DEFINE w == Free
<1>3. go' = [go EXCEPT ![g] = w]
  BY <1>1 DEF NotAdded, Becomes, TickEnds
<1>4. DOMAIN w = GoFields
  BY <1>1, FreeHasNothing DEF NotAdded, At, HasNext, NoneLeft, GoFields
<1>5. /\ copies' \subseteq copies \cup InHand(w)
      /\ InHand(go[g]) \subseteq InHand(w) \cup deleting' \cup kept' \cup strays'
  BY <1>1, FreeHasNothing DEF NotAdded, At, HasNext, NoneLeft, GoFields, InHand, Discards, TickEnds
<1>6. deleting \subseteq deleting' /\ kept \subseteq kept' /\ strays \subseteq strays'
  BY <1>1 DEF NotAdded, Discards
<1> HIDE DEF w
<1> QED  BY <1>1, <1>3, <1>4, <1>5, <1>6, CopyGoesOn

LEMMA ReQueuedAccounts ==
    ASSUME ImportInv, NEW g \in Gos, ReQueued(g) PROVE ImportInv'
<1>1. g \in Gos /\ DOMAIN go[g] = GoFields
  BY DEF ImportInv, Gos
<1> DEFINE w == IF g \in Trackers /\ go[g].slots > 1 THEN [Free EXCEPT !.pc = "pop", !.slots = go[g].slots - 1] ELSE Free
<1>3. go' = [go EXCEPT ![g] = w]
  BY <1>1 DEF ReQueued, Becomes, GoesOn
<1>4. DOMAIN w = GoFields
  BY <1>1, FreeHasNothing DEF ReQueued, At, HasNext, NoneLeft, GoFields
<1>5. /\ copies' \subseteq copies \cup InHand(w)
      /\ InHand(go[g]) \subseteq InHand(w) \cup deleting' \cup kept' \cup strays'
  BY <1>1, FreeHasNothing DEF ReQueued, At, HasNext, NoneLeft, GoFields, InHand, Discards, GoesOn
<1>6. deleting \subseteq deleting' /\ kept \subseteq kept' /\ strays \subseteq strays'
  BY <1>1 DEF ReQueued, Discards
<1> HIDE DEF w
<1> QED  BY <1>1, <1>3, <1>4, <1>5, <1>6, CopyGoesOn

LEMMA RejectedAccounts ==
    ASSUME ImportInv, NEW g \in Gos, Rejected(g) PROVE ImportInv'
<1>1. g \in Gos /\ DOMAIN go[g] = GoFields
  BY DEF ImportInv, Gos
<1> DEFINE w == Free
<1>3. go' = [go EXCEPT ![g] = w]
  BY <1>1 DEF Rejected, Becomes, TickEnds
<1>4. DOMAIN w = GoFields
  BY <1>1, FreeHasNothing DEF Rejected, At, HasNext, NoneLeft, GoFields
<1>5. /\ copies' \subseteq copies \cup InHand(w)
      /\ InHand(go[g]) \subseteq InHand(w) \cup deleting' \cup kept' \cup strays'
  BY <1>1, FreeHasNothing DEF Rejected, At, HasNext, NoneLeft, GoFields, InHand, Discards, TickEnds
<1>6. deleting \subseteq deleting' /\ kept \subseteq kept' /\ strays \subseteq strays'
  BY <1>1 DEF Rejected, Discards
<1> HIDE DEF w
<1> QED  BY <1>1, <1>3, <1>4, <1>5, <1>6, CopyGoesOn

LEMMA TrackAccounts ==
    ASSUME ImportInv, NEW g \in Trackers, Track(g) PROVE ImportInv'
<1>1. g \in Gos /\ DOMAIN go[g] = GoFields
  BY DEF ImportInv, Gos
<1>2. PICK n : go' = [go EXCEPT ![g] = [go[g] EXCEPT !.pc = "pop", !.slots = n]]
  BY DEF Track, Becomes
<1> DEFINE w == [go[g] EXCEPT !.pc = "pop", !.slots = n]
<1>3. go' = [go EXCEPT ![g] = w]
  BY <1>1, <1>2 DEF Track, Becomes
<1>4. DOMAIN w = GoFields
  BY <1>1, <1>2, FreeHasNothing DEF Track, At, HasNext, NoneLeft, GoFields
<1>5. /\ copies' \subseteq copies \cup InHand(w)
      /\ InHand(go[g]) \subseteq InHand(w) \cup deleting' \cup kept' \cup strays'
  BY <1>1, <1>2, FreeHasNothing DEF Track, At, HasNext, NoneLeft, GoFields, InHand, Discards
<1>6. deleting \subseteq deleting' /\ kept \subseteq kept' /\ strays \subseteq strays'
  BY <1>1, <1>2 DEF Track, Discards
<1> HIDE DEF w
<1> QED  BY <1>1, <1>3, <1>4, <1>5, <1>6, CopyGoesOn

LEMMA PopAccounts ==
    ASSUME ImportInv, NEW g \in Trackers, Pop(g) PROVE ImportInv'
<1>1. g \in Gos /\ DOMAIN go[g] = GoFields
  BY DEF ImportInv, Gos
<1> DEFINE w == IF queue = <<>> THEN Free
                ELSE [go[g] EXCEPT !.pc = "order", !.req = Head(queue), !.limit = FALSE, !.copy = NoCopy, !.files = {},
                                   !.slots = go[g].slots]
<1>3. go' = [go EXCEPT ![g] = w]
  BY <1>1 DEF Pop, Becomes, Starts, TickEnds
<1>4. DOMAIN w = GoFields
  BY <1>1, FreeHasNothing DEF Pop, At, HasNext, NoneLeft, GoFields
<1>5. /\ copies' \subseteq copies \cup InHand(w)
      /\ InHand(go[g]) \subseteq InHand(w) \cup deleting' \cup kept' \cup strays'
  BY <1>1, FreeHasNothing DEF Pop, At, HasNext, NoneLeft, GoFields, InHand, Discards, Starts, TickEnds
<1>6. deleting \subseteq deleting' /\ kept \subseteq kept' /\ strays \subseteq strays'
  BY <1>1 DEF Pop, Discards
<1> HIDE DEF w
<1> QED  BY <1>1, <1>3, <1>4, <1>5, <1>6, CopyGoesOn

LEMMA ImportKeeps == ImportInv /\ [ImportNext]_importVars => ImportInv'
<1> SUFFICES ASSUME ImportInv, [ImportNext]_importVars PROVE ImportInv'
  OBVIOUS
<1>1. CASE \E g \in Callers, r \in Requests : Request(g, r)
  BY <1>1, RequestAccounts
<1>2. CASE \E g \in Trackers : Track(g) \/ Pop(g)
  BY <1>2, TrackAccounts, PopAccounts
<1>3. CASE \E g \in Gos : GoStep(g)
  <2>1. PICK g \in Gos : GoStep(g)
    BY <1>3
  <2>2. CASE Order(g) \/ Accepted(g) \/ Refused(g) \/ AcceptedAsZero(g)
    BY <2>2, OrderAccounts, AcceptedAccounts, RefusedAccounts, AcceptedAsZeroAccounts
  <2>3. CASE Succeeds(g) \/ Fails(g) \/ SelectionLimited(g)
    BY <2>3, SucceedsAccounts, FailsAccounts, SelectionLimitedAccounts
  <2>4. CASE Added(g) \/ NotAdded(g) \/ ReQueued(g) \/ Rejected(g)
    BY <2>4, AddedAccounts, NotAddedAccounts, ReQueuedAccounts, RejectedAccounts
  <2> QED  BY <2>1, <2>2, <2>3, <2>4 DEF GoStep
<1>4. ASSUME NEW c \in Copy, DeleteTorrent(c) PROVE ImportInv'
  BY <1>4, NoRoutineStep DEF DeleteTorrent
<1>5. CASE ProcessRestarts
  <2>1. /\ go' = [g \in Gos |-> Free] /\ strays' = strays \cup Held \cup deleting /\ kept' = kept
        /\ copies' = copies /\ deleting' = {}
    BY <1>5 DEF ProcessRestarts
  <2>2. CopiesOwned'
    BY <2>1 DEF ImportInv, CopiesOwned
  <2> QED  BY <2>1, <2>2, FreeHasNothing DEF ImportInv
<1>6. CASE UNCHANGED importVars
  BY <1>6, NoRoutineStep DEF importVars
<1> QED  BY <1>1, <1>2, <1>3, <1>4, <1>5, <1>6 DEF ImportNext

(* No debrid keeps a torrent that nobody knows of: what a request has made a  *)
(* debrid download is in a goroutine's hand, its entry's, about to be deleted, *)
(* or left behind by one of the failures that are named.                      *)
THEOREM CopiesStayOwned == ImportSpec => []CopiesOwned
<1>1. ImportInit => ImportInv
  BY FreeHasNothing DEF ImportInit, ImportInv, CopiesOwned
<1>2. ImportInv => CopiesOwned
  BY DEF ImportInv
<1> QED  BY <1>1, <1>2, ImportKeeps, PTL DEF ImportSpec

-----------------------------------------------------------------------------
(* DebridListing: pages of a list that changes *)

\* What a fetch without trouble has read so far: what it owes of the first
\* offset places of the list.
ListTypes ==
    /\ client \in Clients /\ list \in Lists /\ <<client, list>> \in Reads /\ hardLimit \in Nat
    /\ remote \in Seq(Items) /\ \A i, j \in 1 .. Len(remote) : remote[i] = remote[j] => i = j
    /\ good \subseteq ToSet(remote) /\ due \subseteq ToSet(remote) /\ (list # "present" => due \subseteq good)
    /\ fetch \in [pc : {"idle", "page", "done"}, offset : Nat, got : SUBSET Items, count : Nat]
ReadSoFar ==
    fetch.pc = "page" /\ trouble = {} =>
        \A i \in 1 .. Len(remote) : i <= fetch.offset /\ remote[i] \in due => remote[i] \in fetch.got

ListInv == ListTypes /\ ReadSoFar /\ ListingComplete

LEMMA Places == ASSUME NEW S, NEW s \in Seq(S) PROVE ToSet(s) = {s[i] : i \in 1 .. Len(s)} /\ ToSet(s) \subseteq S
BY DEF ToSet

LEMMA Joined ==
    ASSUME NEW S, NEW s \in Seq(S), NEW t \in Seq(S)
    PROVE  /\ s \o t \in Seq(S) /\ Len(s \o t) = Len(s) + Len(t)
           /\ \A i \in 1 .. (Len(s) + Len(t)) : (s \o t)[i] = IF i <= Len(s) THEN s[i] ELSE t[i - Len(s)]
OBVIOUS

LEMMA MinOfTwo == ASSUME NEW a \in Int, NEW b \in Int PROVE Min({a, b}) = IF a <= b THEN a ELSE b
<1> DEFINE m == IF a <= b THEN a ELSE b
<1>1. m \in {a, b} /\ \A y \in {a, b} : m =< y
  OBVIOUS
<1>2. \A x \in {a, b} : (\A y \in {a, b} : x =< y) => x = m
  OBVIOUS
<1> QED  BY <1>1, <1>2 DEF Min

LEMMA SizeIs == ListTypes => Size \in Nat \ {0}
BY ListingAssumption DEF ListTypes, Size

\* Where the page that is asked for ends.
PageEnd == IF fetch.offset + Size <= Len(remote) THEN fetch.offset + Size ELSE Len(remote)

LEMMA AnswerIs == ListTypes /\ Paged => Answer = {remote[i] : i \in (fetch.offset + 1) .. PageEnd}
<1> SUFFICES ASSUME ListTypes, Paged PROVE Answer = {remote[i] : i \in (fetch.offset + 1) .. PageEnd}
  OBVIOUS
<1>1. fetch.offset \in Nat /\ Size \in Nat \ {0} /\ Len(remote) \in Nat /\ remote \in Seq(Items)
  BY SizeIs DEF ListTypes
<1>2. Min({fetch.offset + Size, Len(remote)}) = PageEnd
  BY <1>1, MinOfTwo DEF PageEnd
<1>3. Answer = ToSet(SubSeq(remote, fetch.offset + 1, PageEnd))
  BY <1>2 DEF Answer
<1> DEFINE s == SubSeq(remote, fetch.offset + 1, PageEnd)
<1>4. PageEnd \in Int /\ PageEnd <= Len(remote)
  BY <1>1 DEF PageEnd
<1>5. /\ s \in Seq(Items) /\ Len(s) = IF fetch.offset + 1 <= PageEnd THEN PageEnd - fetch.offset ELSE 0
      /\ \A i \in 1 .. Len(s) : s[i] = remote[fetch.offset + i]
  BY SMTT(90), <1>1, <1>4
<1> HIDE DEF s
<1>6. ToSet(s) = {s[i] : i \in 1 .. Len(s)}
  BY <1>5, Places
<1>7. {s[i] : i \in 1 .. Len(s)} = {remote[i] : i \in (fetch.offset + 1) .. PageEnd}
  <2>1. ASSUME NEW i \in (fetch.offset + 1) .. PageEnd PROVE remote[i] \in {s[k] : k \in 1 .. Len(s)}
    <3>1. i - fetch.offset \in 1 .. Len(s) /\ fetch.offset + (i - fetch.offset) = i
      BY <1>1, <1>4, <1>5
    <3>2. s[i - fetch.offset] = remote[i]
      BY <1>5, <3>1
    <3> QED  BY <3>1, <3>2
  <2>2. ASSUME NEW k \in 1 .. Len(s) PROVE fetch.offset + k \in (fetch.offset + 1) .. PageEnd
    BY <1>1, <1>4, <1>5
  <2> QED  BY <1>5, <2>1, <2>2
<1> QED  BY <1>3, <1>6, <1>7 DEF s

LEMMA AnswerCount ==
    ASSUME ListTypes, Paged
    PROVE  /\ IsFiniteSet(Answer) /\ Cardinality(Answer) <= Size
           /\ fetch.offset + Size <= Len(remote) => Cardinality(Answer) = Size
<1>1. fetch.offset \in Nat /\ Size \in Nat \ {0} /\ Len(remote) \in Nat /\ remote \in Seq(Items)
  BY SizeIs DEF ListTypes
<1> DEFINE I == (fetch.offset + 1) .. PageEnd
           f == [i \in I |-> remote[i]]
<1>2. PageEnd \in Int /\ PageEnd <= Len(remote) /\ PageEnd <= fetch.offset + Size
      /\ (fetch.offset + Size <= Len(remote) => PageEnd = fetch.offset + Size)
  BY <1>1 DEF PageEnd
<1>3. IsFiniteSet(I) /\ Cardinality(I) = IF fetch.offset + 1 > PageEnd THEN 0 ELSE PageEnd - fetch.offset
  <2> DEFINE a == fetch.offset + 1
  <2>1. a \in Int /\ PageEnd - a + 1 = PageEnd - fetch.offset
    BY <1>1, <1>2
  <2>2. IsFiniteSet(a .. PageEnd) /\ Cardinality(a .. PageEnd) = IF a > PageEnd THEN 0 ELSE PageEnd - a + 1
    <3> HIDE DEF a
    <3> QED  BY <1>2, <2>1, FS_Interval
  <2> QED  BY <2>1, <2>2
<1>4. f \in Surjection(I, Answer)
  <2>1. f \in [I -> Answer]
    BY AnswerIs
  <2>2. \A a \in Answer : \E i \in I : f[i] = a
    BY AnswerIs
  <2> QED  BY <2>1, <2>2 DEF Surjection
<1>5. f \in Injection(I, Answer)
  <2>1. \A i \in I : i \in 1 .. Len(remote)
    BY <1>1, <1>2
  <2>2. IsInjective(f)
    BY <2>1 DEF ListTypes, IsInjective
  <2> QED  BY <1>4, <2>2 DEF Surjection, Injection
<1> HIDE DEF f, I
<1>6. IsFiniteSet(Answer) /\ Cardinality(Answer) = Cardinality(I)
  BY <1>3, <1>4, <1>5, FS_Surjection
<1> QED  BY <1>1, <1>2, <1>3, <1>6

LEMMA DueTaken == ASSUME ListTypes PROVE due \cap Answer \subseteq Taken /\ Taken \subseteq Answer
BY DEF ListTypes, Reads, Clients, Taken

LEMMA AnswersAreItems == ListTypes => Answer \subseteq Items /\ Taken \subseteq Items
<1> SUFFICES ASSUME ListTypes PROVE Answer \subseteq Items
  BY DueTaken
<1>1. ToSet(remote) \subseteq Items /\ good \subseteq Items
  BY Places DEF ListTypes
<1>2. CASE Paged
  <2>1. fetch.offset \in Nat /\ Len(remote) \in Nat /\ remote \in Seq(Items) /\ Size \in Nat
    BY SizeIs DEF ListTypes
  <2>2. \A i \in (fetch.offset + 1) .. PageEnd : i \in 1 .. Len(remote)
    BY <2>1 DEF PageEnd
  <2>3. \A i \in 1 .. Len(remote) : remote[i] \in Items
    BY <2>1
  <2> QED  BY <1>2, <2>2, <2>3, AnswerIs
<1>3. CASE ~Paged
  BY <1>1, <1>3 DEF Answer
<1> QED  BY <1>2, <1>3

(* The argument: a page holds all that it owes of its places, and no more    *)
(* than a page of it is counted.                                             *)
LEMMA PageKeeps == ASSUME ListInv, Page PROVE ListInv'
<1>1. /\ ListTypes /\ fetch.pc = "page" /\ fetch.offset \in Nat /\ fetch.count \in Nat /\ fetch.got \subseteq Items
      /\ Size \in Nat \ {0} /\ Len(remote) \in Nat /\ Taken \subseteq Items /\ Taken \subseteq Answer
      /\ UNCHANGED <<client, list, hardLimit, remote, good, due>>
  BY SizeIs, AnswersAreItems, DueTaken DEF ListInv, ListTypes, Page, InPages, Fixed
<1>2. fetch' = [pc |-> IF EndsHere THEN "done" ELSE "page", offset |-> NextOffset, got |-> fetch.got \cup Taken,
                count |-> fetch.count + Cardinality(Taken)]
      /\ trouble' = IF EndsHere THEN trouble \cup Early ELSE trouble
  BY DEF Page
<1>3. /\ IsFiniteSet(Taken) /\ Cardinality(Taken) \in Nat /\ (Paged => Cardinality(Taken) <= Size)
  <2>1. IsFiniteSet(Taken)
    BY <1>1, ListingAssumption, FS_Subset
  <2>2. Cardinality(Taken) \in Nat
    BY <2>1, FS_CardinalityType
  <2>3. ASSUME Paged PROVE Cardinality(Taken) <= Size
    <3>1. IsFiniteSet(Answer) /\ Cardinality(Answer) <= Size /\ Cardinality(Answer) \in Nat
      BY <1>1, <2>3, AnswerCount, FS_CardinalityType
    <3>2. Cardinality(Taken) <= Cardinality(Answer)
      BY <1>1, <3>1, FS_Subset
    <3> QED  BY <1>1, <2>2, <3>1, <3>2
  <2> QED  BY <2>1, <2>2, <2>3
<1>4. NextOffset \in Nat /\ (Paged => NextOffset <= fetch.offset + Size)
  BY <1>1, <1>3 DEF NextOffset
<1>5. ListTypes'
  <2>1. fetch' \in [pc : {"idle", "page", "done"}, offset : Nat, got : SUBSET Items, count : Nat]
    BY <1>1, <1>2, <1>3, <1>4
  <2> QED  BY <1>1, <2>1 DEF ListTypes
<1>6. CASE ~EndsHere
  <2>1. Paged
    BY <1>6 DEF EndsHere
  <2>2. ASSUME trouble' = {}, NEW i \in 1 .. Len(remote), i <= NextOffset, remote[i] \in due
        PROVE  remote[i] \in fetch.got \cup Taken
    <3>1. CASE i <= fetch.offset
      BY <1>1, <1>2, <1>6, <2>2, <3>1 DEF ListInv, ReadSoFar
    <3>2. CASE i > fetch.offset
      <4>1. i \in (fetch.offset + 1) .. PageEnd
        BY <1>1, <1>4, <2>1, <2>2, <3>2 DEF PageEnd
      <4>2. remote[i] \in Answer
        BY <1>1, <2>1, <4>1, AnswerIs
      <4> QED  BY <1>1, <2>2, <4>2, DueTaken
    <3> QED  BY <1>1, <3>1, <3>2
  <2>3. ReadSoFar'
    BY <1>1, <1>2, <2>2 DEF ReadSoFar
  <2>4. ListingComplete'
    BY <1>2, <1>6 DEF ListingComplete
  <2> QED  BY <1>5, <2>3, <2>4 DEF ListInv
<1>7. CASE EndsHere
  <2>1. ASSUME trouble' = {} PROVE due \subseteq fetch.got \cup Taken
    <3>1. trouble = {} /\ Answer = Taken /\ hardLimit = 0
      BY <1>2, <1>7, <2>1 DEF Early
    <3>2. CASE ~Paged
      <4>1. list # "present"
        BY <1>1, <3>2 DEF ListTypes, Reads, Paged
      <4>2. due \subseteq Answer
        BY <1>1, <3>2, <4>1 DEF ListTypes, Answer
      <4> QED  BY <3>1, <4>2
    <3>3. CASE Paged
      <4>1. Cardinality(Taken) < Size \/ Taken = {}
        BY <1>7, <3>1, <3>3 DEF EndsHere
      <4>2. \A i \in 1 .. Len(remote) : i <= fetch.offset \/ remote[i] \in Answer
        <5>1. CASE Cardinality(Taken) < Size
          <6>1. Len(remote) < fetch.offset + Size
            BY <1>1, <1>3, <3>1, <3>3, <5>1, AnswerCount
          <6>2. PageEnd = Len(remote)
            BY <1>1, <6>1 DEF PageEnd
          <6> QED  BY <1>1, <3>3, <6>2, AnswerIs
        <5>2. CASE Taken = {}
          <6>1. ASSUME Len(remote) > fetch.offset PROVE FALSE
            <7>1. fetch.offset + 1 \in (fetch.offset + 1) .. PageEnd
              BY <1>1, <6>1 DEF PageEnd
            <7> QED  BY <1>1, <3>1, <3>3, <5>2, <7>1, AnswerIs
          <6> QED  BY <1>1, <6>1
        <5> QED  BY <4>1, <5>1, <5>2
      <4>3. \A x \in due : \E i \in 1 .. Len(remote) : x = remote[i]
        BY <1>1, Places DEF ListTypes
      <4> QED  BY <1>1, <3>1, <4>2, <4>3 DEF ListInv, ReadSoFar
    <3> QED  BY <3>2, <3>3
  <2>2. ListingComplete'
    BY <1>1, <1>2, <2>1 DEF ListingComplete
  <2>3. ReadSoFar'
    BY <1>2, <1>7 DEF ReadSoFar
  <2> QED  BY <1>5, <2>2, <2>3 DEF ListInv
<1> QED  BY <1>6, <1>7

LEMMA AddKeeps == ASSUME ListInv, NEW x \in Items, RemoteAdd(x) PROVE ListInv'
<1>1. /\ x \notin ToSet(remote) /\ remote' = <<x>> \o remote /\ good' \in {good \cup {x}, good \ {x}}
      /\ UNCHANGED <<client, list, hardLimit, fetch, due, trouble>> /\ remote \in Seq(Items) /\ Len(remote) \in Nat
  BY DEF RemoteAdd, Fixed, ListInv, ListTypes
<1>2. /\ remote' \in Seq(Items) /\ Len(remote') = Len(remote) + 1
      /\ \A i \in 1 .. Len(remote') : remote'[i] = IF i = 1 THEN x ELSE remote[i - 1]
  BY <1>1
<1>3. /\ \A i \in 1 .. Len(remote) : remote[i] # x
      /\ \A y : y \in ToSet(remote) <=> \E i \in 1 .. Len(remote) : y = remote[i]
      /\ \A y : y \in ToSet(remote') <=> \E i \in 1 .. Len(remote') : y = remote'[i]
  <2>1. ToSet(remote) = {remote[i] : i \in 1 .. Len(remote)}
    BY <1>1, Places
  <2>2. ToSet(remote') = {remote'[i] : i \in 1 .. Len(remote')}
    BY <1>2, Places
  <2> QED  BY <1>1, <2>1, <2>2
<1>4. ToSet(remote) \subseteq ToSet(remote') /\ x \in ToSet(remote')
  <2>1. \A i \in 1 .. Len(remote) : i + 1 \in 1 .. Len(remote') /\ remote'[i + 1] = remote[i]
    BY <1>1, <1>2
  <2>2. 1 \in 1 .. Len(remote') /\ remote'[1] = x
    BY <1>1, <1>2
  <2> QED  BY <1>3, <2>1, <2>2
<1>5. ListTypes'
  <2>1. ASSUME NEW i \in 1 .. Len(remote'), NEW j \in 1 .. Len(remote'), remote'[i] = remote'[j] PROVE i = j
    <3>1. CASE i = 1 \/ j = 1
      BY <1>1, <1>2, <1>3, <2>1, <3>1
    <3>2. CASE i # 1 /\ j # 1
      <4>1. i - 1 \in 1 .. Len(remote) /\ j - 1 \in 1 .. Len(remote) /\ remote[i - 1] = remote[j - 1]
        BY <1>1, <1>2, <2>1, <3>2
      <4>2. i - 1 = j - 1
        BY <4>1 DEF ListInv, ListTypes
      <4> QED  BY <4>2
    <3> QED  BY <3>1, <3>2
  <2>2. good' \subseteq ToSet(remote') /\ due' \subseteq ToSet(remote')
    BY <1>1, <1>4 DEF ListInv, ListTypes
  <2>3. list' # "present" => due' \subseteq good'
    BY <1>1 DEF ListInv, ListTypes
  <2> QED  BY <1>1, <1>2, <2>1, <2>2, <2>3 DEF ListInv, ListTypes
<1>6. ReadSoFar'
  <2>1. ASSUME fetch.pc = "page", trouble = {}, NEW i \in 1 .. Len(remote'), i <= fetch.offset, remote'[i] \in due
        PROVE  remote'[i] \in fetch.got
    <3>1. i # 1
      BY <1>1, <1>2, <2>1 DEF ListInv, ListTypes
    <3>2. i - 1 \in 1 .. Len(remote) /\ remote'[i] = remote[i - 1] /\ i - 1 <= fetch.offset
      BY <1>1, <1>2, <2>1, <3>1 DEF ListInv, ListTypes
    <3> QED  BY <2>1, <3>2 DEF ListInv, ReadSoFar
  <2> QED  BY <1>1, <2>1 DEF ReadSoFar
<1>7. ListingComplete'
  BY <1>1 DEF ListInv, ListingComplete
<1> QED  BY <1>5, <1>6, <1>7 DEF ListInv

LEMMA RemoveKeeps == ASSUME ListInv, NEW x \in Items, RemoteRemove(x) PROVE ListInv'
<1>1. PICK k \in DOMAIN remote : remote[k] = x /\ remote' = RemoveAt(remote, k)
  BY DEF RemoteRemove
<1>2. /\ good' = good \ {x} /\ due' = due \ {x} /\ UNCHANGED <<client, list, hardLimit, fetch>>
      /\ trouble' = IF fetch.pc = "page" THEN trouble \cup {"removed"} ELSE trouble
      /\ remote \in Seq(Items) /\ Len(remote) \in Nat /\ k \in 1 .. Len(remote)
  BY <1>1 DEF RemoteRemove, Fixed, InPages, ListInv, ListTypes
<1>3. /\ remote' \in Seq(Items) /\ Len(remote') = Len(remote) - 1
      /\ \A i \in 1 .. Len(remote') : remote'[i] = IF i < k THEN remote[i] ELSE remote[i + 1]
  <2> DEFINE a == SubSeq(remote, 1, k - 1)
             b == SubSeq(remote, k + 1, Len(remote))
  <2>1. a \in Seq(Items) /\ Len(a) = k - 1 /\ \A i \in 1 .. (k - 1) : a[i] = remote[i]
    BY <1>2
  <2>2. b \in Seq(Items) /\ Len(b) = Len(remote) - k /\ \A i \in 1 .. (Len(remote) - k) : b[i] = remote[k + i]
    BY <1>2
  <2>3. remote' = a \o b
    BY <1>1 DEF RemoveAt
  <2> HIDE DEF a, b
  <2>4. /\ remote' \in Seq(Items) /\ Len(remote') = Len(a) + Len(b)
        /\ \A i \in 1 .. (Len(a) + Len(b)) : remote'[i] = IF i <= Len(a) THEN a[i] ELSE b[i - Len(a)]
    BY <2>1, <2>2, <2>3, Joined
  <2>5. ASSUME NEW i \in 1 .. Len(remote') PROVE remote'[i] = IF i < k THEN remote[i] ELSE remote[i + 1]
    <3>1. CASE i < k
      BY SMTT(30), <1>2, <2>1, <2>2, <2>4, <2>5, <3>1
    <3>2. CASE i >= k
      <4>1. i \in Int /\ k \in Int /\ i <= Len(a) + Len(b) /\ i >= 1
        BY <1>2, <2>1, <2>2, <2>4, <2>5
      <4>2. i - (k - 1) \in 1 .. (Len(remote) - k) /\ k + (i - (k - 1)) = i + 1 /\ ~ (i <= k - 1)
        <5>1. Len(remote) \in Int /\ Len(a) = k - 1 /\ Len(b) = Len(remote) - k
          BY <1>2, <2>1, <2>2
        <5> HIDE DEF a, b
        <5>2. i <= (k - 1) + (Len(remote) - k)
          BY <4>1, <5>1
        <5>3. i - (k - 1) >= 1 /\ i - (k - 1) <= Len(remote) - k /\ ~ (i <= k - 1)
          BY SMTT(30), <3>2, <4>1, <5>1, <5>2
        <5>4. k + (i - (k - 1)) = i + 1
          BY <4>1
        <5>5. i - (k - 1) \in Int /\ Len(remote) - k \in Int
          BY <4>1, <5>1
        <5> QED  BY <5>3, <5>4, <5>5
      <4>3. remote'[i] = b[i - (k - 1)]
        BY <2>1, <2>4, <4>1, <4>2
      <4>4. b[i - (k - 1)] = remote[i + 1]
        BY <2>2, <4>2
      <4> QED  BY <1>2, <3>2, <4>1, <4>3, <4>4
    <3> QED  BY <1>2, <3>1, <3>2
  <2> QED  BY <1>2, <2>1, <2>2, <2>4, <2>5
<1>4. /\ \A y : y \in ToSet(remote) <=> \E i \in 1 .. Len(remote) : y = remote[i]
      /\ \A y : y \in ToSet(remote') <=> \E i \in 1 .. Len(remote') : y = remote'[i]
  BY <1>2, <1>3, Places
<1>5. ToSet(remote) \ {x} \subseteq ToSet(remote')
  <2>1. ASSUME NEW i \in 1 .. Len(remote), i # k PROVE remote[i] \in ToSet(remote')
    <3>1. CASE i < k
      BY <1>2, <1>3, <1>4, <3>1
    <3>2. CASE i > k
      <4>1. i - 1 \in 1 .. Len(remote') /\ remote'[i - 1] = remote[i]
        BY <1>2, <1>3, <3>2
      <4> QED  BY <1>4, <4>1
    <3> QED  BY <1>2, <2>1, <3>1, <3>2
  <2> QED  BY <1>1, <1>4, <2>1
<1>6. ListTypes'
  <2>1. ASSUME NEW i \in 1 .. Len(remote'), NEW j \in 1 .. Len(remote'), remote'[i] = remote'[j] PROVE i = j
    <3> DEFINE P(n) == IF n < k THEN n ELSE n + 1
    <3>1. P(i) \in 1 .. Len(remote) /\ P(j) \in 1 .. Len(remote) /\ remote[P(i)] = remote[P(j)]
      BY <1>2, <1>3, <2>1
    <3>2. P(i) = P(j)
      BY <3>1 DEF ListInv, ListTypes
    <3> QED  BY <1>2, <3>2
  <2>2. good' \subseteq ToSet(remote') /\ due' \subseteq ToSet(remote')
    BY <1>2, <1>5 DEF ListInv, ListTypes
  <2>3. list' # "present" => due' \subseteq good'
    BY <1>2 DEF ListInv, ListTypes
  <2> QED  BY <1>2, <1>3, <2>1, <2>2, <2>3 DEF ListInv, ListTypes
<1>7. ReadSoFar' /\ ListingComplete'
  BY <1>2 DEF ListInv, ReadSoFar, ListingComplete
<1> QED  BY <1>6, <1>7 DEF ListInv

LEMMA FinishKeeps == ASSUME ListInv, NEW x \in Items, RemoteFinish(x) \/ RemoteExpire(x) PROVE ListInv'
<1>1. /\ UNCHANGED <<client, list, hardLimit, remote, fetch, trouble>> /\ due' \subseteq due /\ good' \subseteq ToSet(remote)
      /\ list # "present" => due' \subseteq good'
  BY DEF RemoteFinish, RemoteExpire, Fixed, ListInv, ListTypes
<1>2. ListTypes'
  BY <1>1 DEF ListInv, ListTypes
<1> QED  BY <1>1, <1>2 DEF ListInv, ReadSoFar, ListingComplete

LEMMA FetchKeeps ==
    ASSUME ListInv, Fetch \/ PageFails \/ Refresh \/ StoreLinks \/ Loaded \/ (\E x \in Items : CheckFile(x)) \/ UNCHANGED listVars
    PROVE  ListInv'
<1>1. UNCHANGED <<client, list, hardLimit, remote, good>>
  BY DEF Fetch, PageFails, Refresh, StoreLinks, Loaded, CheckFile, listVars, Fixed
<1>2. CASE Fetch
  <2>1. /\ fetch' = [NotFetching EXCEPT !.pc = "page"]
        /\ due' = IF list = "present" THEN ToSet(remote) ELSE good
    BY <1>2 DEF Fetch
  <2>2. fetch' \in [pc : {"idle", "page", "done"}, offset : Nat, got : SUBSET Items, count : Nat]
        /\ fetch'.pc = "page" /\ fetch'.offset = 0
    BY <2>1 DEF NotFetching
  <2> QED  BY SMTT(30), <1>1, <2>1, <2>2 DEF ListInv, ListTypes, ReadSoFar, ListingComplete
<1>3. CASE fetch' = NotFetching /\ due' = {}
  <2>1. fetch' \in [pc : {"idle", "page", "done"}, offset : Nat, got : SUBSET Items, count : Nat] /\ fetch'.pc = "idle"
    BY <1>3 DEF NotFetching
  <2> QED  BY <1>1, <1>3, <2>1 DEF ListInv, ListTypes, ReadSoFar, ListingComplete
<1>4. CASE fetch' = [fetch EXCEPT !.pc = "done"] /\ trouble' = trouble \cup {"failed"} /\ due' = due
  <2>1. fetch' \in [pc : {"idle", "page", "done"}, offset : Nat, got : SUBSET Items, count : Nat] /\ fetch'.pc = "done"
    BY <1>4 DEF ListInv, ListTypes
  <2> QED  BY <1>1, <1>4, <2>1 DEF ListInv, ListTypes, ReadSoFar, ListingComplete
<1>5. CASE UNCHANGED <<fetch, due, trouble>>
  BY <1>1, <1>5 DEF ListInv, ListTypes, ReadSoFar, ListingComplete
<1> QED  BY <1>2, <1>3, <1>4, <1>5 DEF PageFails, Refresh, StoreLinks, Loaded, CheckFile, listVars

LEMMA ItemsInOrder == SetToSeq(Items) \in Seq(Items)
                      /\ (\A i, j \in 1 .. Len(SetToSeq(Items)) : SetToSeq(Items)[i] = SetToSeq(Items)[j] => i = j)
                      /\ Len(SetToSeq(Items)) = Cardinality(Items) /\ Cardinality(Items) \in Nat
<1>1. Cardinality(Items) \in Nat /\ ExistsBijection(1 .. Cardinality(Items), Items)
  BY ListingAssumption, FS_CardinalityType
<1>2. \E h \in [1 .. Cardinality(Items) -> Items] : IsInjective(h)
  BY <1>1 DEF ExistsBijection, Bijection, Injection
<1>3. SetToSeq(Items) \in [1 .. Cardinality(Items) -> Items] /\ IsInjective(SetToSeq(Items))
  BY <1>2 DEF SetToSeq
<1>4. SetToSeq(Items) \in Seq(Items) /\ Len(SetToSeq(Items)) = Cardinality(Items)
  BY <1>1, <1>3
<1> QED  BY <1>1, <1>3, <1>4 DEF IsInjective

LEMMA ListStarts == ListInit => ListInv
<1> SUFFICES ASSUME ListInit PROVE ListInv
  OBVIOUS
<1> DEFINE s == SetToSeq(Items)
<1>1. PICK n \in 0 .. Cardinality(Items) : remote = SubSeq(s, 1, n)
  BY DEF ListInit
<1>2. s \in Seq(Items) /\ Len(s) = Cardinality(Items) /\ Len(s) \in Nat /\ \A i, j \in 1 .. Len(s) : s[i] = s[j] => i = j
  BY ItemsInOrder
<1> HIDE DEF s
<1>3. remote \in Seq(Items) /\ Len(remote) = n /\ \A i \in 1 .. n : remote[i] = s[i]
  BY <1>1, <1>2
<1>4. \A i, j \in 1 .. Len(remote) : remote[i] = remote[j] => i = j
  BY <1>1, <1>2, <1>3
<1>5. hardLimit \in Nat
  BY ListingAssumption DEF ListInit
<1>6. fetch \in [pc : {"idle", "page", "done"}, offset : Nat, got : SUBSET Items, count : Nat] /\ fetch.pc = "idle"
  BY DEF ListInit, NotFetching
<1> QED  BY <1>3, <1>4, <1>5, <1>6 DEF ListInit, ListInv, ListTypes, ReadSoFar, ListingComplete

(* However torrents are added in front while the pages are read, a listing   *)
(* without trouble has everything it owes, for every list and page size.     *)
THEOREM ListingsComplete == ListSpec => []ListingComplete
<1>1. ListInv /\ [ListNext]_listVars => ListInv'
  BY AddKeeps, RemoveKeeps, FinishKeeps, PageKeeps, FetchKeeps DEF ListNext
<1>2. ListInv => ListingComplete
  BY DEF ListInv
<1> QED  BY ListStarts, <1>1, <1>2, PTL DEF ListSpec

-----------------------------------------------------------------------------
(* FileStreams: ranges, blocks and what is sent *)

\* The n positions from lo on.
Run(lo, n) == [i \in 1 .. n |-> lo + i - 1]

LEMMA RunIs ==
    ASSUME NEW lo \in Int, NEW n \in Nat
    PROVE  Run(lo, n) \in Seq(Int) /\ Len(Run(lo, n)) = n /\ \A i \in 1 .. n : Run(lo, n)[i] = lo + i - 1
BY DEF Run

LEMMA RunsJoin ==
    ASSUME NEW lo \in Int, NEW n \in Nat, NEW m \in Nat
    PROVE  Run(lo, n) \o Run(lo + n, m) = Run(lo, n + m)
<1> DEFINE a == Run(lo, n)
           b == Run(lo + n, m)
           c == Run(lo, n + m)
<1>1. a \in Seq(Int) /\ Len(a) = n /\ \A i \in 1 .. n : a[i] = lo + i - 1
  BY RunIs
<1>2. b \in Seq(Int) /\ Len(b) = m /\ \A i \in 1 .. m : b[i] = lo + n + i - 1
  <2>1. lo + n \in Int
    OBVIOUS
  <2> QED  BY <2>1, RunIs
<1>3. c \in Seq(Int) /\ Len(c) = n + m /\ \A i \in 1 .. (n + m) : c[i] = lo + i - 1
  <2>1. n + m \in Nat
    OBVIOUS
  <2> QED  BY <2>1, RunIs
<1> HIDE DEF a, b, c
<1>4. a \o b \in Seq(Int) /\ Len(a \o b) = n + m
      /\ \A i \in 1 .. (n + m) : (a \o b)[i] = IF i <= n THEN a[i] ELSE b[i - n]
  BY <1>1, <1>2, Joined
<1>5. ASSUME NEW i \in 1 .. (n + m) PROVE (a \o b)[i] = c[i]
  <2>1. CASE i <= n
    BY <1>1, <1>3, <1>4, <1>5, <2>1
  <2>2. CASE i > n
    <3>1. i - n \in 1 .. m
      BY <2>2
    <3>2. (a \o b)[i] = lo + n + (i - n) - 1
      BY <1>2, <1>4, <2>2, <3>1
    <3>3. lo + n + (i - n) - 1 = lo + i - 1
      BY <1>5
    <3> QED  BY <1>3, <3>2, <3>3
  <2>3. i <= n \/ i > n
    OBVIOUS
  <2> QED  BY <2>1, <2>2, <2>3
<1>6. a \o b = c
  BY <1>3, <1>4, <1>5, SeqEqual
<1> QED  BY <1>6 DEF a, b, c

LEMMA RunIsPrefix ==
    ASSUME NEW lo \in Int, NEW n \in Nat, NEW m \in Nat, n <= m
    PROVE  IsPrefix(Run(lo, n), Run(lo, m))
<1> DEFINE a == Run(lo, n)
           b == Run(lo, m)
<1>1. a \in Seq(Int) /\ Len(a) = n /\ \A i \in 1 .. n : a[i] = lo + i - 1
  BY RunIs
<1>2. b \in Seq(Int) /\ Len(b) = m /\ \A i \in 1 .. m : b[i] = lo + i - 1
  BY RunIs
<1> HIDE DEF a, b
<1>3. SubSeq(a, 1, n) \in Seq(Int) /\ Len(SubSeq(a, 1, n)) = n /\ \A i \in 1 .. n : SubSeq(a, 1, n)[i] = a[i]
  BY <1>1
<1>4. SubSeq(b, 1, n) \in Seq(Int) /\ Len(SubSeq(b, 1, n)) = n /\ \A i \in 1 .. n : SubSeq(b, 1, n)[i] = b[i]
  BY <1>2
<1>5. SubSeq(a, 1, n) = SubSeq(b, 1, n)
  BY <1>1, <1>2, <1>3, <1>4, SeqEqual
<1> QED  BY <1>1, <1>2, <1>5 DEF IsPrefix, a, b

LEMMA Divided ==
    ASSUME NEW x \in Nat, NEW b \in Nat \ {0}
    PROVE  /\ x \div b \in Nat /\ (x \div b) * b \in Nat /\ (x \div b) * b <= x
           /\ x % b \in 0 .. (b - 1)
<1>1. x % b \in 0 .. (b - 1) /\ x \div b \in Int /\ x = b * (x \div b) + (x % b)
  OBVIOUS
<1>2. x \div b >= 0
  BY <1>1
<1> QED  BY <1>1, <1>2

\* What is read from a file below is what is at its positions.
LEMMA ReadsWhatIsThere ==
    ASSUME NEW f \in Shows, NEW off \in Nat, NEW len \in Nat \ {0}, off + len <= ShowOf[f].size
    PROVE  ReadAt(f, off, len) = Run(off, len)
<1>1. CASE ~(ShowOf[f].cipher > 0)
  BY <1>1 DEF ReadAt, Run
<1>2. CASE ShowOf[f].cipher > 0
  <2> DEFINE from == (off \div BlockSize) * BlockSize
             end  == off + len
             top  == IF end % BlockSize = 0 THEN end ELSE end + BlockSize - (end % BlockSize)
             stop == IF top > ShowOf[f].cipher THEN ShowOf[f].cipher ELSE top
  <2>1. /\ BlockSize \in Nat \ {0} /\ ShowOf[f].cipher \in Nat /\ ShowOf[f].size \in Nat
        /\ ShowOf[f].size <= ShowOf[f].cipher
        /\ \A pos \in 0 .. (ShowOf[f].size - 1) : (pos \div BlockSize + 1) * BlockSize <= ShowOf[f].cipher
    BY <1>2, StreamAssumption
  <2>2. from \in Nat /\ from <= off /\ from <= end /\ end \in Nat /\ end <= ShowOf[f].cipher
    <3>1. from \in Nat /\ from <= off
      BY <2>1, Divided
    <3> HIDE DEF from
    <3> QED  BY <2>1, <3>1
  <2>3. end % BlockSize \in 0 .. (BlockSize - 1)
    BY <2>1, <2>2, Divided
  <2>4. top \in Nat /\ end <= top /\ stop \in Nat /\ end <= stop
    <3> HIDE DEF from, end
    <3> QED  BY <2>1, <2>2, <2>3
  <2> DEFINE raw == PlainRead(f, from, top - from)
  <2>5. raw = Run(from, stop - from)
    <3>1. from + (top - from) = top
      BY <2>2, <2>4
    <3> HIDE DEF top, from
    <3> QED  BY <3>1 DEF PlainRead, Run, stop
  <2>6. Len(raw) = stop - from /\ \A i \in 1 .. (stop - from) : raw[i] = from + i - 1
    <3> HIDE DEF top, from, end, stop, raw
    <3>1. stop - from \in Nat /\ from \in Int
      BY <2>2, <2>4
    <3> QED  BY <2>5, <3>1, RunIs
  <2>7. end = IF off + len > ShowOf[f].cipher THEN ShowOf[f].cipher ELSE off + len
    BY <2>1, <2>2
  <2> DEFINE valid == IF Len(raw) > end - from THEN end - from ELSE Len(raw)
  <2>8. valid = end - from
    <3> HIDE DEF top, from, end, stop, raw
    <3> QED  BY <2>2, <2>4, <2>6
  <2>9. (IF off - from >= valid THEN 0 ELSE valid - (off - from)) = len
    <3>1. end = off + len
      OBVIOUS
    <3> HIDE DEF top, from, end, stop, raw, valid
    <3> QED  BY <2>2, <2>8, <3>1
  <2>10. ASSUME NEW i \in 1 .. len PROVE Decrypted(f, raw[off - from + i]) = off + i - 1
    <3> DEFINE pos == off + i - 1
    <3>1. pos \in 0 .. (ShowOf[f].size - 1)
      BY <2>1
    <3>2. raw[off - from + i] = pos
      <4>1. end = off + len
        OBVIOUS
      <4> HIDE DEF top, from, end, stop, raw, valid
      <4>2. off - from + i \in 1 .. (stop - from) /\ from + (off - from + i) - 1 = off + i - 1
        BY <2>2, <2>4, <4>1
      <4> QED  BY <2>6, <4>2
    <3>3. (pos \div BlockSize + 1) * BlockSize <= ShowOf[f].cipher
      BY <2>1, <3>1
    <3> QED  BY <3>2, <3>3 DEF Decrypted
  <2>11. EncryptedRead(f, off, len) =
            [i \in 1 .. (IF off - from >= valid THEN 0 ELSE valid - (off - from)) |-> Decrypted(f, raw[off - from + i])]
    BY <2>7 DEF EncryptedRead
  <2> HIDE DEF top, from, end, stop, raw, valid
  <2>12. EncryptedRead(f, off, len) = [i \in 1 .. len |-> off + i - 1]
    BY <2>9, <2>10, <2>11
  <2> QED  BY <1>2, <2>12 DEF ReadAt, Run
<1> QED  BY <1>1, <1>2

-----------------------------------------------------------------------------
Ranges == [lo : Nat, hi : Nat]
Getting ==
    [pc : {"new", "range", "link", "request", "copy", "open", "read", "end"}, file : Shows \cup {NoRange},
     header : RangeHeaders \cup {NoRange}, range : Ranges \cup {NoRange}, tries : Nat, body : Nat,
     result : {"no", "ok", "error"}]
Responding == [status : {0, 200, 206, 500}, declared : Ranges \cup {NoRange}, sent : Seq(Int)]

\* A range lies in the file, and is what the header means.
Fits(v) ==
    /\ v.file \in Shows /\ v.range \in Ranges
    /\ v.range.lo <= v.range.hi /\ v.range.hi < ShowOf[v.file].size
    /\ ShowOf[v.file].start <= 0 => Wanted(v.file, v.header) \in {v.range, NoRange}

\* What is sent is a beginning of what was told, which is what was asked for.
ViewerOK(v, a) ==
    /\ v.pc # "new" => v.file \in Shows /\ v.header \in RangeHeaders
    /\ v.result # "no" => v.pc = "end"
    /\ v.pc \notin {"new", "range", "end"} => Fits(v)
    /\ v.pc \in {"copy", "read"} => a.declared = v.range
    /\ v.pc = "copy" => v.body = v.range.lo
    /\ v.pc \in {"new", "range", "link", "request", "open"} => a.declared = NoRange
    /\ a.declared = NoRange => a.sent = <<>>
    /\ a.declared # NoRange =>
          /\ a.declared = v.range /\ Fits(v)
          /\ Len(a.sent) <= v.range.hi - v.range.lo + 1 /\ a.sent = Run(v.range.lo, Len(a.sent))
          /\ v.result = "ok" => Len(a.sent) = v.range.hi - v.range.lo + 1

StreamInv ==
    /\ get \in [Viewers -> Getting] /\ response \in [Viewers -> Responding]
    /\ \A c \in Viewers : ViewerOK(get[c], response[c])

LEMMA NotARange == NoRange \notin Ranges
BY StreamAssumption DEF Ranges

\* What normalizeStreamRange lets through.
LEMMA NormalizedFits ==
    ASSUME NEW f \in Shows, NEW h \in RangeHeaders, NEW v, v.file = f, v.header = h,
           v.range = Normalize(ShownSize(f), GetRange(f, h)), v.range # NoRange
    PROVE  Fits(v)
<1> DEFINE size == ShowOf[f].size
           start == ShowOf[f].start
           r == GetRange(f, h)
<1>1. size \in Nat /\ start \in Nat \cup {-1}
  BY StreamAssumption
<1>2. /\ h.kind \in {"none", "bad", "two"} \/ h.kind = "span" \/ h.kind = "open" \/ h.kind = "suffix"
      /\ h.kind \in {"span", "open"} => h.a \in Nat
      /\ h.kind = "span" => h.b \in Nat /\ h.a <= h.b
      /\ h.kind = "suffix" => h.n \in Nat
  <2>1. h.kind \in {"none", "bad", "two", "span", "open", "suffix"}
    BY StreamAssumption
  <2>2. (h.kind \in {"span", "open"} => h.a \in Nat) /\ (h.kind = "span" => h.b \in Nat /\ h.a <= h.b)
        /\ (h.kind = "suffix" => h.n \in Nat)
    BY StreamAssumption
  <2> QED  BY <2>1, <2>2
<1> DEFINE q == ParseRange(h, size)
<1>3. q = <<>> \/ \E a \in Nat, b \in Nat : q = <<[lo |-> a, hi |-> b]>> /\ a <= b /\ b < size
  <2>1. CASE h.kind \in {"none", "bad", "two"}
    BY <2>1 DEF ParseRange
  <2>2. CASE h.kind = "span"
    <3>1. h.a \in Nat /\ h.b \in Nat /\ h.a <= h.b
      BY <1>2, <2>2
    <3> DEFINE b == IF h.b >= size THEN size - 1 ELSE h.b
    <3>2. q = IF h.a > size - 1 THEN <<>> ELSE << [lo |-> h.a, hi |-> b] >>
      BY <2>2 DEF ParseRange
    <3>3. CASE h.a <= size - 1
      <4>1. b \in Nat /\ h.a <= b /\ b < size
        BY <1>1, <3>1, <3>3
      <4> QED  BY <1>1, <3>1, <3>2, <3>3, <4>1
    <3>4. CASE h.a > size - 1
      BY <3>2, <3>4
    <3>5. h.a <= size - 1 \/ h.a > size - 1
      BY <1>1, <3>1
    <3> QED  BY <3>3, <3>4, <3>5
  <2>3. CASE h.kind = "open"
    <3>1. h.a \in Nat
      BY <1>2, <2>3
    <3>2. q = IF h.a > size - 1 THEN <<>> ELSE << [lo |-> h.a, hi |-> size - 1] >>
      BY <2>3 DEF ParseRange
    <3>3. CASE h.a <= size - 1
      <4>1. size - 1 \in Nat
        BY <1>1, <3>1, <3>3
      <4> QED  BY <1>1, <3>1, <3>2, <3>3, <4>1
    <3> QED  BY <1>1, <3>1, <3>2, <3>3
  <2>4. CASE h.kind = "suffix"
    <3>1. h.n \in Nat
      BY <1>2, <2>4
    <3> DEFINE a == size - (IF h.n > size THEN size ELSE h.n)
    <3>2. q = IF a > size - 1 THEN <<>> ELSE << [lo |-> a, hi |-> size - 1] >>
      BY <2>4 DEF ParseRange
    <3>3. a \in Nat
      BY <1>1, <3>1
    <3>4. CASE a <= size - 1
      <4>1. size - 1 \in Nat
        BY <1>1, <3>3, <3>4
      <4> HIDE DEF a
      <4> QED  BY <1>1, <3>2, <3>3, <3>4, <4>1
    <3> HIDE DEF a
    <3> QED  BY <1>1, <3>2, <3>3, <3>4
  <2> QED  BY <1>2, <2>1, <2>2, <2>3, <2>4
<1> HIDE DEF q
<1>4. /\ r.lo \in Nat /\ r.hi \in Int
      /\ start <= 0 => Wanted(f, h) = NoRange \/ \/ h.kind = "none" /\ r = [lo |-> 0, hi |-> -1]
                                                 \/ h.kind = "none" /\ r = [lo |-> 0, hi |-> size - 1]
                                                 \/ h.kind # "none" /\ q # <<>> /\ r.lo = q[1].lo /\ r.hi = q[1].hi
  <2>1. CASE h.kind = "none"
    BY <1>1, <2>1 DEF GetRange, ShownSize
  <2>2. CASE h.kind # "none" /\ q = <<>>
    BY <1>1, <2>2 DEF GetRange, ShownSize, Wanted, q
  <2>3. CASE h.kind # "none" /\ q # <<>>
    <3>1. PICK a \in Nat, b \in Nat : q = <<[lo |-> a, hi |-> b]>> /\ a <= b /\ b < size
      BY <1>3, <2>3
    <3> DEFINE shift == IF start >= 0 THEN start ELSE 0
    <3>2. r = [lo |-> a + shift, hi |-> b + shift]
      BY <2>3, <3>1 DEF GetRange, ShownSize, q
    <3>3. shift \in Nat /\ (start <= 0 => shift = 0)
      BY <1>1
    <3> HIDE DEF shift
    <3> QED  BY <2>3, <3>1, <3>2, <3>3
  <2> QED  BY <2>1, <2>2, <2>3
<1> DEFINE hi == IF r.hi = -1 \/ r.hi >= size THEN size - 1 ELSE r.hi
<1>5. ~(size <= 0 \/ r.lo >= size \/ hi < r.lo) /\ v.range = [lo |-> r.lo, hi |-> hi]
  BY DEF Normalize, ShownSize
<1>6. hi \in Nat /\ r.lo <= hi /\ hi < size
  <2> HIDE DEF r
  <2> QED  BY <1>1, <1>4, <1>5
<1>7. start <= 0 => Wanted(f, h) \in {v.range, NoRange}
  <2> SUFFICES ASSUME start <= 0, Wanted(f, h) # NoRange PROVE Wanted(f, h) = v.range
    OBVIOUS
  <2>1. CASE h.kind = "none"
    <3>1. r.lo = 0 /\ hi = size - 1
      <4> HIDE DEF r
      <4> QED  BY <1>1, <1>4, <2>1
    <3>2. Wanted(f, h) = [lo |-> 0, hi |-> size - 1]
      BY <2>1 DEF Wanted, ShownSize
    <3> QED  BY <1>5, <3>1, <3>2
  <2>2. CASE h.kind # "none"
    <3>1. q # <<>> /\ r.lo = q[1].lo /\ r.hi = q[1].hi
      <4> HIDE DEF r
      <4> QED  BY <1>4, <2>2
    <3>2. PICK a \in Nat, b \in Nat : q = <<[lo |-> a, hi |-> b]>> /\ a <= b /\ b < size
      BY <1>3, <3>1
    <3>3. r.lo = a /\ hi = b
      <4>1. r.lo = a /\ r.hi = b
        BY <3>1, <3>2
      <4> HIDE DEF r
      <4> QED  BY <1>1, <3>2, <4>1
    <3>4. Wanted(f, h) = q[1]
      BY <2>2, <3>1 DEF Wanted, ShownSize, q
    <3> QED  BY <1>5, <3>2, <3>3, <3>4
  <2> QED  BY <2>1, <2>2
<1>8. v.range \in Ranges /\ v.range.lo = r.lo /\ v.range.hi = hi
  <2> HIDE DEF r, hi
  <2> QED  BY <1>4, <1>5, <1>6 DEF Ranges
<1> HIDE DEF r, hi
<1> QED  BY <1>6, <1>7, <1>8 DEF Fits

LEMMA ViewerMoves ==
    ASSUME StreamInv, NEW c \in Viewers, NEW v \in Getting, NEW a \in Responding,
           get' = [get EXCEPT ![c] = v], response' = [response EXCEPT ![c] = a], ViewerOK(v, a)
    PROVE  StreamInv'
<1>1. \A d \in Viewers : /\ get'[d] = IF d = c THEN v ELSE get[d]
                         /\ response'[d] = IF d = c THEN a ELSE response[d]
  BY DEF StreamInv
<1>2. get' \in [Viewers -> Getting] /\ response' \in [Viewers -> Responding]
  BY DEF StreamInv
<1>3. \A d \in Viewers : ViewerOK(get'[d], response'[d])
  BY <1>1 DEF StreamInv
<1> QED  BY <1>2, <1>3 DEF StreamInv

LEMMA ViewersAre ==
    ASSUME StreamInv, NEW c \in Viewers
    PROVE  /\ get[c] \in Getting /\ response[c] \in Responding /\ ViewerOK(get[c], response[c])
           /\ get \in [Viewers -> Getting] /\ response \in [Viewers -> Responding]
BY DEF StreamInv

\* Nothing is sent yet or something was; the request ends.
LEMMA OverKeeps ==
    ASSUME StreamInv, NEW c \in Viewers, NEW result \in {"ok", "error"}, Over(c, result), get[c].pc \notin {"new", "end"},
           result = "ok" /\ response[c].declared # NoRange =>
               Len(response[c].sent) = get[c].range.hi - get[c].range.lo + 1
    PROVE  StreamInv'
<1> DEFINE v == [get[c] EXCEPT !.pc = "end", !.result = result]
           status == IF result = "error" /\ response[c].status = 0 THEN 500 ELSE response[c].status
           a == [response[c] EXCEPT !.status = status]
<1>1. get[c] \in Getting /\ response[c] \in Responding /\ ViewerOK(get[c], response[c])
  BY ViewersAre
<1>2. v \in Getting /\ get' = [get EXCEPT ![c] = v]
  BY <1>1 DEF Getting, Over
<1>3. status \in {0, 200, 206, 500}
  BY <1>1 DEF Responding
<1>4. a \in Responding /\ response' = [response EXCEPT ![c] = a]
  BY SMTT(30), <1>1, <1>3 DEF Responding, Over
<1>5. v.file = get[c].file /\ v.header = get[c].header /\ v.range = get[c].range /\ v.pc = "end" /\ v.result = result
      /\ a.declared = response[c].declared /\ a.sent = response[c].sent
  BY <1>1 DEF Getting, Responding
<1> HIDE DEF v, a
<1>6. ViewerOK(v, a)
  BY <1>1, <1>5 DEF ViewerOK, Fits
<1> QED  BY <1>2, <1>4, <1>6, ViewerMoves

\* The request goes on, and the answer stays what it is.
LEMMA GoesOnKeeps ==
    ASSUME StreamInv, NEW c \in Viewers, NEW v \in Getting, get' = [get EXCEPT ![c] = v], UNCHANGED response,
           ViewerOK(v, response[c])
    PROVE  StreamInv'
<1>1. response' = [response EXCEPT ![c] = response[c]] /\ response[c] \in Responding
  BY DEF StreamInv
<1> QED  BY <1>1, ViewerMoves

LEMMA RequestKeeps == ASSUME StreamInv, NEW c \in Viewers, RequestFile(c) PROVE StreamInv'
<1>1. PICK f \in Shows, h \in RangeHeaders : get' = [get EXCEPT ![c] = [@ EXCEPT !.pc = "range", !.file = f, !.header = h]]
  BY DEF RequestFile
<1> DEFINE v == [get[c] EXCEPT !.pc = "range", !.file = f, !.header = h]
<1>2. get[c] \in Getting /\ response[c] \in Responding /\ ViewerOK(get[c], response[c]) /\ get[c].pc = "new"
  BY ViewersAre DEF RequestFile, InStep
<1>3. v \in Getting /\ get' = [get EXCEPT ![c] = v]
  BY <1>1, <1>2 DEF Getting
<1>4. v.file = f /\ v.header = h /\ v.pc = "range" /\ v.result = get[c].result
  BY <1>2 DEF Getting
<1> HIDE DEF v
<1>5. ViewerOK(v, response[c])
  BY <1>2, <1>4 DEF ViewerOK
<1> QED  BY <1>3, <1>5, GoesOnKeeps DEF RequestFile

LEMMA BeginKeeps == ASSUME StreamInv, NEW c \in Viewers, Begin(c) PROVE StreamInv'
<1> DEFINE r == Normalize(ShownSize(FileOf(c)), GetRange(FileOf(c), get[c].header))
           pc == IF ShowOf[FileOf(c)].source = "usenet" THEN "open" ELSE "link"
           v == [get[c] EXCEPT !.range = r, !.pc = pc]
<1>1. /\ get[c] \in Getting /\ response[c] \in Responding /\ ViewerOK(get[c], response[c]) /\ get[c].pc = "range"
      /\ get[c].file \in Shows /\ get[c].header \in RangeHeaders
  BY ViewersAre DEF Begin, InStep, ViewerOK
<1>2. CASE r = NoRange
  <2>1. Over(c, "error")
    BY <1>2 DEF Begin
  <2> QED  BY <1>1, <2>1, OverKeeps
<1>3. CASE r # NoRange
  <2>1. get' = [get EXCEPT ![c] = v] /\ UNCHANGED response
    <3>1. get' = [get EXCEPT ![c].range = r, ![c].pc = pc] /\ UNCHANGED response
      BY <1>3 DEF Begin
    <3> HIDE DEF r, pc
    <3> QED  BY <3>1
  <2>2. v.file = get[c].file /\ v.header = get[c].header /\ v.pc = pc /\ v.result = get[c].result /\ v.range = r
    <3> HIDE DEF r, pc
    <3> QED  BY <1>1 DEF Getting
  <2>3. Fits(v)
    <3>1. v.range = Normalize(ShownSize(get[c].file), GetRange(get[c].file, get[c].header))
      BY <2>2 DEF FileOf
    <3> HIDE DEF v, r, pc
    <3> QED  BY <1>1, <1>3, <2>2, <3>1, NormalizedFits
  <2>4. r \in Ranges /\ pc \in {"open", "link"}
    <3>1. r \in Ranges
      <4> HIDE DEF r, v, pc
      <4> QED  BY <2>2, <2>3 DEF Fits
    <3> QED  BY <3>1
  <2>5. v \in Getting
    <3> HIDE DEF r, pc
    <3> QED  BY <1>1, <2>4 DEF Getting
  <2>6. ViewerOK(v, response[c])
    <3> HIDE DEF r, pc, v
    <3> QED  BY <1>1, <2>2, <2>3, <2>4 DEF ViewerOK
  <2> HIDE DEF v, r, pc
  <2> QED  BY <2>1, <2>5, <2>6, GoesOnKeeps
<1> QED  BY <1>2, <1>3

LEMMA LinkKeeps ==
    ASSUME StreamInv, NEW c \in Viewers, LinkFound(c) \/ RequestAgain(c) PROVE StreamInv'
<1> DEFINE v == IF get[c].pc = "link" THEN [get[c] EXCEPT !.pc = "request"] ELSE [get[c] EXCEPT !.tries = @ + 1]
<1>1. get[c] \in Getting /\ response[c] \in Responding /\ ViewerOK(get[c], response[c]) /\ get[c].pc \in {"link", "request"}
  BY ViewersAre DEF LinkFound, RequestAgain, InStep
<1>2. get' = [get EXCEPT ![c] = v] /\ UNCHANGED response
  BY DEF LinkFound, RequestAgain, InStep
<1>3. v \in Getting
  BY <1>1 DEF Getting
<1>4. v.file = get[c].file /\ v.header = get[c].header /\ v.pc = "request" /\ v.result = get[c].result /\ v.range = get[c].range
  BY <1>1 DEF Getting
<1> HIDE DEF v
<1>5. ViewerOK(v, response[c])
  BY <1>1, <1>4 DEF ViewerOK, Fits
<1> QED  BY <1>2, <1>3, <1>5, GoesOnKeeps

LEMMA EndKeeps ==
    ASSUME StreamInv, NEW c \in Viewers, NoLinkFound(c) \/ RequestFails(c) \/ CopyFails(c) PROVE StreamInv'
<1>1. Over(c, "error") /\ get[c].pc \notin {"new", "end"}
  BY DEF NoLinkFound, RequestFails, CopyFails, InStep
<1> QED  BY <1>1, OverKeeps

\* The header is written: nothing is sent yet.
LEMMA TellsKeeps ==
    ASSUME StreamInv, NEW c \in Viewers, NEW status \in {200, 206}, Told(c, status),
           NEW v \in Getting, get' = [get EXCEPT ![c] = v], get[c].pc \in {"request", "open"},
           v.file = get[c].file, v.header = get[c].header, v.range = get[c].range, v.result = get[c].result,
           v.pc = "read" \/ (v.pc = "copy" /\ v.body = v.range.lo)
    PROVE  StreamInv'
<1> DEFINE a == [response[c] EXCEPT !.status = status, !.declared = get[c].range]
<1>1. get[c] \in Getting /\ response[c] \in Responding /\ ViewerOK(get[c], response[c])
  BY ViewersAre
<1>2. /\ get[c].range \in Ranges /\ Fits(get[c]) /\ get[c].file \in Shows /\ get[c].header \in RangeHeaders
      /\ response[c].sent = <<>> /\ get[c].result = "no" /\ get[c].range.lo \in Nat /\ get[c].range.hi \in Nat
      /\ get[c].range.lo <= get[c].range.hi
  BY <1>1 DEF ViewerOK, Fits, Ranges, Getting
<1>3. a \in Responding /\ response' = [response EXCEPT ![c] = a]
  <2>1. a \in Responding
    BY ZenonT(60), <1>1, <1>2 DEF Responding
  <2>2. response' = [response EXCEPT ![c] = a]
    BY DEF Told
  <2> QED  BY <2>1, <2>2
<1>4. a.declared = get[c].range /\ a.sent = <<>>
  BY <1>1, <1>2 DEF Responding
<1> HIDE DEF a
<1>5. Run(v.range.lo, 0) = <<>> /\ Len(a.sent) = 0
  BY <1>4 DEF Run
<1>6. Fits(v)
  BY <1>2 DEF Fits
<1>7. 0 <= v.range.hi - v.range.lo + 1
  BY <1>2
<1>8. a.declared # NoRange
  BY <1>2, <1>4, NotARange
<1>9. ViewerOK(v, a)
  BY <1>2, <1>4, <1>5, <1>6, <1>7, <1>8 DEF ViewerOK
<1> QED  BY <1>3, <1>9, ViewerMoves

LEMMA RespondsKeeps == ASSUME StreamInv, ~RangeIgnored, NEW c \in Viewers, Responds(c) PROVE StreamInv'
<1>1. PICK whole \in BOOLEAN :
        /\ IF get[c].range.lo > 0 \/ get[c].range.hi > 0 THEN whole => RangeIgnored ELSE whole
        /\ Told(c, IF whole /\ ~IsPartial(c) THEN 200 ELSE 206)
        /\ get' = [get EXCEPT ![c].pc = "copy", ![c].body = IF whole THEN 0 ELSE get[c].range.lo]
  BY DEF Responds
<1>2. /\ get[c] \in Getting /\ get[c].pc = "request" /\ ViewerOK(get[c], response[c])
  BY ViewersAre DEF Responds, InStep
<1>3. get[c].range.lo \in Nat /\ get[c].range.hi \in Nat
  BY <1>2 DEF ViewerOK, Fits, Ranges
<1>4. (IF whole THEN 0 ELSE get[c].range.lo) = get[c].range.lo
  BY <1>1, <1>3
<1> DEFINE v == [get[c] EXCEPT !.pc = "copy", !.body = get[c].range.lo]
<1>5. v \in Getting /\ get' = [get EXCEPT ![c] = v]
  BY <1>1, <1>2, <1>3, <1>4 DEF Getting
<1>6. v.file = get[c].file /\ v.header = get[c].header /\ v.range = get[c].range /\ v.result = get[c].result
      /\ v.pc = "copy" /\ v.body = v.range.lo
  BY <1>2 DEF Getting
<1> DEFINE status == IF whole /\ ~IsPartial(c) THEN 200 ELSE 206
<1>7. status \in {200, 206} /\ Told(c, status)
  BY <1>1
<1> HIDE DEF v, status
<1> QED  BY <1>2, <1>5, <1>6, <1>7, TellsKeeps

LEMMA OpenKeeps == ASSUME StreamInv, NEW c \in Viewers, OpenUsenet(c) PROVE StreamInv'
<1> DEFINE v == [get[c] EXCEPT !.pc = "read"]
           status == IF IsPartial(c) THEN 206 ELSE 200
<1>1. get[c] \in Getting /\ get[c].pc = "open"
  BY ViewersAre DEF OpenUsenet, InStep
<1>2. v \in Getting /\ get' = [get EXCEPT ![c] = v]
  BY <1>1 DEF Getting, OpenUsenet
<1>3. v.file = get[c].file /\ v.header = get[c].header /\ v.range = get[c].range /\ v.result = get[c].result /\ v.pc = "read"
  BY <1>1 DEF Getting
<1>4. status \in {200, 206} /\ Told(c, status)
  BY DEF OpenUsenet
<1> HIDE DEF v, status
<1>5. get[c].pc \in {"request", "open"} /\ (v.pc = "read" \/ (v.pc = "copy" /\ v.body = v.range.lo))
  BY <1>1, <1>3
<1> QED  BY <1>2, <1>3, <1>4, <1>5, TellsKeeps

LEMMA SendBodyKeeps == ASSUME StreamInv, NEW c \in Viewers, SendBody(c) PROVE StreamInv'
<1>1. PICK n \in 0 .. Expected(c) :
        /\ get' = [get EXCEPT ![c].pc = "end", ![c].result = IF n = Expected(c) THEN "ok" ELSE "error"]
        /\ response' = [response EXCEPT ![c].sent = [i \in 1 .. n |-> get[c].body + i - 1]]
  BY DEF SendBody
<1> DEFINE result == IF n = Expected(c) THEN "ok" ELSE "error"
           v == [get[c] EXCEPT !.pc = "end", !.result = result]
           sent == Run(get[c].body, n)
           a == [response[c] EXCEPT !.sent = sent]
<1>2. get[c] \in Getting /\ response[c] \in Responding /\ ViewerOK(get[c], response[c]) /\ get[c].pc = "copy"
  BY ViewersAre DEF SendBody, InStep
<1>3. /\ get[c].range \in Ranges /\ get[c].range.lo \in Nat /\ get[c].range.hi \in Nat /\ Fits(get[c])
      /\ get[c].body = get[c].range.lo /\ response[c].declared = get[c].range
      /\ get[c].file \in Shows /\ get[c].header \in RangeHeaders
  BY <1>2 DEF ViewerOK, Fits, Ranges
<1>4. n \in Nat /\ n <= get[c].range.hi - get[c].range.lo + 1
      /\ (result = "ok" => n = get[c].range.hi - get[c].range.lo + 1)
  BY <1>3 DEF Expected
<1>5. sent \in Seq(Int) /\ Len(sent) = n
  <2>1. get[c].body \in Int /\ n \in Nat
    BY <1>3, <1>4
  <2> HIDE DEF result, v, a
  <2> QED  BY <2>1, RunIs
<1>6. result \in {"ok", "error"}
  OBVIOUS
<1>7. v \in Getting /\ get' = [get EXCEPT ![c] = v]
  BY <1>1, <1>2 DEF Getting
<1>8. response' = [response EXCEPT ![c] = a]
  BY <1>1 DEF Run
<1> HIDE DEF result, sent
<1>9. a \in Responding /\ a.declared = get[c].range /\ a.sent = sent
  BY SMTT(30), <1>2, <1>3, <1>5 DEF Responding
<1>10. v.file = get[c].file /\ v.header = get[c].header /\ v.range = get[c].range /\ v.result = result /\ v.pc = "end"
  BY <1>2 DEF Getting
<1> HIDE DEF v, a
<1>11. Fits(v)
  BY <1>3, <1>10 DEF Fits
<1>12. a.declared # NoRange /\ a.sent = Run(v.range.lo, Len(a.sent))
  BY <1>3, <1>5, <1>9, <1>10, NotARange DEF sent
<1>13. ViewerOK(v, a)
  BY <1>3, <1>4, <1>5, <1>9, <1>10, <1>11, <1>12 DEF ViewerOK
<1> QED  BY <1>7, <1>8, <1>9, <1>13, ViewerMoves

LEMMA CopyBufferKeeps == ASSUME StreamInv, NEW c \in Viewers, CopyBuffer(c) PROVE StreamInv'
<1> DEFINE done == Len(response[c].sent)
           len  == IF Expected(c) - done > BufferSize THEN BufferSize ELSE Expected(c) - done
           got  == ReadAt(FileOf(c), get[c].range.lo + done, len)
<1>1. /\ get[c] \in Getting /\ response[c] \in Responding /\ ViewerOK(get[c], response[c]) /\ get[c].pc = "read"
  BY ViewersAre DEF CopyBuffer, InStep
<1>2. /\ get[c].range \in Ranges /\ get[c].range.lo \in Nat /\ get[c].range.hi \in Nat /\ Fits(get[c])
      /\ response[c].declared = get[c].range /\ response[c].declared # NoRange
      /\ get[c].file \in Shows /\ get[c].header \in RangeHeaders /\ get[c].range.hi < ShowOf[get[c].file].size
      /\ ShowOf[get[c].file].size \in Nat /\ get[c].result = "no"
  BY <1>1, NotARange, StreamAssumption DEF ViewerOK, Fits, Ranges, Getting
<1>3. /\ done \in Nat /\ response[c].sent \in Seq(Int) /\ done <= get[c].range.hi - get[c].range.lo + 1
      /\ response[c].sent = Run(get[c].range.lo, done)
  BY <1>1, <1>2 DEF ViewerOK, Responding
<1>4. Expected(c) = get[c].range.hi - get[c].range.lo + 1 /\ BufferSize \in Nat \ {0}
  BY StreamAssumption DEF Expected
<1>5. /\ len \in Nat /\ (len = 0 => done = get[c].range.hi - get[c].range.lo + 1)
      /\ done + len <= get[c].range.hi - get[c].range.lo + 1
  <2> DEFINE all == get[c].range.hi - get[c].range.lo + 1
  <2>1. all \in Int /\ done \in Nat /\ done <= all /\ Expected(c) = all
    BY <1>2, <1>3, <1>4
  <2> HIDE DEF done, all
  <2>2. /\ len \in Nat /\ (len = 0 => done = all) /\ done + len <= all
    BY <1>4, <2>1
  <2> QED  BY <2>2 DEF all
<1>6. CASE len = 0
  <2>1. Over(c, "ok")
    BY <1>6 DEF CopyBuffer
  <2> QED  BY <1>1, <1>5, <1>6, <2>1, OverKeeps
<1>7. CASE len # 0
  <2>1. got = Run(get[c].range.lo + done, len)
    <3> DEFINE off == get[c].range.lo + done
    <3>1. off \in Nat /\ off + len <= ShowOf[get[c].file].size
      <4> HIDE DEF done, len
      <4> QED  BY SMTT(90), <1>2, <1>3, <1>5
    <3>2. got = ReadAt(get[c].file, off, len)
      BY DEF FileOf
    <3> HIDE DEF done, len, got, off
    <3>3. ReadAt(get[c].file, off, len) = Run(off, len)
      BY <1>2, <1>5, <1>7, <3>1, ReadsWhatIsThere
    <3> QED  BY <3>2, <3>3 DEF off
  <2> DEFINE sent == response[c].sent \o got
             a == [response[c] EXCEPT !.sent = sent]
  <2>2. sent = Run(get[c].range.lo, done + len)
    <3> HIDE DEF done, len, got
    <3>1. response[c].sent \o got = Run(get[c].range.lo, done) \o Run(get[c].range.lo + done, len)
      BY <1>3, <2>1
    <3>2. get[c].range.lo \in Int /\ done \in Nat /\ len \in Nat
      BY <1>2, <1>3, <1>5
    <3>3. Run(get[c].range.lo, done) \o Run(get[c].range.lo + done, len) = Run(get[c].range.lo, done + len)
      BY <3>2, RunsJoin
    <3> QED  BY <3>1, <3>3
  <2>3. sent \in Seq(Int) /\ Len(sent) = done + len
    <3> HIDE DEF done, len, got, sent
    <3>1. done + len \in Nat /\ get[c].range.lo \in Int
      BY <1>2, <1>3, <1>5
    <3>2. Run(get[c].range.lo, done + len) \in Seq(Int) /\ Len(Run(get[c].range.lo, done + len)) = done + len
      BY <3>1, RunIs
    <3> QED  BY <2>2, <3>2
  <2>4. got # <<>>
    <3> HIDE DEF done, len, got
    <3>1. get[c].range.lo + done \in Int
      BY <1>2, <1>3
    <3>2. Len(got) = len
      BY <1>5, <2>1, <3>1, RunIs
    <3> QED  BY <1>7, <3>2
  <2>5. response' = [response EXCEPT ![c] = a] /\ UNCHANGED get
    BY <1>7, <2>4 DEF CopyBuffer
  <2> HIDE DEF done, len, got, sent
  <2>6. a \in Responding /\ a.declared = get[c].range /\ a.sent = sent
    BY ZenonT(60), <1>1, <1>2, <2>3 DEF Responding
  <2> HIDE DEF a
  <2>7. ViewerOK(get[c], a)
    BY <1>1, <1>2, <1>3, <1>5, <2>2, <2>3, <2>6 DEF ViewerOK
  <2>8. get' = [get EXCEPT ![c] = get[c]]
    BY <2>5, ViewersAre
  <2> QED  BY <1>1, <2>5, <2>6, <2>7, <2>8, ViewerMoves
<1> QED  BY <1>6, <1>7

LEMMA StreamStarts == StreamInit => StreamInv
<1> SUFFICES ASSUME StreamInit PROVE StreamInv
  OBVIOUS
<1> DEFINE v == [pc |-> "new", file |-> NoRange, header |-> NoRange, range |-> NoRange, tries |-> 0, body |-> 0, result |-> "no"]
           a == [status |-> 0, declared |-> NoRange, sent |-> <<>>]
<1>1. v \in Getting /\ a \in Responding
  BY DEF Getting, Responding
<1>2. ViewerOK(v, a)
  BY DEF ViewerOK
<1>3. get = [c \in Viewers |-> v] /\ response = [c \in Viewers |-> a]
  BY DEF StreamInit
<1> HIDE DEF v, a
<1> QED  BY <1>1, <1>2, <1>3 DEF StreamInv

LEMMA StreamKeeps == ~RangeIgnored /\ StreamInv /\ [StreamNext]_streamVars => StreamInv'
<1> SUFFICES ASSUME ~RangeIgnored, StreamInv, [StreamNext]_streamVars PROVE StreamInv'
  OBVIOUS
<1>1. ASSUME NEW c \in Viewers, RequestFile(c) \/ Begin(c) \/ LinkFound(c) \/ RequestAgain(c) PROVE StreamInv'
  BY <1>1, RequestKeeps, BeginKeeps, LinkKeeps
<1>2. ASSUME NEW c \in Viewers, NoLinkFound(c) \/ RequestFails(c) \/ CopyFails(c) PROVE StreamInv'
  BY <1>2, EndKeeps
<1>3. ASSUME NEW c \in Viewers, Responds(c) \/ SendBody(c) \/ OpenUsenet(c) \/ CopyBuffer(c) PROVE StreamInv'
  BY <1>3, RespondsKeeps, SendBodyKeeps, OpenKeeps, CopyBufferKeeps
<1>4. CASE UNCHANGED streamVars
  BY <1>4 DEF streamVars, StreamInv
<1> QED  BY <1>1, <1>2, <1>3, <1>4 DEF StreamNext

(* What a player is sent is what its header says, from the first byte on, and *)
(* all of it when no error is returned, for every file, range and buffer, of  *)
(* encrypted files too; and the header says what was asked for.  The servers  *)
(* behind the links do not answer a range with the whole file.                *)
THEOREM AllServedAsAsked == ~RangeIgnored => (StreamSpec => []ServedAsAsked)
<1>1. StreamInv => ServedAsAsked
  <2> SUFFICES ASSUME StreamInv, NEW c \in Viewers, response[c].declared # NoRange
               PROVE  LET told == response[c].declared
                      IN  /\ IsPrefix(response[c].sent, Run(told.lo, told.hi - told.lo + 1))
                          /\ get[c].result = "ok" => Len(response[c].sent) = told.hi - told.lo + 1
                          /\ ShowOf[FileOf(c)].start <= 0 => Wanted(FileOf(c), get[c].header) \in {told, NoRange}
    BY DEF ServedAsAsked, Run
  <2>1. response[c] \in Responding /\ ViewerOK(get[c], response[c])
    BY ViewersAre
  <2>2. /\ response[c].declared = get[c].range /\ Fits(get[c]) /\ Len(response[c].sent) \in Nat
        /\ Len(response[c].sent) <= get[c].range.hi - get[c].range.lo + 1
        /\ response[c].sent = Run(get[c].range.lo, Len(response[c].sent))
        /\ get[c].result = "ok" => Len(response[c].sent) = get[c].range.hi - get[c].range.lo + 1
        /\ get[c].range.lo \in Nat /\ get[c].range.hi \in Nat
    BY <2>1 DEF ViewerOK, Responding, Fits, Ranges
  <2> DEFINE n == Len(response[c].sent)
             m == get[c].range.hi - get[c].range.lo + 1
  <2>3. n \in Nat /\ m \in Nat /\ n <= m
    <3>1. n \in Nat /\ n <= m /\ m \in Int
      BY <2>2
    <3> HIDE DEF n, m
    <3> QED  BY <3>1
  <2>4. IsPrefix(Run(get[c].range.lo, n), Run(get[c].range.lo, m))
    <3> HIDE DEF n, m
    <3> QED  BY <2>2, <2>3, RunIsPrefix
  <2> QED  BY <2>2, <2>4 DEF Fits, FileOf
<1>2. ASSUME ~RangeIgnored PROVE StreamInv /\ [StreamNext]_streamVars => StreamInv'
  BY <1>2, StreamKeeps
<1> SUFFICES ASSUME ~RangeIgnored PROVE StreamSpec => []ServedAsAsked
  OBVIOUS
<1>3. StreamInv /\ [StreamNext]_streamVars => StreamInv'
  BY <1>2
<1> QED  BY StreamStarts, <1>1, <1>3, PTL DEF StreamSpec

-----------------------------------------------------------------------------
(* FileLayout: sums, sorting, and the types of the walk over the volumes *)

LEMMA LeastExists ==
    ASSUME NEW S \in SUBSET Nat, S # {}
    PROVE  \E i \in S : \A j \in S : i <= j
<1>1. PICK i \in S : \A j \in S : ~(<<j, i>> \in OpToRel(<, Nat))
  BY WFMin, NatLessThanWellFounded
<1>2. \A j \in S : <<j, i>> \in OpToRel(<, Nat) <=> j < i
  BY DEF OpToRel
<1>3. \A j \in S : ~(j < i)
  BY <1>1, <1>2
<1> QED  BY <1>3

LEMMA ListIsSeq == ASSUME NEW S, NEW n \in Nat, NEW s \in [1 .. n -> S] PROVE s \in Seq(S) /\ Len(s) = n
OBVIOUS

\* A set of numbers that has 0 and with n also n + 1 has them all.
LEMMA FromZero ==
    ASSUME NEW S, 0 \in S, \A i \in Nat : i \in S => i + 1 \in S
    PROVE  Nat \subseteq S
<1> DEFINE Out == {i \in Nat : i \notin S}
<1> SUFFICES ASSUME Out # {} PROVE FALSE
  OBVIOUS
<1>1. PICK i \in Out : \A j \in Out : i <= j
  BY LeastExists
<1>2. i # 0 /\ i - 1 \in Nat
  BY <1>1
<1>3. i - 1 \in S
  BY <1>1, <1>2
<1>4. i - 1 + 1 \in S
  BY <1>2, <1>3
<1> QED  BY <1>1, <1>4

SumsOf(numbers, g) ==
    g = [i \in 0 .. Len(numbers) |-> IF i = 0 THEN 0 ELSE g[i - 1] + numbers[i]]

\* There is a function of the sums.
LEMMA SumsExist ==
    ASSUME NEW numbers, NEW n \in Nat, Len(numbers) = n, \A i \in 1 .. n : numbers[i] \in Int
    PROVE  \E g \in [0 .. n -> Int] : SumsOf(numbers, g)
<1> DEFINE Upto(m, g) == g[0] = 0 /\ \A i \in 1 .. n : i <= m => g[i] = g[i - 1] + numbers[i]
           S == {m \in Nat : \E g \in [0 .. n -> Int] : Upto(m, g)}
<1>1. 0 \in S
  <2>1. [i \in 0 .. n |-> 0] \in [0 .. n -> Int]
    OBVIOUS
  <2>2. Upto(0, [i \in 0 .. n |-> 0])
    OBVIOUS
  <2> QED  BY <2>1, <2>2
<1>2. ASSUME NEW m \in Nat, m \in S PROVE m + 1 \in S
  <2>1. PICK g \in [0 .. n -> Int] : Upto(m, g)
    BY <1>2
  <2>2. CASE m + 1 > n
    <3>1. Upto(m + 1, g)
      BY <2>1, <2>2
    <3> QED  BY <3>1
  <2>3. CASE m + 1 <= n
    <3> DEFINE h == [g EXCEPT ![m + 1] = g[m] + numbers[m + 1]]
    <3>1. h \in [0 .. n -> Int]
      BY <2>3
    <3>2. \A i \in 0 .. m : h[i] = g[i]
      BY <2>3
    <3>3. h[m + 1] = g[m] + numbers[m + 1]
      BY <2>3
    <3>4. ASSUME NEW i \in 1 .. n, i <= m + 1 PROVE h[i] = h[i - 1] + numbers[i]
      <4>1. CASE i = m + 1
        BY <4>1, <3>2, <3>3
      <4>2. CASE i # m + 1
        <5>1. i <= m /\ i \in 0 .. m /\ i - 1 \in 0 .. m
          BY <4>2, <3>4
        <5>2. h[i] = g[i] /\ h[i - 1] = g[i - 1]
          BY <5>1, <3>2
        <5>3. g[i] = g[i - 1] + numbers[i]
          BY <5>1, <2>1
        <5> QED  BY <5>2, <5>3
      <4> QED  BY <4>1, <4>2
    <3>5. h[0] = 0
      BY <3>2, <2>1
    <3>6. Upto(m + 1, h)
      BY <3>4, <3>5
    <3>7. \E f \in [0 .. n -> Int] : Upto(m + 1, f)
      BY <3>1, <3>6
    <3>8. m + 1 \in Nat
      OBVIOUS
    <3> HIDE DEF h, Upto
    <3> QED  BY <3>7, <3>8
  <2> QED  BY <2>2, <2>3
<1>3. n \in S
  <2> HIDE DEF S
  <2>1. Nat \subseteq S
    BY <1>1, <1>2, FromZero
  <2> QED  BY <2>1
<1>4. PICK g \in [0 .. n -> Int] : Upto(n, g)
  BY <1>3
<1>5. g = [i \in 0 .. n |-> g[i]]
  OBVIOUS
<1>6. \A i \in 0 .. n : g[i] = IF i = 0 THEN 0 ELSE g[i - 1] + numbers[i]
  BY <1>4
<1>7. SumsOf(numbers, g)
  BY <1>5, <1>6 DEF SumsOf
<1> QED  BY <1>7

\* What Sums is.
LEMMA SumsAre ==
    ASSUME NEW numbers, NEW n \in Nat, Len(numbers) = n, \A i \in 1 .. n : numbers[i] \in Int
    PROVE  /\ Sums(numbers) \in [0 .. n -> Int] /\ Sums(numbers)[0] = 0
           /\ \A i \in 1 .. n : Sums(numbers)[i] = Sums(numbers)[i - 1] + numbers[i]
<1> DEFINE s == CHOOSE g : SumsOf(numbers, g)
<1>1. s = Sums(numbers)
  BY DEF Sums, SumsOf
<1>2. PICK g \in [0 .. n -> Int] : SumsOf(numbers, g)
  BY SumsExist
<1>3. SumsOf(numbers, s)
  BY <1>2
<1> HIDE DEF s
<1>4. s = [i \in 0 .. n |-> IF i = 0 THEN 0 ELSE s[i - 1] + numbers[i]]
  BY <1>3 DEF SumsOf
<1>5. s[0] = 0 /\ \A i \in 1 .. n : s[i] = s[i - 1] + numbers[i]
  <2>1. \A i \in 0 .. n : s[i] = IF i = 0 THEN 0 ELSE s[i - 1] + numbers[i]
    BY <1>4
  <2> QED  BY <2>1
<1>6. \A i \in 0 .. n : s[i] \in Int
  <2> DEFINE S == {m \in Nat : m <= n => s[m] \in Int}
  <2>1. 0 \in S
    BY <1>5
  <2>2. ASSUME NEW m \in Nat, m \in S PROVE m + 1 \in S
    <3>1. CASE m + 1 <= n
      <4>1. m + 1 \in 1 .. n /\ m + 1 - 1 = m /\ m <= n
        BY <3>1
      <4>2. s[m + 1] = s[m] + numbers[m + 1]
        BY <4>1, <1>5
      <4> QED  BY <4>1, <4>2, <2>2
    <3> QED  BY <3>1
  <2> HIDE DEF S
  <2>3. Nat \subseteq S
    BY <2>1, <2>2, FromZero
  <2> QED  BY <2>3 DEF S
<1>7. s \in [0 .. n -> Int]
  BY <1>4, <1>6
<1> QED  BY <1>1, <1>5, <1>7

\* Sums of sizes grow.
LEMMA SumsGrow ==
    ASSUME NEW numbers, NEW n \in Nat, Len(numbers) = n, \A i \in 1 .. n : numbers[i] \in Nat
    PROVE  \A j \in 0 .. n : \A i \in 0 .. j : Sums(numbers)[i] <= Sums(numbers)[j]
<1> DEFINE s == Sums(numbers)
<1>0. \A i \in 1 .. n : numbers[i] \in Int
  OBVIOUS
<1>1. s \in [0 .. n -> Int] /\ s[0] = 0 /\ \A i \in 1 .. n : s[i] = s[i - 1] + numbers[i]
  BY <1>0, SumsAre
<1> HIDE DEF s
<1> SUFFICES ASSUME NEW j \in 0 .. n PROVE \A i \in 0 .. j : s[i] <= s[j]
  BY DEF s
<1> DEFINE S == {m \in Nat : m <= j => s[j - m] <= s[j]}
<1>2. 0 \in S
  BY <1>1
<1>3. ASSUME NEW m \in Nat, m \in S PROVE m + 1 \in S
  <2>1. CASE m + 1 <= j
    <3>1. j - m \in 1 .. n /\ j - m - 1 = j - (m + 1) /\ j - (m + 1) \in 0 .. n
      BY <2>1
    <3>2. s[j - m] = s[j - (m + 1)] + numbers[j - m]
      BY <3>1, <1>1
    <3>3. s[j - (m + 1)] \in Int /\ numbers[j - m] \in Nat /\ s[j - m] \in Int /\ s[j] \in Int
      BY <3>1, <1>1
    <3>4. s[j - m] <= s[j]
      BY <1>3, <2>1
    <3> QED  BY <3>2, <3>3, <3>4
  <2> QED  BY <2>1
<1> HIDE DEF S
<1>4. Nat \subseteq S
  BY <1>2, <1>3, FromZero
<1>5. ASSUME NEW i \in 0 .. j PROVE s[i] <= s[j]
  <2>1. j - i \in Nat /\ j - i <= j /\ j - (j - i) = i
    OBVIOUS
  <2> QED  BY <2>1, <1>4 DEF S
<1> QED  BY <1>5

\* SortedBy gives every member of a finite set its place.
LEMMA SortedByIs ==
    ASSUME NEW S, IsFiniteSet(S), NEW key, \A x \in S : key[x] \in Int,
           \A x, y \in S : x # y => key[x] # key[y]
    PROVE  /\ Cardinality(S) \in Nat /\ DOMAIN SortedBy(S, key) = 1 .. Cardinality(S)
           /\ SortedBy(S, key) \in Seq(S) /\ Len(SortedBy(S, key)) = Cardinality(S)
           /\ \A i \in 1 .. Cardinality(S) :
                /\ SortedBy(S, key)[i] \in S
                /\ Cardinality({y \in S : key[y] < key[SortedBy(S, key)[i]]}) = i - 1
<1> DEFINE N == Cardinality(S)
           Below(x) == {y \in S : key[y] < key[x]}
           rank == [x \in S |-> Cardinality(Below(x))]
<1>1. N \in Nat
  BY FS_CardinalityType
<1>2. \A x \in S : /\ IsFiniteSet(Below(x)) /\ Cardinality(Below(x)) \in Nat
                   /\ Cardinality(Below(x) \cup {x}) = Cardinality(Below(x)) + 1
                   /\ Below(x) \cup {x} \subseteq S /\ IsFiniteSet(Below(x) \cup {x})
  <2> SUFFICES ASSUME NEW x \in S
               PROVE  /\ IsFiniteSet(Below(x)) /\ Cardinality(Below(x)) \in Nat
                      /\ Cardinality(Below(x) \cup {x}) = Cardinality(Below(x)) + 1
                      /\ Below(x) \cup {x} \subseteq S /\ IsFiniteSet(Below(x) \cup {x})
    OBVIOUS
  <2>1. Below(x) \in SUBSET S /\ x \notin Below(x)
    OBVIOUS
  <2>2. IsFiniteSet(Below(x))
    BY <2>1, FS_Subset
  <2> HIDE DEF Below
  <2> QED  BY <2>1, <2>2, FS_AddElement, FS_CardinalityType
<1>3. \A x \in S : rank[x] \in 0 .. N - 1
  <2> SUFFICES ASSUME NEW x \in S PROVE rank[x] \in 0 .. N - 1
    OBVIOUS
  <2>1. Below(x) \cup {x} \in SUBSET S
    BY <1>2
  <2>2. Cardinality(Below(x) \cup {x}) <= N
    BY <2>1, FS_Subset
  <2>3. rank[x] = Cardinality(Below(x))
    OBVIOUS
  <2> HIDE DEF Below, rank
  <2> QED  BY <1>1, <1>2, <2>2, <2>3
<1>4. \A x, y \in S : key[x] < key[y] => rank[x] < rank[y]
  <2> SUFFICES ASSUME NEW x \in S, NEW y \in S, key[x] < key[y] PROVE rank[x] < rank[y]
    OBVIOUS
  <2>1. Below(x) \cup {x} \in SUBSET Below(y)
    OBVIOUS
  <2>2. Cardinality(Below(x) \cup {x}) <= Cardinality(Below(y))
    BY <2>1, <1>2, FS_Subset
  <2>3. rank[x] = Cardinality(Below(x)) /\ rank[y] = Cardinality(Below(y))
    OBVIOUS
  <2> HIDE DEF Below, rank
  <2>4. /\ Cardinality(Below(x)) \in Nat /\ Cardinality(Below(y)) \in Nat
        /\ Cardinality(Below(x) \cup {x}) = Cardinality(Below(x)) + 1
    BY <1>2
  <2> QED  BY <2>2, <2>3, <2>4
<1>5. rank \in Injection(S, 0 .. N - 1)
  <2>1. rank \in [S -> 0 .. N - 1]
    <3>1. rank = [x \in S |-> rank[x]]
      OBVIOUS
    <3> HIDE DEF rank
    <3> QED  BY <1>3, <3>1
  <2>2. ASSUME NEW x \in S, NEW y \in S, x # y PROVE rank[x] # rank[y]
    <3>1. key[x] < key[y] \/ key[y] < key[x]
      BY <2>2
    <3>2. rank[x] \in Int /\ rank[y] \in Int
      BY <1>1, <1>3
    <3> HIDE DEF rank
    <3> QED  BY <3>1, <3>2, <1>4
  <2> HIDE DEF rank
  <2> QED  BY <2>1, <2>2 DEF Injection, IsInjective
<1>6. rank \in Surjection(S, 0 .. N - 1)
  <2>1. IsFiniteSet(0 .. N - 1) /\ Cardinality(0 .. N - 1) = N
    BY <1>1, FS_Interval
  <2> HIDE DEF rank
  <2> QED  BY <1>5, <2>1, FS_Injection
<1>7. \A i \in 1 .. N : \E x \in S : Cardinality(Below(x)) = i - 1
  <2> SUFFICES ASSUME NEW i \in 1 .. N PROVE \E x \in S : Cardinality(Below(x)) = i - 1
    OBVIOUS
  <2>1. i - 1 \in 0 .. N - 1
    BY <1>1
  <2>2. \E x \in S : rank[x] = i - 1
    <3> HIDE DEF rank
    <3> QED  BY <1>6, <2>1 DEF Surjection
  <2> QED  BY <2>2
<1>8. SortedBy(S, key) = [i \in 1 .. N |-> CHOOSE x \in S : Cardinality(Below(x)) = i - 1]
  BY DEF SortedBy
<1>9. \A i \in 1 .. N : /\ SortedBy(S, key)[i] \in S
                        /\ Cardinality(Below(SortedBy(S, key)[i])) = i - 1
  <2> SUFFICES ASSUME NEW i \in 1 .. N
               PROVE  /\ SortedBy(S, key)[i] \in S
                      /\ Cardinality(Below(SortedBy(S, key)[i])) = i - 1
    OBVIOUS
  <2>1. SortedBy(S, key)[i] = CHOOSE x \in S : Cardinality(Below(x)) = i - 1
    BY <1>8
  <2> HIDE DEF Below
  <2> QED  BY <2>1, <1>7
<1>10. SortedBy(S, key) \in [1 .. N -> S]
  <2> HIDE DEF Below
  <2> QED  BY <1>8, <1>9
<1>11. SortedBy(S, key) \in Seq(S) /\ Len(SortedBy(S, key)) = N /\ DOMAIN SortedBy(S, key) = 1 .. N
  BY <1>1, <1>10
<1> QED  BY <1>1, <1>9, <1>11

\* Of the members of a set without gaps each is at its own place.
LEMMA SortedRun ==
    ASSUME NEW n \in Nat, NEW key, \A i \in 1 .. n : key[i] = i
    PROVE  SortedBy(1 .. n, key) = [i \in 1 .. n |-> i]
<1> DEFINE S == 1 .. n
           s == SortedBy(S, key)
<1>1. IsFiniteSet(S) /\ Cardinality(S) = n
  BY FS_Interval
<1>2. /\ DOMAIN s = 1 .. n /\ s \in Seq(S) /\ Len(s) = n
      /\ \A i \in 1 .. n : s[i] \in S /\ Cardinality({y \in S : key[y] < key[s[i]]}) = i - 1
  <2>1. \A x \in S : key[x] \in Int
    OBVIOUS
  <2>2. \A x, y \in S : x # y => key[x] # key[y]
    OBVIOUS
  <2> HIDE DEF S
  <2> QED  BY ZenonT(60), <1>1, <2>1, <2>2, SortedByIs
<1>3. ASSUME NEW i \in 1 .. n PROVE s[i] = i
  <2> DEFINE x == s[i]
  <2>1. x \in 1 .. n /\ Cardinality({y \in S : key[y] < key[x]}) = i - 1
    BY <1>2
  <2> HIDE DEF x
  <2>2. {y \in S : key[y] < key[x]} = 1 .. x - 1
    BY <2>1
  <2>3. Cardinality(1 .. x - 1) = x - 1
    BY <2>1, FS_Interval
  <2>4. x - 1 = i - 1
    BY <2>1, <2>2, <2>3
  <2>5. x = i
    BY <2>1, <2>4
  <2> QED  BY <2>5 DEF x
<1>4. s = [i \in 1 .. n |-> s[i]]
  BY SMTT(30), <1>2
<1> HIDE DEF s
<1>5. s = [i \in 1 .. n |-> i]
  BY <1>3, <1>4
<1> QED  BY <1>5 DEF s


LEMMA MinIs ==
    ASSUME NEW S \in SUBSET Nat, S # {}
    PROVE  Min(S) \in S /\ \A y \in S : Min(S) <= y
BY LeastExists DEF Min

LEMMA MaxOfTwo ==
    ASSUME NEW a \in Int, NEW b \in Int
    PROVE  Max({a, b}) = IF a >= b THEN a ELSE b
BY DEF Max

-----------------------------------------------------------------------------
(* What was posted. *)

LEMMA VolumesAre == Len(Blocks) \in Nat \ {0} /\ Volumes = 1 .. Len(Blocks) /\ IsFiniteSet(Volumes)
<1>1. Len(Blocks) \in Nat \ {0} /\ Volumes = 1 .. Len(Blocks)
  BY LayoutAssumption
<1>2. IsFiniteSet(1 .. Len(Blocks))
  BY <1>1, FS_Interval
<1> QED  BY <1>1, <1>2

Contents(v) == [j \in DOMAIN Blocks[v] |-> Blocks[v][j].size]

LEMMA BlocksAre ==
    ASSUME NEW v \in Volumes
    PROVE  /\ Len(Blocks[v]) \in Nat /\ DOMAIN Blocks[v] = 1 .. Len(Blocks[v])
           /\ Contents(v) \in Seq(Nat) /\ Len(Contents(v)) = Len(Blocks[v])
           /\ \A k \in 1 .. Len(Blocks[v]) : Contents(v)[k] = Blocks[v][k].size /\ Blocks[v][k].size \in Nat \ {0}
<1> DEFINE S == {Blocks[v][k] : k \in DOMAIN Blocks[v]}
<1>1. Blocks[v] \in Seq(S) /\ \A k \in DOMAIN Blocks[v] : Blocks[v][k].size \in Nat \ {0}
  BY LayoutAssumption
<1>2. Len(Blocks[v]) \in Nat /\ DOMAIN Blocks[v] = 1 .. Len(Blocks[v])
  <2> HIDE DEF S
  <2> QED  BY <1>1, LenProperties
<1>3. Contents(v) \in [1 .. Len(Blocks[v]) -> Nat]
  BY <1>1, <1>2 DEF Contents
<1>4. Contents(v) \in Seq(Nat) /\ Len(Contents(v)) = Len(Blocks[v])
  BY <1>2, <1>3
<1> QED  BY <1>1, <1>2, <1>4 DEF Contents

\* The headers of a volume lie where the data before them end.
LEMMA HeadersAre ==
    ASSUME NEW v \in Volumes
    PROVE  /\ HeaderAt(v, 1) = 0
           /\ \A k \in 1 .. Len(Blocks[v]) + 1 : HeaderAt(v, k) \in Nat
           /\ \A k \in 1 .. Len(Blocks[v]) : HeaderAt(v, k + 1) = HeaderAt(v, k) + 1 + Blocks[v][k].size
           /\ \A k \in 1 .. Len(Blocks[v]) + 1 : \A j \in 1 .. k : k - j <= HeaderAt(v, k) - HeaderAt(v, j)
           /\ SizeOf(v) \in Nat \ {0} /\ SizeOf(v) = HeaderAt(v, Len(Blocks[v]) + 1) + 1
<1> DEFINE n == Len(Blocks[v])
           s == Sums(Contents(v))
<1>1. /\ n \in Nat /\ Len(Contents(v)) = n
      /\ \A k \in 1 .. n : Contents(v)[k] = Blocks[v][k].size /\ Blocks[v][k].size \in Nat \ {0}
  BY BlocksAre
<1>2. s \in [0 .. n -> Int] /\ s[0] = 0 /\ \A i \in 1 .. n : s[i] = s[i - 1] + Contents(v)[i]
  <2>1. \A i \in 1 .. n : Contents(v)[i] \in Int
    BY <1>1
  <2> HIDE DEF n
  <2> QED  BY <1>1, <2>1, SumsAre
<1>3. \A j \in 0 .. n : \A i \in 0 .. j : s[i] <= s[j]
  <2>1. \A i \in 1 .. n : Contents(v)[i] \in Nat
    BY <1>1
  <2> HIDE DEF n
  <2> QED  BY <1>1, <2>1, SumsGrow
<1>4. \A k : HeaderAt(v, k) = k - 1 + s[k - 1]
  BY DEF HeaderAt, Contents
<1>5. SizeOf(v) = HeaderAt(v, n + 1) + 1
  BY DEF SizeOf
<1> HIDE DEF n, s
<1>6. HeaderAt(v, 1) = 0
  BY <1>2, <1>4
<1>7. ASSUME NEW k \in 1 .. n + 1 PROVE HeaderAt(v, k) \in Nat
  <2>1. k - 1 \in 0 .. n /\ 0 \in 0 .. k - 1
    BY <1>1
  <2>2. 0 <= s[k - 1] /\ s[k - 1] \in Int
    BY <2>1, <1>2, <1>3
  <2> QED  BY <2>1, <2>2, <1>4
<1>8. ASSUME NEW k \in 1 .. n PROVE HeaderAt(v, k + 1) = HeaderAt(v, k) + 1 + Blocks[v][k].size
  <2>1. k + 1 - 1 = k /\ k - 1 \in 0 .. n
    BY <1>1
  <2>2. s[k] = s[k - 1] + Blocks[v][k].size /\ s[k - 1] \in Int /\ s[k] \in Int
    BY SMTT(30), <1>1, <1>2, <2>1
  <2>3. HeaderAt(v, k + 1) = k + s[k] /\ HeaderAt(v, k) = k - 1 + s[k - 1]
    BY <1>4, <2>1
  <2>4. Blocks[v][k].size \in Nat
    BY <1>1
  <2> QED  BY <1>1, <2>2, <2>3, <2>4
<1>9. ASSUME NEW k \in 1 .. n + 1, NEW j \in 1 .. k PROVE k - j <= HeaderAt(v, k) - HeaderAt(v, j)
  <2>1. k - 1 \in 0 .. n /\ j - 1 \in 0 .. k - 1 /\ j - 1 \in 0 .. n
    BY <1>1
  <2>2. s[j - 1] <= s[k - 1] /\ s[j - 1] \in Int /\ s[k - 1] \in Int
    BY <2>1, <1>2, <1>3
  <2> QED  BY <2>1, <2>2, <1>4
<1>10. SizeOf(v) \in Nat \ {0}
  BY <1>1, <1>5, <1>7
<1> QED  BY <1>5, <1>6, <1>7, <1>8, <1>9, <1>10 DEF n

\* The articles of a volume, their lengths and where they begin.
LEMMA ArticlesAre ==
    ASSUME NEW v \in Volumes
    PROVE  \E n \in Nat \ {0} :
            /\ ArticlesOf(v) = 1 .. n
            /\ (n - 1) * ArticleSize < SizeOf(v) /\ SizeOf(v) <= n * ArticleSize
            /\ \A i \in 1 .. n : LengthOf(<<v, i>>) = IF i < n THEN ArticleSize ELSE SizeOf(v) - (n - 1) * ArticleSize
            /\ \A i \in 1 .. n : LengthOf(<<v, i>>) \in 1 .. ArticleSize
<1> DEFINE A == ArticleSize
           s == SizeOf(v)
           n == (s + A - 1) \div A
<1>1. A \in Nat \ {0} /\ s \in Nat \ {0}
  BY LayoutAssumption, HeadersAre
<1>2. n \in Int /\ n * A <= s + A - 1 /\ s + A - 1 < (n + 1) * A
  <2> HIDE DEF A, s
  <2> QED  BY <1>1
<1>3. ArticlesOf(v) = 1 .. n
  BY DEF ArticlesOf
<1>0. \A i \in 1 .. n : LengthOf(<<v, i>>) = Min({A, s - (i - 1) * A})
  BY DEF LengthOf
<1> HIDE DEF A, s, n
<1>4. (n - 1) * A = n * A - A /\ (n + 1) * A = n * A + A /\ n * A \in Int
  BY <1>1, <1>2
<1>5. (n - 1) * A < s /\ s <= n * A
  BY <1>1, <1>2, <1>4
<1>6. n \in Nat \ {0}
  <2>1. n * A >= 1
    BY <1>1, <1>4, <1>5
  <2>2. n > 0
    <3> SUFFICES ASSUME n <= 0 PROVE FALSE
      BY <1>2
    <3>1. n * A <= 0
      BY <1>1, <1>2
    <3> QED  BY <1>1, <1>4, <2>1, <3>1
  <2> QED  BY <1>2, <2>2
<1>7. ASSUME NEW i \in 1 .. n
      PROVE  /\ LengthOf(<<v, i>>) = IF i < n THEN A ELSE s - (n - 1) * A
             /\ LengthOf(<<v, i>>) \in 1 .. A
  <2>1. (i - 1) * A \in Int /\ i * A \in Int /\ i * A = (i - 1) * A + A
    BY <1>1, <1>6
  <2>2. s - (i - 1) * A \in Int
    BY <1>1, <2>1
  <2>3. LengthOf(<<v, i>>) = IF A <= s - (i - 1) * A THEN A ELSE s - (i - 1) * A
    <3>1. A \in Int
      BY <1>1
    <3>2. Min({A, s - (i - 1) * A}) = IF A <= s - (i - 1) * A THEN A ELSE s - (i - 1) * A
      BY <3>1, <2>2, MinOfTwo
    <3> QED  BY <3>2, <1>0
  <2>4. CASE i < n
    <3>1. i <= n - 1
      BY <2>4, <1>6
    <3>2. i * A <= (n - 1) * A
      BY <3>1, <1>1, <1>6
    <3> QED  BY <1>1, <1>4, <1>5, <2>1, <2>3, <2>4, <3>2
  <2>5. CASE i = n
    BY <1>1, <1>4, <1>5, <2>1, <2>3, <2>5
  <2> QED  BY <1>6, <2>4, <2>5
<1> QED  BY <1>3, <1>5, <1>6, <1>7 DEF A, s


-----------------------------------------------------------------------------
(* The types of the variables. *)

Uploaded ==
    /\ upload.form \in Forms
    /\ upload.number \in [Volumes -> Volumes] /\ \A v, w \in Volumes : v # w => upload.number[v] # upload.number[w]
    /\ Listed(1) # {}

WalkTypes ==
    /\ walk \in [Volumes -> {walk[v] : v \in Volumes}]
    /\ \A v \in Volumes : walk[v].status \in {"new", "ok", "over"}
    /\ parts \in [Volumes -> {parts[v] : v \in Volumes}]
    /\ \A v \in Volumes : /\ parts[v] \in Seq({parts[v][i] : i \in DOMAIN parts[v]})
                          /\ \A i \in DOMAIN parts[v] : parts[v][i].file \in FilesInside

LayoutTypes ==
    /\ Uploaded /\ WalkTypes
    /\ stage \in {"new", "enriched", "headers", "built", "failed"}
    /\ sizes \in [article: Nat, file: Nat, last: Nat] \cup {NoSizes}

\* The volumes that have a listed article.
LEMMA GroupIs ==
    ASSUME Uploaded
    PROVE  /\ Group \subseteq Volumes /\ Group # {} /\ IsFiniteSet(Group)
           /\ \A v \in Group : Listed(v) # {}
           /\ \A v \in Volumes : Listed(v) \subseteq ArticlesOf(v) /\ IsFiniteSet(Listed(v))
<1>1. 1 \in Volumes
  BY VolumesAre
<1>2. Group \in SUBSET Volumes /\ Group # {} /\ \A v \in Group : Listed(v) # {}
  BY <1>1 DEF Group, Uploaded
<1>3. IsFiniteSet(Group)
  BY <1>2, VolumesAre, FS_Subset
<1>4. ASSUME NEW v \in Volumes PROVE Listed(v) \subseteq ArticlesOf(v) /\ IsFiniteSet(Listed(v))
  <2>1. PICK n \in Nat : ArticlesOf(v) = 1 .. n
    BY ArticlesAre
  <2>2. IsFiniteSet(ArticlesOf(v))
    BY <2>1, FS_Interval
  <2>3. Listed(v) \in SUBSET ArticlesOf(v)
    BY DEF Listed
  <2> QED  BY <2>2, <2>3, FS_Subset
<1> QED  BY <1>2, <1>3, <1>4

\* Volumes by their numbers.
LEMMA NumberedIs ==
    ASSUME Uploaded, NEW V \in SUBSET Volumes
    PROVE  /\ Cardinality(V) \in Nat /\ (V # {} => Cardinality(V) >= 1)
           /\ Numbered(V) \in Seq(V) /\ Len(Numbered(V)) = Cardinality(V) /\ DOMAIN Numbered(V) = 1 .. Cardinality(V)
           /\ \A i \in 1 .. Cardinality(V) : Numbered(V)[i] \in V
<1>1. IsFiniteSet(V)
  BY VolumesAre, FS_Subset
<1>2. \A x \in V : upload.number[x] \in Int
  BY VolumesAre DEF Uploaded
<1>3. \A x, y \in V : x # y => upload.number[x] # upload.number[y]
  BY DEF Uploaded
<1>4. V # {} => Cardinality(V) >= 1
  BY <1>1, FS_EmptySet, FS_CardinalityType
<1>5. Cardinality(V) \in Nat
  BY <1>1, FS_CardinalityType
<1> QED  BY <1>1, <1>2, <1>3, <1>4, <1>5, SortedByIs DEF Numbered

LEMMA FirstIs ==
    ASSUME Uploaded, NEW v \in Volumes, Listed(v) # {}
    PROVE  LengthOf(First(v)) \in Nat /\ SizeOf(v) \in Nat
<1>1. PICK n \in Nat \ {0} : ArticlesOf(v) = 1 .. n /\ \A i \in 1 .. n : LengthOf(<<v, i>>) \in 1 .. ArticleSize
  BY ArticlesAre
<1>2. Listed(v) \in SUBSET Nat /\ Listed(v) \subseteq 1 .. n
  BY <1>1, GroupIs
<1>3. Min(Listed(v)) \in 1 .. n
  BY <1>2, MinIs
<1>4. LengthOf(First(v)) \in 1 .. ArticleSize
  BY <1>1, <1>3 DEF First
<1> QED  BY <1>4, HeadersAre

LEMMA ReferenceIs ==
    ASSUME Uploaded
    PROVE  Reference \in Group /\ Last(Numbered(Group)) \in Group
<1> DEFINE most == {v \in Group : \A w \in Group : Cardinality(Listed(w)) <= Cardinality(Listed(v))}
<1>1. Group \in SUBSET Volumes /\ Group # {}
  BY GroupIs
<1>2. \A v \in Group : Cardinality(Listed(v)) \in Nat
  BY GroupIs, FS_CardinalityType
<1>3. most # {}
  <2>1. DEFINE counts == {Cardinality(Listed(v)) : v \in Group}
  <2>2. IsFiniteSet(counts)
    <3>1. \A v \in Group : v \in Volumes
      BY <1>1
    <3> DEFINE f == [v \in Group |-> Cardinality(Listed(v))]
    <3>2. f \in Surjection(Group, counts)
      BY DEF Surjection
    <3> QED  BY <3>2, GroupIs, FS_Surjection
  <2>3. counts \in SUBSET Nat /\ counts # {}
    BY <1>1, <1>2
  <2> DEFINE id == [c \in counts |-> c]
             m == SortedBy(counts, id)[Cardinality(counts)]
             below == {y \in counts : id[y] < id[m]}
  <2>4. \A x \in counts : id[x] \in Int
    BY <2>3
  <2>5. \A x, y \in counts : x # y => id[x] # id[y]
    OBVIOUS
  <2>6. Cardinality(counts) \in Nat /\ Cardinality(counts) >= 1
    BY <2>2, <2>3, FS_CardinalityType, FS_EmptySet
  <2>7. m \in counts /\ Cardinality(below) = Cardinality(counts) - 1
    <3> HIDE DEF counts, id
    <3> QED  BY <2>2, <2>4, <2>5, <2>6, SortedByIs
  <2>8. Cardinality(counts \ {m}) = Cardinality(counts) - 1 /\ IsFiniteSet(counts \ {m})
    <3> HIDE DEF counts, m
    <3> QED  BY <2>2, <2>7, FS_RemoveElement
  <2>9. below \in SUBSET (counts \ {m})
    <3> HIDE DEF counts, m
    <3> QED  BY <2>3, <2>7
  <2>10. below = counts \ {m}
    <3> HIDE DEF counts, m, below
    <3> QED  BY <2>7, <2>8, <2>9, FS_Subset
  <2>11. \A y \in counts : y <= m
    <3> SUFFICES ASSUME NEW y \in counts PROVE y <= m
      OBVIOUS
    <3>1. y \in below \/ y = m
      <4> HIDE DEF counts, m, below
      <4> QED  BY <2>10
    <3>2. y \in Nat /\ m \in Nat
      <4> HIDE DEF counts, m
      <4> QED  BY <2>3, <2>7
    <3> HIDE DEF counts, m
    <3> QED  BY <3>1, <3>2, <2>7
  <2>12. PICK v \in Group : m = Cardinality(Listed(v))
    <3> HIDE DEF m
    <3> QED  BY <2>7
  <2>13. v \in most
    <3> HIDE DEF m
    <3> QED  BY <2>11, <2>12
  <2> QED  BY <2>13
<1>4. most \in SUBSET Volumes
  BY <1>1
<1>5. Numbered(most) \in Seq(most) /\ Numbered(most) # <<>>
  <2> HIDE DEF most
  <2>1. Numbered(most) \in Seq(most) /\ Len(Numbered(most)) >= 1
    BY <1>3, <1>4, NumberedIs
  <2> QED  BY <2>1
<1>6. Reference \in most
  <2>1. Reference = Head(Numbered(most))
    BY DEF Reference
  <2> HIDE DEF most
  <2> QED  BY <2>1, <1>5, HeadTailProperties
<1>7. Last(Numbered(Group)) \in Group
  BY <1>1, NumberedIs DEF Last
<1> QED  BY <1>6, <1>7


LEMMA LayoutTypesInit == LayoutInit => LayoutTypes
<1> SUFFICES ASSUME LayoutInit PROVE LayoutTypes
  OBVIOUS
<1>1. Uploaded
  BY DEF LayoutInit, Uploaded
<1>2. WalkTypes
  <2>1. walk = [v \in Volumes |-> [status |-> "new"]] /\ parts = [v \in Volumes |-> <<>>]
    BY DEF LayoutInit
  <2>2. <<>> \in Seq({}) /\ DOMAIN <<>> = {}
    OBVIOUS
  <2>3. \A v \in Volumes : {parts[v][i] : i \in DOMAIN parts[v]} = {}
    BY <2>1, <2>2
  <2>4. \A v \in Volumes : walk[v].status = "new"
    BY <2>1
  <2>5. walk \in [Volumes -> {walk[v] : v \in Volumes}] /\ parts \in [Volumes -> {parts[v] : v \in Volumes}]
    BY <2>1
  <2>6. \A v \in Volumes : parts[v] \in Seq({parts[v][i] : i \in DOMAIN parts[v]})
    BY <2>1, <2>2, <2>3
  <2>7. \A v \in Volumes : DOMAIN parts[v] = {}
    BY <2>1, <2>2
  <2> QED  BY <2>4, <2>5, <2>6, <2>7 DEF WalkTypes
<1> QED  BY <1>1, <1>2 DEF LayoutInit, LayoutTypes

LEMMA UploadedStays == ASSUME Uploaded, UNCHANGED upload PROVE Uploaded'
BY DEF Uploaded, Listed

\* What a reader has after it skips has a status, which is "ok" or not.
LEMMA ReadHeaderTypes ==
    ASSUME LayoutTypes, NEW v \in Volumes, ReadHeader(v)
    PROVE  WalkTypes'
<1> USE DEF LayoutTypes, WalkTypes
<1> DEFINE r     == IF walk[v].status = "new" THEN Reader(v) ELSE walk[v]
           h     == IF r.held = NoArticle \/ r.off >= LengthOf(r.held) THEN Load(r) ELSE r
           block == HeaderHere(v, h)
           b     == Blocks[v][CHOOSE k \in block : TRUE]
           next  == SkipBytes([h EXCEPT !.off = @ + 1, !.pos = @ + 1], b.size)
           new   == IF block # {} /\ next.status = "ok" THEN next ELSE Walked
           found == IF block = {} THEN parts[v]
                    ELSE IF next.status = "error" THEN <<>> ELSE Append(parts[v], PartAt(b, h))
<1>1. walk' = [walk EXCEPT ![v] = new] /\ parts' = [parts EXCEPT ![v] = found]
  BY DEF ReadHeader
<1>2. new.status \in {"ok", "over"}
  <2> HIDE DEF next, block
  <2> QED  BY DEF Walked
<1>3. block # {} => b.file \in FilesInside
  <2> SUFFICES ASSUME block # {} PROVE b.file \in FilesInside
    OBVIOUS
  <2>1. (CHOOSE k \in block : TRUE) \in block
    OBVIOUS
  <2>2. (CHOOSE k \in block : TRUE) \in DOMAIN Blocks[v]
    <3>1. block \subseteq DOMAIN Blocks[v]
      BY DEF HeaderHere
    <3> HIDE DEF block
    <3> QED  BY <2>1, <3>1
  <2> DEFINE k == CHOOSE j \in block : TRUE
  <2>3. b = Blocks[v][k] /\ k \in DOMAIN Blocks[v]
    BY <2>2
  <2> HIDE DEF k, b
  <2> QED  BY SMTT(30), <2>3 DEF FilesInside
<1>4. found \in Seq({found[i] : i \in DOMAIN found}) /\ \A i \in DOMAIN found : found[i].file \in FilesInside
  <2> DEFINE p == PartAt(b, h)
             S == {parts[v][i] : i \in DOMAIN parts[v]}
  <2>0. p.file = b.file
    BY DEF PartAt
  <2> HIDE DEF block, b, h, next, p
  <2>1. CASE block = {}
    BY <2>1
  <2>2. CASE block # {} /\ next.status = "error"
    <3>1. found = <<>>
      BY <2>2
    <3>2. <<>> \in Seq({<<>>[i] : i \in DOMAIN <<>>}) /\ DOMAIN <<>> = {}
      OBVIOUS
    <3> HIDE DEF found
    <3> QED  BY <3>1, <3>2
  <2>3. CASE block # {} /\ next.status # "error"
    <3>1. found = Append(parts[v], p)
      BY <2>3 DEF p
    <3>2. parts[v] \in Seq(S)
      OBVIOUS
    <3> DEFINE n == Len(parts[v])
    <3>3. /\ n \in Nat /\ DOMAIN parts[v] = 1 .. n
          /\ parts[v] \in Seq(S \cup {p})
      <4> HIDE DEF S
      <4> QED  BY <3>2, LenProperties, SeqMonotonic
    <3>4. /\ found \in Seq(S \cup {p}) /\ DOMAIN found = 1 .. n + 1 /\ Len(found) = n + 1
          /\ \A i \in 1 .. n : found[i] = parts[v][i]
          /\ found[n + 1] = p
      <4> HIDE DEF S, found
      <4> QED  BY <3>1, <3>3, AppendProperties, LenProperties
    <3> HIDE DEF found, n
    <3>5. \A i \in 1 .. n + 1 : found[i].file \in FilesInside
      <4> SUFFICES ASSUME NEW i \in 1 .. n + 1 PROVE found[i].file \in FilesInside
        OBVIOUS
      <4>1. CASE i = n + 1
        BY <4>1, <3>4, <2>0, <2>3, <1>3
      <4>2. CASE i # n + 1
        <5>1. i \in 1 .. n
          BY SMTT(30), <4>2, <3>3
        <5>2. found[i] = parts[v][i]
          BY <5>1, <3>4
        <5> QED  BY <5>1, <5>2, <3>3
      <4> QED  BY <4>1, <4>2
    <3>6. found \in [1 .. n + 1 -> {found[i] : i \in 1 .. n + 1}]
      <4>1. found = [i \in 1 .. n + 1 |-> found[i]]
        BY <3>3, <3>4
      <4> QED  BY <4>1
    <3> DEFINE T == {found[i] : i \in 1 .. n + 1}
               m == n + 1
    <3>8. m \in Nat /\ found \in [1 .. m -> T]
      BY SMTT(30), <3>3, <3>6
    <3>7. found \in Seq(T)
      <4> HIDE DEF T, m
      <4> QED  BY <3>8, ListIsSeq
    <3> QED  BY <3>4, <3>5, <3>7
  <2> QED  BY <2>1, <2>2, <2>3
<1> HIDE DEF new, found
<1>5. /\ DOMAIN walk' = Volumes /\ DOMAIN parts' = Volumes
      /\ \A w \in Volumes : w # v => walk'[w] = walk[w] /\ parts'[w] = parts[w]
      /\ walk'[v] = new /\ parts'[v] = found
  BY <1>1
<1>6. walk' \in [Volumes -> {walk'[w] : w \in Volumes}] /\ parts' \in [Volumes -> {parts'[w] : w \in Volumes}]
  <2>1. walk' = [w \in Volumes |-> walk'[w]] /\ parts' = [w \in Volumes |-> parts'[w]]
    BY <1>1
  <2> QED  BY <2>1
<1>7. \A w \in Volumes : walk'[w].status \in {"new", "ok", "over"}
  BY <1>2, <1>5
<1>8. ASSUME NEW w \in Volumes
      PROVE  /\ parts'[w] \in Seq({parts'[w][i] : i \in DOMAIN parts'[w]})
             /\ \A i \in DOMAIN parts'[w] : parts'[w][i].file \in FilesInside
  <2>1. CASE w = v
    BY <2>1, <1>4, <1>5
  <2>2. CASE w # v
    <3>1. parts'[w] = parts[w]
      BY <2>2, <1>5
    <3> QED  BY <3>1
  <2> QED  BY <2>1, <2>2
<1>9. FilesInside' = FilesInside /\ Volumes' = Volumes
  BY DEF FilesInside
<1> QED  BY <1>6, <1>7, <1>8, <1>9

LEMMA LayoutTypesNext == LayoutTypes /\ [LayoutNext]_layoutVars => LayoutTypes'
<1> SUFFICES ASSUME LayoutTypes, [LayoutNext]_layoutVars PROVE LayoutTypes'
  OBVIOUS
<1>0. UNCHANGED upload => Uploaded'
  BY UploadedStays DEF LayoutTypes
<1>w. UNCHANGED <<walk, parts>> => WalkTypes'
  BY DEF LayoutTypes, WalkTypes
<1>1. CASE Enrich
  <2>1. Reference \in Group /\ Last(Numbered(Group)) \in Group
    BY ReferenceIs DEF LayoutTypes
  <2> DEFINE last == Last(Numbered(Group))
  <2>2. Reference \in Volumes /\ Listed(Reference) # {} /\ last \in Volumes
    BY <2>1, GroupIs DEF LayoutTypes
  <2>3. LengthOf(First(Reference)) \in Nat /\ SizeOf(Reference) \in Nat /\ SizeOf(last) \in Nat
    BY <2>2, FirstIs, HeadersAre DEF LayoutTypes
  <2> HIDE DEF last
  <2>4. sizes' \in [article: Nat, file: Nat, last: Nat] \cup {NoSizes} /\ stage' \in {"enriched", "failed"}
    <3>1. \/ sizes' = [article |-> LengthOf(First(Reference)), file |-> SizeOf(Reference), last |-> SizeOf(last)] /\ stage' = "enriched"
          \/ sizes' = sizes /\ stage' = "failed"
      BY <1>1 DEF Enrich, last
    <3> QED  BY <3>1, <2>3 DEF LayoutTypes
  <2>5. UNCHANGED <<upload, walk, parts>>
    BY <1>1 DEF Enrich
  <2> QED  BY <1>0, <1>w, <2>4, <2>5 DEF LayoutTypes
<1>2. CASE Detect
  <2>1. UNCHANGED <<upload, sizes, walk, parts>> /\ stage' \in {"headers", "failed"}
    BY <1>2 DEF Detect
  <2> QED  BY <1>0, <1>w, <2>1 DEF LayoutTypes
<1>3. CASE \E v \in Volumes : ReadHeader(v)
  <2>1. WalkTypes'
    BY <1>3, ReadHeaderTypes
  <2>2. UNCHANGED <<upload, sizes, stage>>
    BY <1>3 DEF ReadHeader
  <2> QED  BY <1>0, <2>1, <2>2 DEF LayoutTypes
<1>4. CASE AssembleRar \/ Assemble7z \/ AssembleRarIn7z \/ AssembleZip \/ AssembleMedia
  <2>1. UNCHANGED <<upload, sizes, walk, parts>> /\ stage' \in {"built", "failed"}
    <3>1. AssembleRar => UNCHANGED <<upload, sizes, walk, parts>> /\ stage' \in {"built", "failed"}
      BY DEF AssembleRar
    <3>2. Assemble7z => UNCHANGED <<upload, sizes, walk, parts>> /\ stage' \in {"built", "failed"}
      BY DEF Assemble7z
    <3>3. AssembleRarIn7z => UNCHANGED <<upload, sizes, walk, parts>> /\ stage' \in {"built", "failed"}
      BY DEF AssembleRarIn7z
    <3>4. AssembleZip => UNCHANGED <<upload, sizes, walk, parts>> /\ stage' \in {"built", "failed"}
      BY DEF AssembleZip
    <3>5. AssembleMedia => UNCHANGED <<upload, sizes, walk, parts>> /\ stage' \in {"built", "failed"}
      BY DEF AssembleMedia
    <3> QED  BY <1>4, <3>1, <3>2, <3>3, <3>4, <3>5
  <2> QED  BY <1>0, <1>w, <2>1 DEF LayoutTypes
<1>5. CASE UNCHANGED layoutVars
  BY <1>0, <1>w, <1>5 DEF LayoutTypes, layoutVars
<1> QED  BY <1>1, <1>2, <1>3, <1>4, <1>5 DEF LayoutNext

THEOREM LayoutTypeCorrect == LayoutSpec => []LayoutTypeOK
<1>1. LayoutTypes => LayoutTypeOK
  BY DEF LayoutTypes, WalkTypes, LayoutTypeOK
<1> QED  BY <1>1, LayoutTypesInit, LayoutTypesNext, PTL DEF LayoutSpec

-----------------------------------------------------------------------------
(* The types of the parts *)

\* The channel of a download never holds more than it was made for.
ChannelFits == cancelled \in BOOLEAN /\ Len(channel) <= 2 * Fetchers

LEMMA ChannelStaysFit == DownloadInv /\ ChannelFits /\ [DownloadNext]_downloadVars => ChannelFits'
<1> SUFFICES ASSUME DownloadInv, ChannelFits, [DownloadNext]_downloadVars PROVE ChannelFits'
  OBVIOUS
<1>1. Fetchers \in Nat /\ channel \in Seq(Parts \X Outcomes) /\ Len(channel) \in Nat
  BY DownloadAssumption DEF DownloadInv, DTypes
<1>2. CASE CancelDownload
  BY <1>2 DEF CancelDownload, ChannelFits
<1>3. CASE StartFetch \/ WriteSegment \/ Missed \/ Return
  BY <1>3 DEF StartFetch, WriteSegment, Missed, Return, ChannelFits
<1>4. ASSUME NEW p \in Parts, Skip(p) \/ AskFor(p) \/ FetchSegment(p) PROVE ChannelFits'
  BY <1>4 DEF Skip, AskFor, FetchSegment, ChannelFits
<1>5. ASSUME NEW p \in Parts, Send(p) PROVE ChannelFits'
  <2>1. channel' = Append(channel, <<p, fetching[p]>>) /\ Len(channel) < 2 * Fetchers /\ cancelled' = cancelled
    BY <1>5 DEF Send
  <2>2. fetching[p] \in Outcomes
    BY <1>5 DEF Send, Outcomes
  <2>3. Len(channel') = Len(channel) + 1
    BY <1>1, <2>1, <2>2
  <2>4. 2 * Fetchers \in Nat
    BY <1>1
  <2> QED  BY <1>1, <2>1, <2>3, <2>4 DEF ChannelFits
<1>6. CASE Receive
  <2>1. channel # <<>> /\ channel' = Tail(channel) /\ cancelled' = cancelled
    BY <1>6 DEF Receive
  <2>2. Len(channel') = Len(channel) - 1
    BY <1>1, <2>1
  <2>3. 2 * Fetchers \in Nat
    BY <1>1
  <2> QED  BY <1>1, <2>1, <2>2, <2>3 DEF ChannelFits
<1>7. CASE UNCHANGED downloadVars
  BY <1>7 DEF downloadVars, ChannelFits
<1> QED  BY <1>2, <1>3, <1>4, <1>5, <1>6, <1>7 DEF DownloadNext

LEMMA DownloadTypes == DownloadSpec => []DownloadTypeOK
<1>1. DownloadInit => ChannelFits
  <2>1. Len(<<>>) = 0 /\ 0 <= 2 * Fetchers /\ FALSE \in BOOLEAN
    BY DownloadAssumption
  <2> QED  BY <2>1 DEF DownloadInit, ChannelFits
<1>2. DownloadInv /\ ChannelFits => DownloadTypeOK
  BY DEF DownloadInv, DTypes, ChannelFits, DownloadTypeOK
<1> QED  BY <1>1, <1>2, DownloadInvInit, DownloadKeeps, ChannelStaysFit, PTL DEF DownloadSpec

\* A stream that rests has no entry.
NoneInHand == failed \in BOOLEAN /\ \A s \in Streams : stream[s].pc \in {"idle", "create"} => stream[s].e = NoEntry

LEMMA NoneInHandKeeps == ReadersInv /\ NoneInHand /\ [ReadersNext]_readersVars => NoneInHand'
<1> SUFFICES ASSUME ReadersInv, NoneInHand, [ReadersNext]_readersVars PROVE NoneInHand'
  OBVIOUS
<1>0. DOMAIN stream = Streams
  BY DEF ReadersInv, RTypes
<1>1. ASSUME NEW s \in Streams, NEW pc, NEW e, Goes(s, pc, e), pc \in {"idle", "create"} => e = NoEntry, failed' \in BOOLEAN
      PROVE  NoneInHand'
  <2>1. \A r \in Streams : stream'[r] = IF r = s THEN [pc |-> pc, e |-> e] ELSE stream[r]
    BY <1>0, <1>1 DEF Goes
  <2> QED  BY <1>1, <2>1 DEF NoneInHand
<1>2. ASSUME NEW s \in Streams, LookUp(s) \/ CannotCreate(s) \/ Create(s) \/ Count(s) \/ Open(s) \/ GivesBack(s)
      PROVE  NoneInHand'
  <2>1. \E pc, e : Goes(s, pc, e) /\ (pc \in {"idle", "create"} => e = NoEntry)
    <3>1. CASE LookUp(s)
      BY <3>1 DEF LookUp
    <3>2. CASE CannotCreate(s) \/ GivesBack(s)
      BY <3>2 DEF CannotCreate, GivesBack
    <3>3. CASE Create(s)
      BY <3>3 DEF Create
    <3>4. CASE Count(s)
      BY <3>4 DEF Count
    <3>5. CASE Open(s)
      <4>1. PICK pc \in {"release", "read"} : Goes(s, pc, stream[s].e)
        BY <3>5 DEF Open
      <4> QED  BY <4>1
    <3> QED  BY <1>2, <3>1, <3>2, <3>3, <3>4, <3>5
  <2>2. failed' = failed
    BY <1>2 DEF LookUp, CannotCreate, Create, Count, Open, GivesBack
  <2> QED  BY <1>1, <2>1, <2>2 DEF NoneInHand
<1>3. ASSUME NEW s \in Streams, UseEnds(s) PROVE NoneInHand'
  <2>1. Goes(s, "release", stream[s].e) /\ failed' \in {failed, TRUE}
    BY <1>3 DEF UseEnds
  <2> QED  BY <1>1, <2>1 DEF NoneInHand
<1>4. CASE Age \/ LooksAt \/ Judges \/ Cleans \/ Drops \/ CloseReaders \/ ClearMap \/ UNCHANGED readersVars
  <2>1. stream' = stream /\ failed' = failed
    BY <1>4 DEF Age, LooksAt, Judges, Cleans, Drops, CloseReaders, ClearMap, readersVars
  <2> QED  BY <2>1 DEF NoneInHand
<1> QED  BY <1>2, <1>3, <1>4 DEF ReadersNext

LEMMA ReadersTypes == ReadersSpec => []ReadersTypeOK
<1>1. ReadersInit => NoneInHand
  <2>1. ReadersInit => failed = FALSE /\ \A s \in Streams : stream[s].e = NoEntry
    BY DEF ReadersInit, Idle
  <2> QED  BY <2>1 DEF NoneInHand
<1>2. ReadersInv /\ NoneInHand => ReadersTypeOK
  <2> SUFFICES ASSUME ReadersInv, NoneInHand PROVE ReadersTypeOK
    OBVIOUS
  <2>1. RTypes /\ NoEntry \notin Entries
    BY ReadersAssumption DEF ReadersInv
  <2>2. \A e \in Entries : entry[e] \in EntryRecords
    BY <2>1 DEF RTypes
  <2>3. \A s \in Streams : /\ stream[s].pc \in {"idle", "create", "count", "open", "read", "release"}
                           /\ stream[s].e \in Entries <=> stream[s].pc \notin {"idle", "create"}
    BY <2>1 DEF RTypes, NoneInHand
  <2> QED  BY <2>1, <2>2, <2>3 DEF RTypes, NoneInHand, EntryRecords, ReadersTypeOK
<1> QED  BY <1>1, <1>2, ReadersInvInit, ReadersKeep, NoneInHandKeeps, PTL DEF ReadersSpec

LEMMA NzbTypesHold == NzbSpec => []NzbTypeOK
<1>1. NzbInv => NzbTypeOK
  <2> SUFFICES ASSUME NzbInv PROVE NzbTypeOK
    OBVIOUS
  <2>1. NzbTypes
    BY DEF NzbInv
  <2>2. ToSet(jobs) \subseteq used
    BY <2>1, Places DEF NzbTypes
  <2>3. \A g \in Jobs : IdOf(g) \in used \cup {NoId} /\ step[g].todo \subseteq Names /\ step[g].made \subseteq used
    BY <2>1 DEF NzbTypes, NzbStep, IdOf
  <2> QED  BY <2>1, <2>2, <2>3 DEF NzbTypes, NzbTypeOK
<1> QED  BY <1>1, NzbStarts, NzbKeeps, PTL DEF NzbSpec


-----------------------------------------------------------------------------
(* The checks *)

CheckRecord  == [pc : {"new", "running", "done"}, chunks : Seq(SUBSET Segments), found : SUBSET Segments,
                 missing : SUBSET Segments, cancelled : BOOLEAN, verdict : {"none", "fine", "missing"}]
WorkerRecord == [pc : {"off", "bank", "free", "drain", "stat"}, chunk : SUBSET Segments, next : 1 .. Len(Providers) + 1,
                 open : SUBSET Segments, notFound : SUBSET (Segments \X Sources), otherErr : SUBSET Segments]

\* The workers that have a token.
Holders == {w \in Workers : worker[w].pc \in {"free", "stat"}}

\* The tokens are in the bank or with a worker; a call that has not begun has
\* no worker.
CTypes ==
    /\ gone \subseteq Segments \X Sources
    /\ check \in [Checks -> CheckRecord] /\ worker \in [Workers -> WorkerRecord]
    /\ \A w \in Workers : worker[w].open \subseteq worker[w].chunk
    /\ \A w \in Workers : check[CallOf(w)].pc = "new" => worker[w].pc = "off"
    /\ IF BankCapacity = 0 THEN tokens = 0 ELSE tokens \in Nat /\ tokens + Cardinality(Holders) = BankCapacity

LEMMA WorkersAre == IsFiniteSet(Workers) /\ (\A w \in Workers : CallOf(w) \in Checks) /\ IsFiniteSet(Holders)
<1>1. MaxWorkers \in Nat
  BY ChecksAssumption DEF MaxWorkers
<1>2. IsFiniteSet(1 .. MaxWorkers) /\ IsFiniteSet(Checks)
  BY <1>1, ChecksAssumption, FS_Interval
<1>3. IsFiniteSet(Workers)
  BY <1>2, FS_Product DEF Workers
<1>4. Holders \in SUBSET Workers
  BY DEF Holders
<1> QED  BY <1>3, <1>4, FS_Subset DEF Workers, CallOf

LEMMA ProvidersAre == Len(Providers) \in Nat /\ \A i \in 1 .. Len(Providers) : Source[Providers[i]] \in Sources
<1>1. Providers \in Seq(Hosts)
  BY ChecksAssumption
<1>2. Len(Providers) \in Nat /\ \A i \in 1 .. Len(Providers) : Providers[i] \in Hosts
  BY <1>1
<1> QED  BY <1>2 DEF Sources

\* A sample is one of the segments.
LEMMA SampleIs == Sample \subseteq Segments
<1> DEFINE t == (Total * Percent) \div 100
           target == Max({2, t})
<1>0. Total \in Nat \ {0} /\ Percent \in Nat
  BY ChecksAssumption
<1>1. t \in Nat
  <2>1. Total * Percent \in Nat
    BY <1>0
  <2> QED  BY <2>1
<1>2. target \in Nat /\ target >= 2
  BY <1>1 DEF Max
<1>3. Sample = IF Percent >= 100 \/ Total <= 3 THEN Segments ELSE {1, Total} \cup Between(target - 2)
  BY DEF Sample
<1> HIDE DEF target
<1>4. ASSUME Total > 3, NEW k \in Nat PROVE Between(k) \subseteq Segments
  <2> SUFFICES ASSUME NEW i \in 1 .. k PROVE ((Total - 2) * i) \div (k + 1) + 2 \in Segments
    BY DEF Between
  <2> DEFINE a == (Total - 2) * i
             q == a \div (k + 1)
  <2>1. Total - 2 \in Nat /\ a \in Nat
    BY <1>0, <1>4
  <2>2. a <= (Total - 2) * (k + 1)
    BY <2>1
  <2> HIDE DEF a
  <2>3. q \in Nat /\ q * (k + 1) <= a
    BY <2>1
  <2> HIDE DEF q
  <2>4. q <= Total - 2
    <3> SUFFICES ASSUME q >= Total - 2 + 1 PROVE FALSE
      BY <2>1, <2>3
    <3>1. q * (k + 1) >= (Total - 2 + 1) * (k + 1)
      BY <2>1, <2>3
    <3>2. (Total - 2 + 1) * (k + 1) = (Total - 2) * (k + 1) + (k + 1)
      BY <2>1
    <3>3. (Total - 2) * (k + 1) \in Nat
      BY <2>1
    <3> QED  BY <2>1, <2>2, <2>3, <3>1, <3>2, <3>3
  <2>5. q + 2 \in Segments
    BY <1>0, <2>3, <2>4 DEF Segments
  <2> QED  BY <2>5 DEF q, a
<1> QED  BY <1>0, <1>2, <1>3, <1>4 DEF Segments

LEMMA ChunksAre == ChunksOf(Sample) \in Seq(SUBSET Segments)
<1> DEFINE n == (Cardinality(Sample) + ChunkSize - 1) \div ChunkSize
           place(s) == Cardinality({t \in Sample : t < s})
           chunk(i) == {s \in Sample : place(s) \div ChunkSize = i - 1}
<1>1. IsFiniteSet(Segments) /\ Sample \in SUBSET Segments
  BY ChecksAssumption, FS_Interval, SampleIs DEF Segments
<1>2. Cardinality(Sample) \in Nat
  BY <1>1, FS_Subset, FS_CardinalityType
<1>3. n \in Nat
  BY <1>2, ChecksAssumption
<1>4. ChunksOf(Sample) = [i \in 1 .. n |-> chunk(i)]
  BY DEF ChunksOf
<1>5. \A i : chunk(i) \in SUBSET Segments
  BY <1>1
<1> HIDE DEF n, chunk
<1>6. ChunksOf(Sample) \in [1 .. n -> SUBSET Segments]
  BY <1>4, <1>5
<1> QED  BY <1>3, <1>6

\* One worker becomes x; it had a token or has one now, or not.
LEMMA HoldersChange ==
    ASSUME CTypes, NEW w \in Workers, NEW x, worker' = [worker EXCEPT ![w] = x]
    PROVE  /\ Cardinality(Holders) \in Nat
           /\ Cardinality(Holders') = Cardinality(Holders)
                + (IF x.pc \in {"free", "stat"} THEN 1 ELSE 0) - (IF worker[w].pc \in {"free", "stat"} THEN 1 ELSE 0)
<1> DEFINE T == {"free", "stat"}
<1>1. \A v \in Workers : worker'[v] = IF v = w THEN x ELSE worker[v]
  BY DEF CTypes
<1>2. IsFiniteSet(Holders) /\ Cardinality(Holders) \in Nat
  BY WorkersAre, FS_CardinalityType
<1>3. CASE (x.pc \in T) <=> (worker[w].pc \in T)
  <2>1. Holders' = Holders
    BY <1>1, <1>3 DEF Holders, Workers, MaxWorkers
  <2> QED  BY <1>2, <1>3, <2>1
<1>4. CASE x.pc \in T /\ worker[w].pc \notin T
  <2>1. Holders' = Holders \cup {w} /\ w \notin Holders
    BY <1>1, <1>4 DEF Holders, Workers, MaxWorkers
  <2>2. Cardinality(Holders \cup {w}) = Cardinality(Holders) + 1
    BY <1>2, <2>1, FS_AddElement
  <2> QED  BY <1>2, <1>4, <2>1, <2>2
<1>5. CASE x.pc \notin T /\ worker[w].pc \in T
  <2>1. Holders' = Holders \ {w} /\ w \in Holders
    BY <1>1, <1>5 DEF Holders, Workers, MaxWorkers
  <2>2. Cardinality(Holders \ {w}) = Cardinality(Holders) - 1
    BY <1>2, <2>1, FS_RemoveElement
  <2> QED  BY <1>2, <1>5, <2>1, <2>2
<1> QED  BY <1>3, <1>4, <1>5

\* A worker goes on with the tokens it has.
LEMMA WorkerGoesOn ==
    ASSUME CTypes, NEW w \in Workers, NEW x \in WorkerRecord, worker' = [worker EXCEPT ![w] = x],
           x.open \subseteq x.chunk, worker[w].pc # "off",
           UNCHANGED gone, check' \in [Checks -> CheckRecord],
           \A c \in Checks : check'[c].pc = "new" => check[c].pc = "new",
           IF BankCapacity = 0 THEN tokens' = tokens
           ELSE /\ tokens' \in Nat
                /\ tokens' = tokens - (IF x.pc \in {"free", "stat"} THEN 1 ELSE 0)
                                    + (IF worker[w].pc \in {"free", "stat"} THEN 1 ELSE 0)
    PROVE  CTypes'
<1>1. \A v \in Workers : worker'[v] = IF v = w THEN x ELSE worker[v]
  BY DEF CTypes
<1>2. worker' \in [Workers -> WorkerRecord]
  BY DEF CTypes
<1>3. \A v \in Workers : worker'[v].open \subseteq worker'[v].chunk
  BY <1>1 DEF CTypes
<1>4. \A v \in Workers : check'[CallOf(v)].pc = "new" => worker'[v].pc = "off"
  <2> SUFFICES ASSUME NEW v \in Workers, check'[CallOf(v)].pc = "new" PROVE worker'[v].pc = "off"
    OBVIOUS
  <2>1. check[CallOf(v)].pc = "new" /\ worker[v].pc = "off"
    BY WorkersAre DEF CTypes
  <2> QED  BY <1>1, <2>1
<1>5. IF BankCapacity = 0 THEN tokens' = 0 ELSE tokens' \in Nat /\ tokens' + Cardinality(Holders') = BankCapacity
  <2>1. CASE BankCapacity = 0
    BY <2>1 DEF CTypes
  <2>2. CASE BankCapacity # 0
    <3>1. tokens \in Nat /\ tokens + Cardinality(Holders) = BankCapacity
      BY <2>2 DEF CTypes
    <3>2. BankCapacity \in Nat
      BY ChecksAssumption
    <3> DEFINE a == IF x.pc \in {"free", "stat"} THEN 1 ELSE 0
               b == IF worker[w].pc \in {"free", "stat"} THEN 1 ELSE 0
    <3>3. Cardinality(Holders) \in Nat /\ Cardinality(Holders') = Cardinality(Holders) + a - b
      BY HoldersChange
    <3>4. tokens' \in Nat /\ tokens' = tokens - a + b /\ a \in 0 .. 1 /\ b \in 0 .. 1
      BY <2>2
    <3> HIDE DEF a, b
    <3>5. tokens' \in Nat /\ tokens' + Cardinality(Holders') = BankCapacity
      BY <3>1, <3>2, <3>3, <3>4
    <3> QED  BY <2>2, <3>5
  <2> QED  BY <2>1, <2>2
<1>6. gone' \subseteq Segments \X Sources /\ CallOf(w)' = CallOf(w)
  BY DEF CTypes
<1> QED  BY <1>2, <1>3, <1>4, <1>5, <1>6 DEF CTypes, CallOf

\* A call goes on, and no worker does.
LEMMA CallGoesOn ==
    ASSUME CTypes, NEW c \in Checks, NEW x \in CheckRecord, check' = [check EXCEPT ![c] = x],
           x.pc = "new" => check[c].pc = "new", UNCHANGED <<gone, worker, tokens>>
    PROVE  CTypes'
<1>1. check' \in [Checks -> CheckRecord] /\ \A d \in Checks : check'[d].pc = "new" => check[d].pc = "new"
  BY DEF CTypes
<1>2. \A v \in Workers : check'[CallOf(v)].pc = "new" => worker[v].pc = "off"
  BY <1>1, WorkersAre DEF CTypes
<1>3. Holders' = Holders
  BY DEF Holders
<1> QED  BY <1>1, <1>2, <1>3 DEF CTypes, CallOf


LEMMA CTypesInit == ChecksInit => CTypes
<1> SUFFICES ASSUME ChecksInit PROVE CTypes
  OBVIOUS
<1>1. check \in [Checks -> CheckRecord]
  <2>1. <<>> \in Seq(SUBSET Segments)
    OBVIOUS
  <2> QED  BY <2>1 DEF ChecksInit, CheckRecord
<1>2. worker = [w \in Workers |-> NoWork] /\ NoWork \in WorkerRecord
  BY ProvidersAre DEF ChecksInit, WorkerRecord, NoWork
<1>3. \A w \in Workers : worker[w] = NoWork
  BY <1>2
<1>4. worker \in [Workers -> WorkerRecord]
  BY <1>2
<1>5. NoWork.open = {} /\ NoWork.pc = "off"
  BY DEF NoWork
<1>6. Holders = {}
  BY <1>3, <1>5 DEF Holders
<1>7. Cardinality(Holders) = 0 /\ tokens = BankCapacity /\ BankCapacity \in Nat
  BY <1>6, FS_EmptySet, ChecksAssumption DEF ChecksInit
<1>8. gone \subseteq Segments \X Sources
  BY DEF ChecksInit
<1> QED  BY <1>1, <1>3, <1>4, <1>5, <1>7, <1>8 DEF CTypes

\* The records of a call and of a worker.
LEMMA CRecords ==
    ASSUME CTypes
    PROVE  /\ \A c \in Checks : check[c] \in CheckRecord
           /\ \A w \in Workers : worker[w] \in WorkerRecord /\ worker[w].open \subseteq worker[w].chunk
                                 /\ CallOf(w) \in Checks
BY WorkersAre DEF CTypes

LEMMA NextChunkKeeps ==
    ASSUME CTypes, NEW c \in Checks, check[c].chunks # <<>>, NextChunk(c)
    PROVE  /\ check' \in [Checks -> CheckRecord] /\ \A d \in Checks : check'[d].pc = check[d].pc
           /\ Head(check[c].chunks) \in SUBSET Segments
           /\ [check[c] EXCEPT !.chunks = Tail(@)] \in CheckRecord
           /\ check' = [check EXCEPT ![c] = [check[c] EXCEPT !.chunks = Tail(@)]]
<1>1. check[c] \in CheckRecord /\ check[c].chunks \in Seq(SUBSET Segments)
  BY CRecords DEF CheckRecord
<1>2. Tail(check[c].chunks) \in Seq(SUBSET Segments) /\ Head(check[c].chunks) \in SUBSET Segments
  BY <1>1, HeadTailProperties
<1>3. check' = [check EXCEPT ![c] = [check[c] EXCEPT !.chunks = Tail(@)]]
  BY DEF NextChunk
<1>4. [check[c] EXCEPT !.chunks = Tail(@)] \in CheckRecord /\ [check[c] EXCEPT !.chunks = Tail(@)].pc = check[c].pc
  BY <1>1, <1>2 DEF CheckRecord
<1>5. \A d \in Checks : check'[d] = IF d = c THEN [check[c] EXCEPT !.chunks = Tail(@)] ELSE check[d]
  BY <1>3 DEF CTypes
<1>6. check' \in [Checks -> CheckRecord]
  BY <1>3, <1>4 DEF CTypes
<1> QED  BY <1>2, <1>3, <1>4, <1>5, <1>6

LEMMA CheckTypes == ASSUME CTypes, NEW c \in Checks, Check(c) PROVE CTypes'
<1> DEFINE chunks == ChunksOf(Sample)
           x == [check[c] EXCEPT !.pc = "running", !.chunks = chunks]
           begun == [NoWork EXCEPT !.pc = "bank"]
           launched(w) == CallOf(w) = c /\ w[2] <= Min({MaxWorkers, Len(chunks)})
<1>1. check[c] \in CheckRecord /\ check[c].pc = "new"
  BY CRecords DEF Check
<1>2. chunks \in Seq(SUBSET Segments)
  BY ChunksAre
<1>3. check' = [check EXCEPT ![c] = x] /\ UNCHANGED <<gone, tokens>>
  BY DEF Check
<1>4. \A w \in Workers : worker'[w] = IF launched(w) THEN begun ELSE worker[w]
  BY DEF Check
<1>4a. worker' = [w \in Workers |-> IF launched(w) THEN begun ELSE worker[w]]
  BY DEF Check
<1> HIDE DEF chunks, launched
<1>5. x \in CheckRecord /\ x.pc = "running"
  BY <1>1, <1>2 DEF CheckRecord
<1>6. begun \in WorkerRecord /\ begun.pc = "bank" /\ begun.open = {}
  BY ProvidersAre DEF WorkerRecord, NoWork
<1> HIDE DEF x, begun
<1>7. check' \in [Checks -> CheckRecord] /\ \A d \in Checks : check'[d] = IF d = c THEN x ELSE check[d]
  BY <1>3, <1>5 DEF CTypes
<1>8. worker' \in [Workers -> WorkerRecord]
  BY <1>4a, <1>6 DEF CTypes
<1>9. \A w \in Workers : worker'[w].open \subseteq worker'[w].chunk
  BY <1>4, <1>6 DEF CTypes
<1>10. \A w \in Workers : launched(w) => CallOf(w) = c
  BY DEF launched
<1>11. \A w \in Workers : check'[CallOf(w)].pc = "new" => worker'[w].pc = "off"
  <2> SUFFICES ASSUME NEW w \in Workers, check'[CallOf(w)].pc = "new" PROVE worker'[w].pc = "off"
    OBVIOUS
  <2>1. CallOf(w) # c /\ CallOf(w) \in Checks
    BY <1>5, <1>7, WorkersAre
  <2>2. check[CallOf(w)].pc = "new" /\ worker'[w] = worker[w]
    BY <2>1, <1>4, <1>7, <1>10
  <2> QED  BY <2>2 DEF CTypes
<1>12. Holders' = Holders
  <2>1. ASSUME NEW w \in Workers PROVE (worker'[w].pc \in {"free", "stat"}) <=> (worker[w].pc \in {"free", "stat"})
    <3>1. CASE launched(w)
      <4>1. worker[w].pc = "off"
        BY <1>1, <1>10, <3>1 DEF CTypes
      <4> QED  BY <1>4, <1>6, <3>1, <4>1
    <3>2. CASE ~launched(w)
      BY <1>4, <3>2
    <3> QED  BY <3>1, <3>2
  <2>2. Workers' = Workers
    BY DEF Workers, MaxWorkers
  <2> QED  BY <2>1, <2>2 DEF Holders
<1> QED  BY <1>3, <1>7, <1>8, <1>9, <1>11, <1>12 DEF CTypes, CallOf


\* A worker only changes where it is.
LEMMA PcKeeps ==
    ASSUME CTypes, NEW w \in Workers, NEW pc \in {"free", "drain"}, WorkerGoes(w, pc), worker[w].pc # "off",
           UNCHANGED gone, check' \in [Checks -> CheckRecord],
           \A c \in Checks : check'[c].pc = "new" => check[c].pc = "new",
           IF BankCapacity = 0 THEN tokens' = tokens
           ELSE /\ tokens' \in Nat
                /\ tokens' = tokens - (IF pc \in {"free", "stat"} THEN 1 ELSE 0)
                                    + (IF worker[w].pc \in {"free", "stat"} THEN 1 ELSE 0)
    PROVE  CTypes'
<1> DEFINE x == [worker[w] EXCEPT !.pc = pc]
<1>1. worker[w] \in WorkerRecord /\ worker[w].open \subseteq worker[w].chunk
  BY CRecords
<1>2. x \in WorkerRecord /\ x.pc = pc /\ x.open = worker[w].open /\ x.chunk = worker[w].chunk
  BY <1>1 DEF WorkerRecord
<1>3. worker' = [worker EXCEPT ![w] = x]
  BY DEF WorkerGoes
<1> HIDE DEF x
<1> QED  BY <1>1, <1>2, <1>3, WorkerGoesOn

LEMMA CTypesNext == CTypes /\ [ChecksNext]_checkVars => CTypes'
<1> SUFFICES ASSUME CTypes, [ChecksNext]_checkVars PROVE CTypes'
  OBVIOUS
<1>0. check \in [Checks -> CheckRecord] /\ BankCapacity \in Nat /\ (BankCapacity # 0 => tokens \in Nat)
  BY ChecksAssumption DEF CTypes
<1>1. ASSUME NEW c \in Checks, Check(c) PROVE CTypes'
  BY <1>1, CheckTypes
<1>2. ASSUME NEW c \in Checks, NotChecked(c) \/ Cancel(c) \/ Judge(c) PROVE CTypes'
  <2>1. check[c] \in CheckRecord
    BY CRecords
  <2>2. PICK x : /\ check' = [check EXCEPT ![c] = x] /\ UNCHANGED <<gone, worker, tokens>>
                 /\ \/ x = [check[c] EXCEPT !.pc = "done", !.verdict = "fine"]
                    \/ x = [check[c] EXCEPT !.pc = "done", !.verdict = "missing"]
                    \/ x = [check[c] EXCEPT !.cancelled = TRUE]
    <3>1. CASE NotChecked(c)
      BY <3>1 DEF NotChecked
    <3>2. CASE Cancel(c)
      BY <3>2 DEF Cancel
    <3>3. CASE Judge(c) /\ check[c].missing # {}
      BY <3>3 DEF Judge
    <3>4. CASE Judge(c) /\ check[c].missing = {}
      BY <3>4 DEF Judge
    <3> QED  BY <1>2, <3>1, <3>2, <3>3, <3>4
  <2>3. x \in CheckRecord /\ (x.pc = "new" => check[c].pc = "new")
    BY <2>1, <2>2 DEF CheckRecord
  <2> QED  BY <2>2, <2>3, CallGoesOn
<1>3. ASSUME NEW w \in Workers, Acquire(w) PROVE CTypes'
  <2>1. /\ worker[w].pc = "bank" /\ (BankCapacity = 0 \/ tokens > 0) /\ WorkerGoes(w, "free")
        /\ tokens' = IF BankCapacity = 0 THEN tokens ELSE tokens - 1
        /\ UNCHANGED <<gone, check>>
    BY <1>3 DEF Acquire, WorkerAt
  <2>2. IF BankCapacity = 0 THEN tokens' = tokens ELSE tokens' \in Nat /\ tokens' = tokens - 1 + 0
    BY <1>0, <2>1
  <2> QED  BY <1>0, <2>1, <2>2, PcKeeps
<1>4. ASSUME NEW w \in Workers, AcquireCancelled(w) PROVE CTypes'
  <2>1. worker[w].pc = "bank" /\ WorkerGoes(w, "drain") /\ UNCHANGED <<gone, check, tokens>>
    BY <1>4 DEF AcquireCancelled, WorkerAt
  <2>2. IF BankCapacity = 0 THEN tokens' = tokens ELSE tokens' \in Nat /\ tokens' = tokens - 0 + 0
    BY <1>0, <2>1
  <2> QED  BY <1>0, <2>1, <2>2, PcKeeps
<1>5. ASSUME NEW w \in Workers, ChunkFails(w) PROVE CTypes'
  <2> DEFINE c == CallOf(w)
             x == [check[c] EXCEPT !.chunks = Tail(@)]
  <2>1. c \in Checks /\ check[c].chunks # <<>> /\ NextChunk(c) /\ UNCHANGED <<gone, worker, tokens>>
    BY <1>5, WorkersAre DEF ChunkFails
  <2>2. x \in CheckRecord /\ x.pc = check[c].pc /\ check' = [check EXCEPT ![c] = x]
    BY <2>1, NextChunkKeeps, CRecords DEF CheckRecord
  <2> HIDE DEF x, c
  <2> QED  BY <2>1, <2>2, CallGoesOn
<1>6. ASSUME NEW w \in Workers, Take(w) PROVE CTypes'
  <2> DEFINE c == CallOf(w)
             h == Head(check[c].chunks)
             x == [pc |-> "stat", chunk |-> h, next |-> 1, open |-> h, notFound |-> {}, otherErr |-> {}]
  <2>1. /\ c \in Checks /\ check[c].chunks # <<>> /\ NextChunk(c) /\ UNCHANGED <<gone, tokens>>
        /\ worker[w].pc = "free" /\ worker' = [worker EXCEPT ![w] = x]
    BY <1>6, WorkersAre DEF Take, WorkerAt
  <2>2. check' \in [Checks -> CheckRecord] /\ (\A d \in Checks : check'[d].pc = check[d].pc) /\ h \in SUBSET Segments
    BY <2>1, NextChunkKeeps
  <2>3. x \in WorkerRecord /\ x.open \subseteq x.chunk /\ x.pc = "stat"
    BY <2>2, ProvidersAre DEF WorkerRecord
  <2>4. IF BankCapacity = 0 THEN tokens' = tokens ELSE tokens' \in Nat /\ tokens' = tokens - 1 + 1
    BY <1>0, <2>1
  <2> HIDE DEF x, c, h
  <2> QED  BY <2>1, <2>2, <2>3, <2>4, WorkerGoesOn
<1>7. ASSUME NEW w \in Workers, WorkerEnds(w) PROVE CTypes'
  <2> DEFINE x == NoWork
  <2>1. /\ worker[w].pc \in {"free", "drain"} /\ worker' = [worker EXCEPT ![w] = x] /\ UNCHANGED <<gone, check>>
        /\ tokens' = IF worker[w].pc = "free" /\ BankCapacity # 0 THEN tokens + 1 ELSE tokens
    BY <1>7 DEF WorkerEnds, WorkerAt
  <2>2. x \in WorkerRecord /\ x.open \subseteq x.chunk /\ x.pc = "off"
    BY ProvidersAre DEF WorkerRecord, NoWork
  <2>3. IF BankCapacity = 0 THEN tokens' = tokens
        ELSE tokens' \in Nat /\ tokens' = tokens - 0 + (IF worker[w].pc \in {"free", "stat"} THEN 1 ELSE 0)
    BY <1>0, <2>1
  <2> HIDE DEF x
  <2> QED  BY <1>0, <2>1, <2>2, <2>3, WorkerGoesOn
<1>8. ASSUME NEW w \in Workers, Ask(w) PROVE CTypes'
  <2> DEFINE b == Source[Asked(w)]
  <2>1. HasNextProvider(w) /\ UNCHANGED <<gone, check, tokens>>
    BY <1>8 DEF Ask
  <2>2. PICK unread \in SUBSET Queried(w) :
            LET answered == Queried(w) \ unread
                missing  == {s \in answered : <<s, b>> \in gone}
            IN  worker' = [worker EXCEPT ![w].next     = @ + 1,
                                         ![w].open     = @ \ (answered \ missing),
                                         ![w].notFound = @ \cup (missing \X {b}),
                                         ![w].otherErr = @ \cup unread]
    BY <1>8 DEF Ask
  <2> DEFINE answered == Queried(w) \ unread
             missing  == {s \in answered : <<s, b>> \in gone}
             r == worker[w]
             x == [r EXCEPT !.next = @ + 1, !.open = @ \ (answered \ missing), !.notFound = @ \cup (missing \X {b}),
                            !.otherErr = @ \cup unread]
  <2>3. worker' = [worker EXCEPT ![w] = x]
    BY <2>2
  <2>4. r \in WorkerRecord /\ r.open \subseteq r.chunk /\ r.pc = "stat" /\ r.next <= Len(Providers)
    BY <2>1, CRecords DEF HasNextProvider, WorkerAt
  <2>5. b \in Sources
    BY <2>4, ProvidersAre DEF Asked, WorkerRecord
  <2>6. Queried(w) \subseteq r.open
    BY DEF Queried
  <2>7. r.open \subseteq Segments /\ unread \subseteq Segments /\ missing \X {b} \subseteq Segments \X Sources
    BY <2>4, <2>5, <2>6 DEF WorkerRecord
  <2>8. r.next + 1 \in 1 .. Len(Providers) + 1
    BY <2>4, ProvidersAre DEF WorkerRecord
  <2> DEFINE o == r.open \ (answered \ missing)
             nf == r.notFound \cup (missing \X {b})
             oe == r.otherErr \cup unread
  <2>9. o \in SUBSET Segments /\ o \subseteq r.chunk /\ nf \in SUBSET (Segments \X Sources) /\ oe \in SUBSET Segments
    BY <2>4, <2>7 DEF WorkerRecord
  <2>10. x = [r EXCEPT !.next = r.next + 1, !.open = o, !.notFound = nf, !.otherErr = oe]
    OBVIOUS
  <2> HIDE DEF o, nf, oe, x, answered, missing, b
  <2>11. x \in WorkerRecord /\ x.open = o /\ x.chunk = r.chunk /\ x.pc = r.pc
    BY <2>4, <2>8, <2>9, <2>10 DEF WorkerRecord
  <2>12. IF BankCapacity = 0 THEN tokens' = tokens ELSE tokens' \in Nat /\ tokens' = tokens - 1 + 1
    BY <1>0, <2>1
  <2> QED  BY <1>0, <2>1, <2>3, <2>4, <2>9, <2>11, <2>12, WorkerGoesOn
<1>9. ASSUME NEW w \in Workers, Conclude(w) PROVE CTypes'
  <2> DEFINE c == CallOf(w)
             f == check[c].found \cup (worker[w].chunk \ worker[w].open)
             m == check[c].missing \cup Missing(w)
             x == [check[c] EXCEPT !.found = f, !.missing = m]
  <2>1. /\ worker[w].pc = "stat" /\ check' = [check EXCEPT ![c] = x] /\ WorkerGoes(w, "free") /\ UNCHANGED <<gone, tokens>>
    BY <1>9 DEF Conclude, WorkerAt
  <2>2. c \in Checks /\ check[c] \in CheckRecord /\ worker[w] \in WorkerRecord
    BY CRecords
  <2>3. Missing(w) \subseteq worker[w].open
    BY DEF Missing
  <2>4. f \in SUBSET Segments /\ m \in SUBSET Segments
    BY <2>2, <2>3 DEF CheckRecord, WorkerRecord
  <2> HIDE DEF f, m, c
  <2>5. x \in CheckRecord /\ x.pc = check[c].pc
    BY <2>2, <2>4 DEF CheckRecord
  <2> HIDE DEF x
  <2>6. check' \in [Checks -> CheckRecord] /\ \A d \in Checks : check'[d].pc = "new" => check[d].pc = "new"
    BY <1>0, <2>1, <2>2, <2>5
  <2>7. IF BankCapacity = 0 THEN tokens' = tokens ELSE tokens' \in Nat /\ tokens' = tokens - 1 + 1
    BY <1>0, <2>1
  <2> QED  BY <2>1, <2>6, <2>7, PcKeeps
<1>10. ASSUME NEW w \in Workers, Abandon(w) PROVE CTypes'
  <2>1. worker[w].pc = "stat" /\ WorkerGoes(w, "free") /\ UNCHANGED <<gone, check, tokens>>
    BY <1>10 DEF Abandon, WorkerAt
  <2>2. IF BankCapacity = 0 THEN tokens' = tokens ELSE tokens' \in Nat /\ tokens' = tokens - 1 + 1
    BY <1>0, <2>1
  <2> QED  BY <1>0, <2>1, <2>2, PcKeeps
<1>11. CASE UNCHANGED checkVars
  BY <1>11 DEF checkVars, CTypes, Holders, CallOf
<1> QED  BY <1>1, <1>2, <1>3, <1>4, <1>5, <1>6, <1>7, <1>8, <1>9, <1>10, <1>11 DEF ChecksNext

LEMMA ChecksTypes == ChecksSpec => []ChecksTypeOK
<1>1. CTypes => ChecksTypeOK
  <2> SUFFICES ASSUME CTypes PROVE ChecksTypeOK
    OBVIOUS
  <2>1. tokens \in 0 .. BankCapacity
    <3>1. Cardinality(Holders) \in Nat /\ BankCapacity \in Nat
      BY WorkersAre, FS_CardinalityType, ChecksAssumption
    <3> QED  BY <3>1 DEF CTypes
  <2>2. \A c \in Checks : check[c] \in CheckRecord
    BY CRecords
  <2>3. \A w \in Workers : worker[w] \in WorkerRecord /\ worker[w].open \subseteq worker[w].chunk
    BY CRecords
  <2> QED  BY <2>1, <2>2, <2>3 DEF CTypes, CheckRecord, WorkerRecord, ChecksTypeOK
<1> QED  BY <1>1, CTypesInit, CTypesNext, PTL DEF ChecksSpec

-----------------------------------------------------------------------------
\* A goroutine's local variables.
TypedGo(w) ==
    /\ DOMAIN w = GoFields
    /\ w.pc \in {"idle", "pop", "order", "submit", "check", "add"}
    /\ w.req \in Requests <=> w.pc \notin {"idle", "pop"}
    /\ w.copy \in Copy <=> w.pc \in {"check", "add"}
    /\ w.rest \in Seq(Debrids) /\ (w.pc = "check" => w.rest # <<>>)
    /\ w.slots \in 0 .. MaxSlots

\* room is what the slice can still hold.
ImportTypes ==
    /\ DOMAIN go = Gos /\ \A g \in Gos : TypedGo(go[g])
    /\ queue \in Seq(Requests) /\ room \in Nat /\ Len(queue) <= room /\ room <= Capacity
    /\ answer \in [Requests -> {"new", "waiting", "added", "refused", "lost"}]
    /\ copies \subseteq Copy /\ setbacks \in 0 .. MaxTroubles

\* There is a function of the beginnings of a sequence of sequences.
Flattened(seqs, g) == g = [i \in 1 .. Len(seqs) |-> IF i = 1 THEN seqs[i] ELSE g[i - 1] \o seqs[i]]

LEMMA FlattenExists ==
    ASSUME NEW S, NEW n \in Nat, NEW seqs \in [1 .. n -> Seq(S)], Len(seqs) = n
    PROVE  \E g \in [1 .. n -> Seq(S)] : Flattened(seqs, g)
<1> DEFINE next(g, i) == IF i = 1 THEN seqs[i] ELSE g[i - 1] \o seqs[i]
           Upto(m, g) == \A i \in 1 .. n : i <= m => g[i] = next(g, i)
           T == {m \in Nat : \E g \in [1 .. n -> Seq(S)] : Upto(m, g)}
<1>0. \A g \in [1 .. n -> Seq(S)] : \A i \in 1 .. n : next(g, i) \in Seq(S)
  <2> SUFFICES ASSUME NEW g \in [1 .. n -> Seq(S)], NEW i \in 1 .. n PROVE next(g, i) \in Seq(S)
    OBVIOUS
  <2>1. CASE i = 1
    BY <2>1
  <2>2. CASE i # 1
    <3>1. g[i - 1] \in Seq(S) /\ seqs[i] \in Seq(S)
      BY <2>2
    <3>2. g[i - 1] \o seqs[i] \in Seq(S)
      BY <3>1
    <3> QED  BY <2>2, <3>2
  <2> QED  BY <2>1, <2>2
<1>a. \A g, h : \A i \in 1 .. n : (i # 1 => g[i - 1] = h[i - 1]) => next(g, i) = next(h, i)
  OBVIOUS
<1> HIDE DEF next
<1>1. 0 \in T
  <2>1. [i \in 1 .. n |-> <<>>] \in [1 .. n -> Seq(S)]
    OBVIOUS
  <2>2. Upto(0, [i \in 1 .. n |-> <<>>])
    OBVIOUS
  <2> QED  BY <2>1, <2>2
<1>2. ASSUME NEW m \in Nat, m \in T PROVE m + 1 \in T
  <2>1. PICK g \in [1 .. n -> Seq(S)] : Upto(m, g)
    BY <1>2
  <2>2. CASE m + 1 > n
    <3>1. Upto(m + 1, g)
      BY <2>1, <2>2
    <3> QED  BY <3>1
  <2>3. CASE m + 1 <= n
    <3> DEFINE h == [g EXCEPT ![m + 1] = next(g, m + 1)]
    <3>1. h \in [1 .. n -> Seq(S)]
      BY <2>3, <1>0
    <3>2. \A i \in 1 .. m : h[i] = g[i]
      BY <2>3
    <3>3. h[m + 1] = next(g, m + 1)
      BY <2>3
    <3> HIDE DEF h
    <3>4. ASSUME NEW i \in 1 .. n, i <= m + 1 PROVE h[i] = next(h, i)
      <4>1. i # 1 => i - 1 \in 1 .. m /\ h[i - 1] = g[i - 1]
        BY <3>2, <3>4
      <4>2. next(h, i) = next(g, i)
        BY <4>1, <1>a
      <4>3. CASE i = m + 1
        BY <4>2, <4>3, <3>3
      <4>4. CASE i # m + 1
        BY <4>2, <4>4, <3>2, <3>4, <2>1
      <4> QED  BY <4>3, <4>4
    <3>6. Upto(m + 1, h)
      BY <3>4
    <3> QED  BY <3>1, <3>6
  <2> HIDE DEF T
  <2> QED  BY <2>2, <2>3
<1>3. Nat \subseteq T
  <2> HIDE DEF T
  <2> QED  BY <1>1, <1>2, FromZero
<1>4. PICK g \in [1 .. n -> Seq(S)] : Upto(n, g)
  BY <1>3
<1>5. g = [i \in 1 .. n |-> next(g, i)]
  BY <1>4
<1>6. Flattened(seqs, g)
  BY <1>5 DEF Flattened, next
<1> QED  BY <1>6

\* What FlattenSeq gives: the last of the beginnings.
LEMMA FlattenIs ==
    ASSUME NEW S, NEW n \in Nat, NEW seqs \in [1 .. n -> Seq(S)], Len(seqs) = n
    PROVE  /\ FlattenSeq(seqs) \in Seq(S)
           /\ \E g \in [1 .. n -> Seq(S)] :
                 /\ n > 0 => g[1] = seqs[1] /\ FlattenSeq(seqs) = g[n]
                 /\ \A i \in 2 .. n : g[i] = g[i - 1] \o seqs[i]
<1> DEFINE flatten == CHOOSE g : Flattened(seqs, g)
<1>1. FlattenSeq(seqs) = IF n = 0 THEN seqs ELSE flatten[n]
  <2>1. FlattenSeq(seqs) = IF Len(seqs) = 0 THEN seqs ELSE flatten[Len(seqs)]
    BY Zenon DEF FlattenSeq, Flattened
  <2> HIDE DEF flatten
  <2> QED  BY <2>1
<1>2. PICK h \in [1 .. n -> Seq(S)] : Flattened(seqs, h)
  BY FlattenExists
<1>3. Flattened(seqs, flatten)
  BY <1>2
<1> HIDE DEF flatten
<1>d. DOMAIN flatten = 1 .. n /\ flatten = [i \in 1 .. n |-> flatten[i]]
  <2>1. flatten = [i \in 1 .. n |-> IF i = 1 THEN seqs[i] ELSE flatten[i - 1] \o seqs[i]]
    BY <1>3 DEF Flattened
  <2> QED  BY <2>1
<1> DEFINE then(a, i) == a \o seqs[i]
<1>a. \A i \in 1 .. n : h[i] = IF i = 1 THEN seqs[i] ELSE then(h[i - 1], i)
  BY <1>2 DEF Flattened
<1>b. \A i \in 1 .. n : flatten[i] = IF i = 1 THEN seqs[i] ELSE then(flatten[i - 1], i)
  BY <1>3 DEF Flattened
<1>7. \A i \in 2 .. n : h[i] = h[i - 1] \o seqs[i]
  <2>1. \A i \in 2 .. n : h[i] = then(h[i - 1], i)
    <3> HIDE DEF then
    <3> QED  BY <1>a
  <2> QED  BY <2>1
<1> HIDE DEF then
<1>4. flatten = h
  <2> DEFINE T == {m \in Nat : m + 1 <= n => flatten[m + 1] = h[m + 1]}
  <2>1. 0 \in T
    BY <1>a, <1>b
  <2>2. ASSUME NEW m \in Nat, m \in T PROVE m + 1 \in T
    <3>1. CASE m + 1 + 1 <= n
      <4>1. m + 1 + 1 \in 1 .. n /\ m + 1 + 1 # 1 /\ m + 1 + 1 - 1 = m + 1
        BY <3>1
      <4>2. flatten[m + 1 + 1] = then(flatten[m + 1], m + 1 + 1) /\ h[m + 1 + 1] = then(h[m + 1], m + 1 + 1)
        BY <1>a, <1>b, <4>1
      <4>3. flatten[m + 1] = h[m + 1]
        BY <2>2, <3>1
      <4> QED  BY <4>2, <4>3
    <3> QED  BY <3>1
  <2>3. Nat \subseteq T
    <3> HIDE DEF T
    <3> QED  BY <2>1, <2>2, FromZero
  <2>4. ASSUME NEW i \in 1 .. n PROVE flatten[i] = h[i]
    <3>1. i - 1 \in Nat /\ i - 1 + 1 = i
      OBVIOUS
    <3>2. i - 1 \in T
      <4> HIDE DEF T
      <4> QED  BY <2>3, <3>1
    <3> QED  BY <3>1, <3>2
  <2> QED  BY <2>4, <1>d
<1>6. n > 0 => FlattenSeq(seqs) = h[n] /\ h[1] = seqs[1]
  <2> SUFFICES ASSUME n > 0 PROVE FlattenSeq(seqs) = h[n] /\ h[1] = seqs[1]
    OBVIOUS
  <2>1. FlattenSeq(seqs) = flatten[n]
    BY <1>1
  <2>2. 1 \in 1 .. n
    OBVIOUS
  <2>3. h[1] = seqs[1]
    BY <1>a, <2>2
  <2> QED  BY <1>4, <2>1, <2>3
<1>8. FlattenSeq(seqs) \in Seq(S)
  <2>1. CASE n = 0
    <3>1. seqs = <<>>
      BY <2>1
    <3> QED  BY <1>1, <2>1, <3>1
  <2> QED  BY <1>6, <2>1
<1> QED  BY <1>6, <1>7, <1>8

\* Joining lists of S gives a list of S.
LEMMA FlattenType ==
    ASSUME NEW S, NEW n \in Nat, NEW seqs \in [1 .. n -> Seq(S)], Len(seqs) = n
    PROVE  FlattenSeq(seqs) \in Seq(S)
BY ZenonT(60), FlattenIs

LEMMA ThoseAre == \A S : Those(S) \in Seq(Debrids)
<1> SUFFICES ASSUME NEW S PROVE Those(S) \in Seq(Debrids)
  OBVIOUS
<1> DEFINE seqs == [i \in DOMAIN Priority |-> IF Priority[i] \in S THEN <<Priority[i]>> ELSE <<>>]
           n == Len(Priority)
<1>1. n \in Nat /\ DOMAIN Priority = 1 .. n /\ \A i \in 1 .. n : Priority[i] \in Debrids
  BY ImportAssumption
<1>2. \A i \in 1 .. n : (IF Priority[i] \in S THEN <<Priority[i]>> ELSE <<>>) \in Seq(Debrids)
  <2> SUFFICES ASSUME NEW i \in 1 .. n PROVE (IF Priority[i] \in S THEN <<Priority[i]>> ELSE <<>>) \in Seq(Debrids)
    OBVIOUS
  <2>1. Priority[i] \in Debrids
    BY <1>1
  <2> QED  BY <2>1
<1>3. seqs \in [1 .. n -> Seq(Debrids)]
  BY <1>1, <1>2
<1>4. Len(seqs) = n
  BY <1>1, <1>3, ListIsSeq
<1>5. Those(S) = FlattenSeq(seqs)
  BY DEF Those
<1> HIDE DEF seqs, n
<1>6. n \in Nat
  BY <1>1
<1>7. FlattenSeq(seqs) \in Seq(Debrids)
  BY ZenonT(60), <1>3, <1>4, <1>6, FlattenType
<1> QED  BY ZenonT(60), <1>5, <1>7

LEMMA GoTypes ==
    ASSUME ImportTypes, NEW g \in Gos, NEW w, go' = [go EXCEPT ![g] = w], TypedGo(w),
           queue' \in Seq(Requests), room' \in Nat, Len(queue') <= room', room' <= Capacity,
           answer' \in [Requests -> {"new", "waiting", "added", "refused", "lost"}],
           copies' \subseteq Copy, setbacks' \in 0 .. MaxTroubles
    PROVE  ImportTypes'
BY DEF ImportTypes, TypedGo

LEMMA FreeIsTyped == TypedGo(Free)
<1>1. Copy = Copy
  OBVIOUS
<1>2. <<>> \in Seq(Debrids) /\ MaxSlots \in Nat
  BY ImportAssumption
<1> QED  BY <1>2, ImportAssumption DEF TypedGo, Free, GoFields

LEMMA ImportTypesInit == ImportInit => ImportTypes
<1> SUFFICES ASSUME ImportInit PROVE ImportTypes
  OBVIOUS
<1>1. \A g \in Gos : go[g] = Free
  BY DEF ImportInit
<1>2. queue \in Seq(Requests) /\ Len(queue) = 0
  BY DEF ImportInit
<1>3. DOMAIN go = Gos /\ room = Capacity
  BY DEF ImportInit
<1> QED  BY <1>1, <1>2, <1>3, FreeIsTyped, ImportAssumption DEF ImportInit, ImportTypes

LEMMA TargetIs == ASSUME ImportTypes, NEW g \in Gos, go[g].rest # <<>>
                  PROVE  Target(g) \in Debrids /\ Tail(go[g].rest) \in Seq(Debrids)
BY DEF ImportTypes, TypedGo, Target

LEMMA SetbackTypes == ASSUME ImportTypes, Setback PROVE setbacks' \in 0 .. MaxTroubles
BY ImportAssumption DEF ImportTypes, Setback

LEMMA AnswerTypes ==
    ASSUME ImportTypes, NEW r, NEW a \in {"waiting", "added", "refused", "lost"}, answer' = [answer EXCEPT ![r] = a]
    PROVE  answer' \in [Requests -> {"new", "waiting", "added", "refused", "lost"}]
BY DEF ImportTypes

\* The steps of one goroutine, up to what becomes of its request.
LEMMA GoStepTypes ==
    ASSUME ImportTypes, NEW g \in Gos, GoStep(g) PROVE ImportTypes'
<1>1. TypedGo(go[g]) /\ DOMAIN go[g] = GoFields
  BY DEF ImportTypes, TypedGo
<1>2. /\ queue \in Seq(Requests) /\ room \in Nat /\ Len(queue) <= room /\ room <= Capacity
      /\ answer \in [Requests -> {"new", "waiting", "added", "refused", "lost"}]
      /\ copies \subseteq Copy /\ setbacks \in 0 .. MaxTroubles
  BY DEF ImportTypes
<1>3. NoCopy \notin Copy /\ NoRequest \notin Requests
  BY ImportAssumption
<1>4. CASE Order(g)
  <2>1. PICK rest \in Seq(Debrids) : go' = [go EXCEPT ![g] = [go[g] EXCEPT !.pc = "submit", !.rest = rest]]
    <3> DEFINE S == Selected[go[g].req]
    <3>1. PICK cached \in SUBSET S :
             go' = [go EXCEPT ![g] = [go[g] EXCEPT !.pc = "submit", !.rest = Those(cached) \o Those(S \ cached)]]
      BY <1>4 DEF Order, Becomes
    <3>2. Those(cached) \o Those(S \ cached) \in Seq(Debrids)
      <4>1. Those(cached) \in Seq(Debrids) /\ Those(S \ cached) \in Seq(Debrids)
        BY ThoseAre
      <4> QED  BY <4>1
    <3> HIDE DEF S
    <3> QED  BY <3>1, <3>2
  <2> DEFINE w == [go[g] EXCEPT !.pc = "submit", !.rest = rest]
  <2>2. TypedGo(w)
    BY <1>1, <1>3, <1>4 DEF TypedGo, GoFields, Order, At
  <2> HIDE DEF w
  <2> QED  BY <1>2, <1>4, <2>1, <2>2, GoTypes DEF Order, w
<1>5. CASE Accepted(g)
  <2> DEFINE d == Target(g)  r == go[g].req  c == <<d, r, Fresh(d, r)>>
  <2>1. d \in Debrids /\ r \in Requests
    BY <1>1, <1>5, TargetIs DEF Accepted, HasNext, At, TypedGo
  <2>2. Fresh(d, r) \in 1 .. MaxCopies
    BY <1>5 DEF Accepted, HasFresh, Fresh
  <2>3. c \in Copy
    BY <2>1, <2>2 DEF Copy
  <2>4. PICK F : go' = [go EXCEPT ![g] = [go[g] EXCEPT !.pc = "check", !.copy = c, !.files = F]]
    BY <1>5 DEF Accepted, Becomes
  <2>5. copies' = copies \cup {c} /\ UNCHANGED <<queue, room, answer, setbacks>>
    BY <1>5 DEF Accepted
  <2> HIDE DEF c
  <2> DEFINE w == [go[g] EXCEPT !.pc = "check", !.copy = c, !.files = F]
  <2>6. TypedGo(w)
    BY <1>1, <1>5, <2>1, <2>3 DEF TypedGo, GoFields, Accepted, HasNext, At
  <2>7. copies' \subseteq Copy
    BY <1>2, <2>3, <2>5
  <2> HIDE DEF w
  <2> QED  BY <1>2, <2>4, <2>5, <2>6, <2>7, GoTypes DEF w
<1>6. CASE Refused(g) \/ AcceptedAsZero(g)
  <2>1. PICK l : go' = [go EXCEPT ![g] = [go[g] EXCEPT !.rest = Tail(go[g].rest), !.limit = l]]
    <3>1. CASE Refused(g)
      <4>1. PICK limit \in BOOLEAN : Becomes(g, [go[g] EXCEPT !.rest = Tail(@), !.limit = @ \/ limit])
        BY <3>1 DEF Refused
      <4> QED  BY <4>1 DEF Becomes
    <3>2. CASE AcceptedAsZero(g)
      <4>1. [go[g] EXCEPT !.rest = Tail(go[g].rest), !.limit = go[g].limit] = [go[g] EXCEPT !.rest = Tail(go[g].rest)]
        BY <1>1 DEF GoFields
      <4>2. go' = [go EXCEPT ![g] = [go[g] EXCEPT !.rest = Tail(go[g].rest)]]
        BY <3>2 DEF AcceptedAsZero, Becomes
      <4> QED  BY <4>1, <4>2
    <3> QED  BY <1>6, <3>1, <3>2
  <2>2. Tail(go[g].rest) \in Seq(Debrids)
    BY <1>6, TargetIs DEF Refused, AcceptedAsZero, HasNext
  <2> DEFINE w == [go[g] EXCEPT !.rest = Tail(go[g].rest), !.limit = l]
  <2>3. TypedGo(w)
    BY <1>1, <1>6, <2>2 DEF TypedGo, GoFields, Refused, AcceptedAsZero, HasNext, At
  <2> HIDE DEF w
  <2> QED  BY <1>2, <1>6, <2>1, <2>3, GoTypes DEF w, Refused, AcceptedAsZero
<1>7. CASE Succeeds(g)
  <2>1. PICK F : go' = [go EXCEPT ![g] = [go[g] EXCEPT !.pc = "add", !.files = F]]
    BY <1>7 DEF Succeeds, Becomes
  <2> DEFINE w == [go[g] EXCEPT !.pc = "add", !.files = F]
  <2>2. TypedGo(w)
    BY <1>1, <1>7 DEF TypedGo, GoFields, Succeeds, At
  <2> HIDE DEF w
  <2> QED  BY <1>2, <1>7, <2>1, <2>2, GoTypes DEF w, Succeeds
<1>8. CASE Fails(g) \/ SelectionLimited(g)
  <2>1. PICK F, l : go' = [go EXCEPT ![g] = [go[g] EXCEPT !.pc = "submit", !.rest = Tail(go[g].rest), !.limit = l,
                                                          !.copy = NoCopy, !.files = F]]
    <3>1. CASE Fails(g)
      <4>1. PICK F : go' = [go EXCEPT ![g] = [go[g] EXCEPT !.pc = "submit", !.rest = Tail(go[g].rest), !.copy = NoCopy,
                                                           !.files = F]]
        BY <3>1 DEF Fails, Becomes
      <4>2. [go[g] EXCEPT !.pc = "submit", !.rest = Tail(go[g].rest), !.limit = go[g].limit, !.copy = NoCopy, !.files = F]
            = [go[g] EXCEPT !.pc = "submit", !.rest = Tail(go[g].rest), !.copy = NoCopy, !.files = F]
        BY <1>1 DEF GoFields
      <4> QED  BY <4>1, <4>2
    <3>2. CASE SelectionLimited(g)
      BY <3>2 DEF SelectionLimited, Becomes
    <3> QED  BY <1>8, <3>1, <3>2
  <2>2. Tail(go[g].rest) \in Seq(Debrids)
    BY <1>1, <1>8, TargetIs DEF Fails, SelectionLimited, TypedGo, At
  <2> DEFINE w == [go[g] EXCEPT !.pc = "submit", !.rest = Tail(go[g].rest), !.limit = l, !.copy = NoCopy, !.files = F]
  <2>3. TypedGo(w)
    BY <1>1, <1>3, <1>8, <2>2 DEF TypedGo, GoFields, Fails, SelectionLimited, At
  <2>4. setbacks' \in 0 .. MaxTroubles
    BY <1>2, <1>8, SetbackTypes DEF Fails, SelectionLimited
  <2> HIDE DEF w
  <2> QED  BY <1>2, <1>8, <2>1, <2>3, <2>4, GoTypes DEF w, Fails, SelectionLimited
<1>9. CASE Added(g) \/ NotAdded(g) \/ ReQueued(g) \/ Rejected(g)
  <2>1. PICK a \in {"waiting", "added", "refused", "lost"} : answer' = [answer EXCEPT ![go[g].req] = a]
    BY <1>9 DEF Added, NotAdded, ReQueued, Rejected, Answers, Error
  <2>2. answer' \in [Requests -> {"new", "waiting", "added", "refused", "lost"}]
    BY <2>1, AnswerTypes
  <2>3. \E w : go' = [go EXCEPT ![g] = w] /\ TypedGo(w)
    <3>1. CASE UNCHANGED copies /\ (GoesOn(g) \/ TickEnds(g))
      <4> DEFINE p == [Free EXCEPT !.pc = "pop", !.slots = go[g].slots - 1]
      <4>1. CASE go' = [go EXCEPT ![g] = Free]
        BY <4>1, FreeIsTyped
      <4>2. CASE go' = [go EXCEPT ![g] = p] /\ go[g].slots > 1
        <5>1. TypedGo(p)
          <6>1. go[g].slots - 1 \in 0 .. MaxSlots
            BY <1>1, <4>2, ImportAssumption DEF TypedGo
          <6>2. <<>> \in Seq(Debrids)
            OBVIOUS
          <6> QED  BY <1>3, <6>1, <6>2 DEF TypedGo, Free, GoFields
        <5> QED  BY <4>2, <5>1
      <4>3. (g \in Trackers /\ go[g].slots > 1) \/ ~(g \in Trackers /\ go[g].slots > 1)
        OBVIOUS
      <4> QED  BY <3>1, <4>1, <4>2, <4>3 DEF GoesOn, TickEnds
    <3> QED  BY <1>9, <3>1 DEF Added, NotAdded, ReQueued, Rejected
  <2>4. PICK w : go' = [go EXCEPT ![g] = w] /\ TypedGo(w)
    BY <2>3
  <2>5. setbacks' \in 0 .. MaxTroubles
    BY <1>2, <1>9, SetbackTypes DEF Added, NotAdded, ReQueued, Rejected
  <2>6. queue' \in Seq(Requests) /\ Len(queue') <= room /\ room' = room
    <3>1. CASE ReQueued(g)
      <4>1. go[g].req \in Requests
        BY <1>1, <3>1 DEF ReQueued, NoneLeft, At, TypedGo
      <4>2. queue' = Append(queue, go[g].req) /\ Len(queue) < room
        BY <3>1 DEF ReQueued, Enqueued
      <4>3. queue' \in Seq(Requests) /\ Len(queue') = Len(queue) + 1 /\ Len(queue) \in Nat
        BY <1>2, <4>1, <4>2
      <4>4. room' = room
        BY <3>1 DEF ReQueued
      <4> QED  BY <1>2, <4>2, <4>3, <4>4
    <3> QED  BY <1>2, <1>9, <3>1 DEF Added, NotAdded, Rejected
  <2>7. UNCHANGED copies
    BY <1>9 DEF Added, NotAdded, ReQueued, Rejected
  <2> QED  BY <1>2, <2>2, <2>4, <2>5, <2>6, <2>7, GoTypes
<1> QED  BY <1>4, <1>5, <1>6, <1>7, <1>8, <1>9 DEF GoStep

LEMMA ImportTypesNext == ImportTypes /\ [ImportNext]_importVars => ImportTypes'
<1> SUFFICES ASSUME ImportTypes, [ImportNext]_importVars PROVE ImportTypes'
  OBVIOUS
<1>2. /\ queue \in Seq(Requests) /\ room \in Nat /\ Len(queue) <= room /\ room <= Capacity
      /\ answer \in [Requests -> {"new", "waiting", "added", "refused", "lost"}]
      /\ copies \subseteq Copy /\ setbacks \in 0 .. MaxTroubles
  BY DEF ImportTypes
<1>3. NoCopy \notin Copy /\ NoRequest \notin Requests
  BY ImportAssumption
<1>4. \A g \in Gos : TypedGo(go[g])
  BY DEF ImportTypes
<1>5. ASSUME NEW g \in Callers, NEW r \in Requests, Request(g, r) PROVE ImportTypes'
  <2> DEFINE w == [go[g] EXCEPT !.pc = "order", !.req = r, !.limit = FALSE, !.copy = NoCopy, !.files = {}, !.slots = 0]
  <2>1. go' = [go EXCEPT ![g] = w]
    BY <1>5 DEF Request, Becomes, Starts
  <2>2. g \in Gos
    BY DEF Gos
  <2>3. TypedGo(w)
    BY <1>3, <1>4, <2>2, ImportAssumption DEF TypedGo, GoFields
  <2> HIDE DEF w
  <2> QED  BY <1>2, <1>5, <2>1, <2>2, <2>3, GoTypes DEF Request
<1>6. ASSUME NEW g \in Trackers, Track(g) PROVE ImportTypes'
  <2>1. PICK s \in 1 .. MaxSlots : go' = [go EXCEPT ![g] = [go[g] EXCEPT !.pc = "pop", !.slots = s]]
    BY <1>6 DEF Track, Becomes
  <2> DEFINE w == [go[g] EXCEPT !.pc = "pop", !.slots = s]
  <2>2. g \in Gos
    BY DEF Gos
  <2>3. TypedGo(w)
    BY <1>3, <1>4, <1>6, <2>2, ImportAssumption DEF TypedGo, GoFields, Track, At
  <2> HIDE DEF w
  <2> QED  BY <1>2, <1>6, <2>1, <2>2, <2>3, GoTypes DEF Track, w
<1>7. ASSUME NEW g \in Trackers, Pop(g) PROVE ImportTypes'
  <2>1. g \in Gos
    BY DEF Gos
  <2>2. CASE queue = <<>>
    BY <1>2, <1>7, <2>1, <2>2, FreeIsTyped, GoTypes DEF Pop, TickEnds
  <2>3. CASE queue # <<>>
    <3> DEFINE w == [go[g] EXCEPT !.pc = "order", !.req = Head(queue), !.limit = FALSE, !.copy = NoCopy, !.files = {},
                                  !.slots = go[g].slots]
    <3>1. go' = [go EXCEPT ![g] = w] /\ queue' = Tail(queue) /\ room' = room - 1
      BY <1>7, <2>3 DEF Pop, Becomes, Starts
    <3>2. Head(queue) \in Requests /\ Tail(queue) \in Seq(Requests) /\ Len(Tail(queue)) = Len(queue) - 1
          /\ Len(queue) \in Nat /\ Len(queue) # 0
      BY <1>2, <2>3
    <3>3. TypedGo(w)
      BY <1>3, <1>4, <2>1, <3>2 DEF TypedGo, GoFields
    <3>4. room' \in Nat /\ Len(queue') <= room' /\ room' <= Capacity
      BY <1>2, <3>1, <3>2, ImportAssumption
    <3> HIDE DEF w
    <3> QED  BY <1>2, <1>7, <2>1, <3>1, <3>2, <3>3, <3>4, GoTypes DEF Pop
  <2> QED  BY <2>2, <2>3
<1>8. ASSUME NEW c \in Copy, DeleteTorrent(c) PROVE ImportTypes'
  <2>1. setbacks' \in 0 .. MaxTroubles
    BY <1>2, <1>8, SetbackTypes DEF DeleteTorrent
  <2>2. copies' \subseteq Copy
    BY <1>2, <1>8 DEF DeleteTorrent
  <2> QED  BY <1>8, <2>1, <2>2 DEF DeleteTorrent, ImportTypes
<1>9. CASE ProcessRestarts
  <2>1. setbacks' \in 0 .. MaxTroubles
    BY <1>9, SetbackTypes DEF ProcessRestarts
  <2>2. answer' \in [Requests -> {"new", "waiting", "added", "refused", "lost"}]
    <3>1. \A r \in Requests :
             (IF r \in Away THEN "lost" ELSE IF \E g \in Callers : go[g].req = r THEN "refused" ELSE answer[r])
             \in {"new", "waiting", "added", "refused", "lost"}
      BY <1>2
    <3> QED  BY <1>9, <3>1 DEF ProcessRestarts
  <2>3. DOMAIN go' = Gos /\ \A g \in Gos : TypedGo(go'[g])
    BY <1>9, FreeIsTyped DEF ProcessRestarts
  <2>4. queue' \in Seq(Requests) /\ Len(queue') = 0 /\ room' = Capacity /\ UNCHANGED copies
    BY <1>9 DEF ProcessRestarts
  <2> QED  BY <1>2, <2>1, <2>2, <2>3, <2>4, ImportAssumption DEF ImportTypes, TypedGo
<1>10. CASE UNCHANGED importVars
  BY <1>10 DEF importVars, ImportTypes, TypedGo
<1> QED  BY <1>5, <1>6, <1>7, <1>8, <1>9, <1>10, GoStepTypes DEF ImportNext

LEMMA ImportTypesHold == ImportSpec => []ImportTypeOK
<1>1. ImportTypes => ImportTypeOK
  <2> SUFFICES ASSUME ImportTypes PROVE ImportTypeOK
    OBVIOUS
  <2>1. ToSet(queue) \subseteq Requests
    BY DEF ImportTypes, ToSet
  <2>2. room \in 0 .. Capacity
    BY ImportAssumption DEF ImportTypes
  <2> QED  BY <2>1, <2>2 DEF ImportTypes, ImportTypeOK, TypedGo
<1> QED  BY ImportTypesInit, ImportTypesNext, <1>1, PTL DEF ImportSpec

-----------------------------------------------------------------------------
\* What else the variables of a listing are.
ListRest ==
    /\ trouble \subseteq {"removed", "failed", "filtered", "limited"}
    /\ placed \subseteq Items /\ present \subseteq Items /\ loaded \in BOOLEAN /\ moves \in 0 .. MaxMoves

LEMMA ListKeeps == ListInv /\ [ListNext]_listVars => ListInv'
BY AddKeeps, RemoveKeeps, FinishKeeps, PageKeeps, FetchKeeps DEF ListNext

LEMMA GoodAreItems == ListTypes => good \subseteq Items /\ fetch.got \subseteq Items
BY Places DEF ListTypes

LEMMA ListRestNext == ListInv /\ ListRest /\ [ListNext]_listVars => ListRest'
<1> SUFFICES ASSUME ListInv, ListRest, [ListNext]_listVars PROVE ListRest'
  OBVIOUS
<1>1. ListTypes /\ good \subseteq Items /\ fetch.got \subseteq Items /\ Taken \subseteq Items
  BY GoodAreItems, AnswersAreItems DEF ListInv
<1>2. MaxMoves \in Nat
  BY ListingAssumption
<1>3. ASSUME NEW x \in Items, RemoteAdd(x) \/ RemoteRemove(x) \/ RemoteFinish(x) \/ RemoteExpire(x) \/ CheckFile(x)
      PROVE  ListRest'
  <2>1. moves' \in 0 .. MaxMoves
    BY <1>2, <1>3 DEF RemoteAdd, RemoteRemove, RemoteFinish, RemoteExpire, CheckFile, Move, ListRest
  <2>2. trouble' \subseteq {"removed", "failed", "filtered", "limited"}
    BY <1>3 DEF RemoteAdd, RemoteRemove, RemoteFinish, RemoteExpire, CheckFile, ListRest
  <2> QED  BY <1>3, <2>1, <2>2 DEF RemoteAdd, RemoteRemove, RemoteFinish, RemoteExpire, CheckFile, ListRest
<1>4. CASE Fetch
  BY <1>4 DEF Fetch, ListRest
<1>5. CASE Page
  <2>1. trouble' \subseteq {"removed", "failed", "filtered", "limited"}
    BY <1>5 DEF Page, ListRest, Early
  <2> QED  BY <1>1, <1>5, <2>1 DEF Page, ListRest
<1>6. CASE PageFails
  BY <1>6 DEF PageFails, ListRest
<1>7. CASE Refresh
  <2>1. placed' \subseteq Items
    BY <1>1, <1>7 DEF Refresh, ByHash, ListRest
  <2> QED  BY <1>7, <2>1 DEF Refresh, ListRest
<1>8. CASE StoreLinks \/ Loaded
  <2>1. placed' \subseteq Items
    BY <1>1, <1>8 DEF StoreLinks, Loaded, ListRest
  <2> QED  BY <1>8, <2>1 DEF StoreLinks, Loaded, ListRest
<1>9. CASE UNCHANGED listVars
  BY <1>9 DEF listVars, ListRest
<1> QED  BY <1>3, <1>4, <1>5, <1>6, <1>7, <1>8, <1>9 DEF ListNext

LEMMA ListTypesHold == ListSpec => []ListTypeOK
<1>1. ListInit => ListRest
  <2> SUFFICES ASSUME ListInit PROVE ListRest
    OBVIOUS
  <2>1. good \subseteq Items
    BY ListStarts, GoodAreItems DEF ListInv
  <2>2. placed \subseteq good
    BY DEF ListInit
  <2>3. trouble = {} /\ present = {} /\ loaded = FALSE /\ moves = 0
    BY DEF ListInit
  <2>4. placed \subseteq Items
    BY <2>1, <2>2
  <2>5. MaxMoves \in Nat
    BY ListingAssumption
  <2>6. moves \in 0 .. MaxMoves
    BY <2>3, <2>5
  <2>7. loaded \in BOOLEAN
    BY <2>3
  <2> QED  BY <2>3, <2>4, <2>6, <2>7 DEF ListRest
<1>2. ListInv /\ ListRest => ListTypeOK
  <2> SUFFICES ASSUME ListInv, ListRest PROVE ListTypeOK
    OBVIOUS
  <2>1. DOMAIN remote = 1 .. Len(remote)
    BY DEF ListInv, ListTypes
  <2> QED  BY <2>1 DEF ListInv, ListTypes, ListRest, ListTypeOK
<1> QED  BY <1>1, <1>2, ListStarts, ListKeeps, ListRestNext, PTL DEF ListSpec

-----------------------------------------------------------------------------
\* What the variables of the streams are, whatever the server answers with.
GetFields == {"pc", "file", "header", "range", "tries", "body", "result"}
TypedView(v, a) ==
    /\ DOMAIN v = GetFields
    /\ v.pc \in {"new", "range", "link", "request", "copy", "open", "read", "end"}
    /\ v.tries \in 0 .. StreamRetries /\ v.result \in {"no", "ok", "error"}
    /\ DOMAIN a = {"status", "declared", "sent"} /\ a.status \in {0, 200, 206, 500}
StreamTypes ==
    /\ DOMAIN get = Viewers /\ DOMAIN response = Viewers
    /\ \A c \in Viewers : TypedView(get[c], response[c])
    /\ activeStreams \subseteq Shows

LEMMA ViewTypes ==
    ASSUME StreamTypes, NEW c \in Viewers, NEW v, NEW a, get' = [get EXCEPT ![c] = v], response' = [response EXCEPT ![c] = a],
           TypedView(v, a), activeStreams' \subseteq Shows
    PROVE  StreamTypes'
BY DEF StreamTypes

LEMMA SameResponse ==
    ASSUME StreamTypes, NEW c \in Viewers, NEW v, get' = [get EXCEPT ![c] = v], UNCHANGED response,
           TypedView(v, response[c]), activeStreams' \subseteq Shows
    PROVE  StreamTypes'
BY DEF StreamTypes

LEMMA OverTypes == ASSUME StreamTypes, NEW c \in Viewers, NEW result \in {"ok", "error"}, Over(c, result) PROVE StreamTypes'
<1>1. get' = [get EXCEPT ![c] = [get[c] EXCEPT !.pc = "end", !.result = result]]
  BY DEF Over, StreamTypes
<1> DEFINE s == IF result = "error" /\ response[c].status = 0 THEN 500 ELSE response[c].status
<1>2. response' = [response EXCEPT ![c] = [response[c] EXCEPT !.status = s]]
  BY DEF Over, StreamTypes
<1>5. s \in {0, 200, 206, 500}
  BY DEF StreamTypes, TypedView
<1> HIDE DEF s
<1>3. activeStreams' \subseteq Shows
  BY DEF Over, UntrackStream, StreamTypes
<1>4. TypedView([get[c] EXCEPT !.pc = "end", !.result = result], [response[c] EXCEPT !.status = s])
  BY <1>5 DEF StreamTypes, TypedView, GetFields
<1> QED  BY <1>1, <1>2, <1>3, <1>4, ViewTypes

LEMMA StreamTypesNext == StreamTypes /\ [StreamNext]_streamVars => StreamTypes'
<1> SUFFICES ASSUME StreamTypes, [StreamNext]_streamVars PROVE StreamTypes'
  OBVIOUS
<1>1. StreamRetries \in Nat /\ activeStreams \subseteq Shows
  BY StreamAssumption DEF StreamTypes
<1>2. ASSUME NEW c \in Viewers PROVE TypedView(get[c], response[c])
  BY DEF StreamTypes
<1>3. ASSUME NEW c \in Viewers, RequestFile(c) PROVE StreamTypes'
  <2>1. PICK f \in Shows, h \in RangeHeaders : get' = [get EXCEPT ![c] = [get[c] EXCEPT !.pc = "range", !.file = f, !.header = h]]
    BY <1>3 DEF RequestFile
  <2> DEFINE v == [get[c] EXCEPT !.pc = "range", !.file = f, !.header = h]
  <2>2. v.file = f
    BY <1>2 DEF TypedView, GetFields
  <2>3. get'[c] = v
    BY <2>1 DEF StreamTypes
  <2>4. TypedView(v, response[c])
    BY <1>2 DEF TypedView, GetFields
  <2>5. activeStreams' \subseteq Shows
    BY <1>1, <1>3, <2>2, <2>3 DEF RequestFile, TrackStream
  <2> HIDE DEF v
  <2> QED  BY <1>3, <2>1, <2>4, <2>5, SameResponse DEF RequestFile, v
<1>4. ASSUME NEW c \in Viewers, Begin(c) PROVE StreamTypes'
  <2> DEFINE r == Normalize(ShownSize(FileOf(c)), GetRange(FileOf(c), get[c].header))
             p == IF ShowOf[FileOf(c)].source = "usenet" THEN "open" ELSE "link"
  <2>1. CASE r = NoRange
    BY <1>4, <2>1, OverTypes DEF Begin
  <2>2. CASE r # NoRange
    <3>1. get' = [get EXCEPT ![c].range = r, ![c].pc = p] /\ UNCHANGED <<response, activeStreams>>
      BY <1>4, <2>2 DEF Begin
    <3> HIDE DEF r, p
    <3>2. get' = [get EXCEPT ![c] = [get[c] EXCEPT !.range = r, !.pc = p]]
      BY <3>1 DEF StreamTypes
    <3>3. p \in {"open", "link"}
      BY DEF p
    <3>4. TypedView([get[c] EXCEPT !.range = r, !.pc = p], response[c])
      BY <1>2, <3>3 DEF TypedView, GetFields
    <3> QED  BY <1>1, <3>1, <3>2, <3>4, SameResponse
  <2> QED  BY <2>1, <2>2
<1>5. ASSUME NEW c \in Viewers, LinkFound(c) \/ RequestAgain(c) PROVE StreamTypes'
  <2>1. CASE LinkFound(c)
    <3>1. get' = [get EXCEPT ![c] = [get[c] EXCEPT !.pc = "request"]]
      BY <2>1 DEF LinkFound, StreamTypes
    <3>2. TypedView([get[c] EXCEPT !.pc = "request"], response[c])
      BY <1>2 DEF TypedView, GetFields
    <3> QED  BY <1>1, <2>1, <3>1, <3>2, SameResponse DEF LinkFound
  <2>2. CASE RequestAgain(c)
    <3>1. get' = [get EXCEPT ![c] = [get[c] EXCEPT !.tries = get[c].tries + 1]] /\ get[c].tries < StreamRetries
      BY <2>2 DEF RequestAgain, StreamTypes
    <3>2. TypedView([get[c] EXCEPT !.tries = get[c].tries + 1], response[c])
      BY <1>1, <1>2, <3>1 DEF TypedView, GetFields
    <3> QED  BY <1>1, <2>2, <3>1, <3>2, SameResponse DEF RequestAgain
  <2> QED  BY <1>5, <2>1, <2>2
<1>6. ASSUME NEW c \in Viewers, NoLinkFound(c) \/ RequestFails(c) \/ CopyFails(c) PROVE StreamTypes'
  BY <1>6, OverTypes DEF NoLinkFound, RequestFails, CopyFails
<1>7. ASSUME NEW c \in Viewers, Responds(c) PROVE StreamTypes'
  <2>1. PICK whole \in BOOLEAN :
           /\ Told(c, IF whole /\ ~IsPartial(c) THEN 200 ELSE 206)
           /\ get' = [get EXCEPT ![c].pc = "copy", ![c].body = IF whole THEN 0 ELSE get[c].range.lo]
    BY <1>7 DEF Responds
  <2> DEFINE b == IF whole THEN 0 ELSE get[c].range.lo
             s == IF whole /\ ~IsPartial(c) THEN 200 ELSE 206
  <2>2. s \in {200, 206}
    OBVIOUS
  <2>3. get' = [get EXCEPT ![c].pc = "copy", ![c].body = b] /\ Told(c, s)
    BY <2>1
  <2> HIDE DEF b, s
  <2>4. get' = [get EXCEPT ![c] = [get[c] EXCEPT !.pc = "copy", !.body = b]]
    BY <2>3 DEF StreamTypes
  <2>5. response' = [response EXCEPT ![c] = [response[c] EXCEPT !.status = s, !.declared = get[c].range]]
    BY <2>3 DEF Told, StreamTypes
  <2>6. TypedView([get[c] EXCEPT !.pc = "copy", !.body = b], [response[c] EXCEPT !.status = s, !.declared = get[c].range])
    BY <1>2, <2>2 DEF TypedView, GetFields
  <2> QED  BY <1>1, <1>7, <2>4, <2>5, <2>6, ViewTypes DEF Responds
<1>8. ASSUME NEW c \in Viewers, SendBody(c) PROVE StreamTypes'
  <2>1. PICK n \in 0 .. Expected(c) :
           /\ get' = [get EXCEPT ![c].pc = "end", ![c].result = IF n = Expected(c) THEN "ok" ELSE "error"]
           /\ response' = [response EXCEPT ![c].sent = [i \in 1 .. n |-> get[c].body + i - 1]]
    BY <1>8 DEF SendBody
  <2> DEFINE o == IF n = Expected(c) THEN "ok" ELSE "error"
             t == [i \in 1 .. n |-> get[c].body + i - 1]
  <2>2. o \in {"ok", "error"} /\ get' = [get EXCEPT ![c].pc = "end", ![c].result = o]
        /\ response' = [response EXCEPT ![c].sent = t]
    BY <2>1
  <2> HIDE DEF o, t
  <2>3. get' = [get EXCEPT ![c] = [get[c] EXCEPT !.pc = "end", !.result = o]]
        /\ response' = [response EXCEPT ![c] = [response[c] EXCEPT !.sent = t]]
    BY <2>2 DEF StreamTypes
  <2>4. TypedView([get[c] EXCEPT !.pc = "end", !.result = o], [response[c] EXCEPT !.sent = t])
    BY <1>2, <2>2 DEF TypedView, GetFields
  <2>5. activeStreams' \subseteq Shows
    BY <1>1, <1>8 DEF SendBody, UntrackStream
  <2> QED  BY <2>3, <2>4, <2>5, ViewTypes
<1>9. ASSUME NEW c \in Viewers, OpenUsenet(c) PROVE StreamTypes'
  <2> DEFINE s == IF IsPartial(c) THEN 206 ELSE 200
  <2>1. s \in {200, 206} /\ Told(c, s)
    BY <1>9 DEF OpenUsenet
  <2> HIDE DEF s
  <2>2. get' = [get EXCEPT ![c] = [get[c] EXCEPT !.pc = "read"]]
    BY <1>9 DEF OpenUsenet, StreamTypes
  <2>5. response' = [response EXCEPT ![c].status = s, ![c].declared = get[c].range]
    BY <2>1 DEF Told
  <2>3. response' = [response EXCEPT ![c] = [response[c] EXCEPT !.status = s, !.declared = get[c].range]]
    BY <2>5 DEF StreamTypes
  <2>4. TypedView([get[c] EXCEPT !.pc = "read"], [response[c] EXCEPT !.status = s, !.declared = get[c].range])
    BY <1>2, <2>1 DEF TypedView, GetFields
  <2> QED  BY <1>1, <1>9, <2>2, <2>3, <2>4, ViewTypes DEF OpenUsenet
<1>10. ASSUME NEW c \in Viewers, CopyBuffer(c) PROVE StreamTypes'
  <2>1. CASE Over(c, "ok")
    BY <2>1, OverTypes
  <2>2. CASE ~Over(c, "ok")
    <3>1. PICK got : response' = [response EXCEPT ![c].sent = @ \o got] /\ UNCHANGED <<get, activeStreams>>
      BY <1>10, <2>2 DEF CopyBuffer
    <3> DEFINE t == response[c].sent \o got
    <3>2. response' = [response EXCEPT ![c] = [response[c] EXCEPT !.sent = t]]
      BY <3>1 DEF StreamTypes
    <3> HIDE DEF t
    <3>3. TypedView(get[c], [response[c] EXCEPT !.sent = t])
      BY <1>2 DEF TypedView
    <3> QED  BY <1>1, <3>1, <3>2, <3>3 DEF StreamTypes
  <2> QED  BY <2>1, <2>2
<1>11. CASE UNCHANGED streamVars
  BY <1>11 DEF streamVars, StreamTypes
<1> QED  BY <1>3, <1>4, <1>5, <1>6, <1>7, <1>8, <1>9, <1>10, <1>11 DEF StreamNext

LEMMA StreamTypesHold == StreamSpec => []StreamsTypeOK
<1>1. StreamInit => StreamTypes
  BY StreamAssumption DEF StreamInit, StreamTypes, TypedView, GetFields
<1>2. StreamTypes => StreamsTypeOK
  BY DEF StreamTypes, TypedView, StreamsTypeOK
<1> QED  BY <1>1, <1>2, StreamTypesNext, PTL DEF StreamSpec

-----------------------------------------------------------------------------
(* The parts side by side *)

LEMMA ImportsParts ==
    /\ ImportsInit => /\ ImportInit /\ ListInit /\ NzbInit /\ LayoutInit
                      /\ ChecksInit /\ ReadersInit /\ DownloadInit /\ StreamInit
    /\ [ImportsNext]_importsVars =>
          /\ [ImportNext]_importVars /\ [ListNext]_listVars /\ [NzbNext]_nzbVars /\ [LayoutNext]_layoutVars
          /\ [ChecksNext]_checkVars /\ [ReadersNext]_readersVars /\ [DownloadNext]_downloadVars /\ [StreamNext]_streamVars
<1>1. ImportsInit => /\ ImportInit /\ ListInit /\ NzbInit /\ LayoutInit
                     /\ ChecksInit /\ ReadersInit /\ DownloadInit /\ StreamInit
  BY DEF ImportsInit
<1>2. ASSUME ImportsNext
      PROVE  /\ [ImportNext]_importVars /\ [ListNext]_listVars /\ [NzbNext]_nzbVars /\ [LayoutNext]_layoutVars
             /\ [ChecksNext]_checkVars /\ [ReadersNext]_readersVars /\ [DownloadNext]_downloadVars /\ [StreamNext]_streamVars
  BY <1>2 DEF ImportsNext, InImport, InList, InNzb, InLayout, InCheck, InReaders, InDownload, InStreams
<1>3. ASSUME UNCHANGED importsVars
      PROVE  UNCHANGED <<importVars, listVars, nzbVars, layoutVars, checkVars, readersVars, downloadVars, streamVars>>
  BY <1>3 DEF importsVars
<1> QED  BY <1>1, <1>2, <1>3

\* Every part keeps to its types, next to the others: the queue of requests
\* and the goroutines of the imports, the lists that are paged, the markers of
\* the NZBs, the pieces of a file, the claims and tokens of the article
\* checks, the readers' counts, the download's channel and the streams.
THEOREM ImportsTypes == ImportsSpec => []ImportsTypeOK
<1>1. ImportsSpec => ImportSpec /\ ListSpec /\ NzbSpec /\ LayoutSpec /\ ChecksSpec /\ ReadersSpec /\ DownloadSpec /\ StreamSpec
  BY ImportsParts, PTL
     DEF ImportsSpec, ImportSpec, ListSpec, NzbSpec, LayoutSpec, ChecksSpec, ReadersSpec, DownloadSpec, StreamSpec
<1>2. ImportTypeOK /\ ListTypeOK /\ NzbTypeOK /\ LayoutTypeOK /\ ChecksTypeOK /\ ReadersTypeOK /\ DownloadTypeOK
      /\ StreamsTypeOK => ImportsTypeOK
  BY DEF ImportsTypeOK
<1> QED  BY <1>1, <1>2, ImportTypesHold, ListTypesHold, NzbTypesHold, LayoutTypeCorrect, ChecksTypes, ReadersTypes, DownloadTypes,
            StreamTypesHold, PTL
===============================================================================
