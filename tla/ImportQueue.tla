------------------------------ MODULE ImportQueue ------------------------------
(***************************************************************************)
(* How a torrent gets to a debrid: AddNewTorrent and SendToDebrid of       *)
(* pkg/manager/processor.go, the queue of requests that wait for a slot    *)
(* (queue.go), the slot tracker (manager.go), and SubmitMagnet, CheckStatus *)
(* and DeleteTorrent of the five provider clients.  A goroutine is a caller *)
(* of the front ends or a tick of the tracker.  What happens to the entry  *)
(* afterwards is in QueueProcessor.                                        *)
(***************************************************************************)
EXTENDS Integers, Sequences, FiniteSets, SequencesExt

CONSTANTS
    Requests,
    Priority,       \* the debrids in the order of the configuration
    Selected,       \* the debrids a request may go to (SelectedDebrid)
    Uncached,       \* requests with DownloadUncached
    Capacity,       \* of the queue, 1000 in the code
    Callers, Trackers,
    MaxSlots, MaxCopies, MaxTroubles,
    NoRequest, NoCopy

Kinds == {"realdebrid", "torbox", "alldebrid", "debridlink", "premiumize"}
Debrids == ToSet(Priority)
Gos   == Callers \cup Trackers

Copy == Debrids \X Requests \X (1 .. MaxCopies)

ASSUME ImportAssumption ==
    /\ Priority \in Seq(Debrids) /\ NoRequest \notin Requests /\ NoCopy \notin Copy
    /\ Selected \in [Requests -> SUBSET Debrids] /\ Uncached \subseteq Requests
    /\ Capacity \in Nat \ {0} /\ MaxSlots \in Nat \ {0} /\ MaxCopies \in Nat /\ MaxTroubles \in Nat
    /\ Callers \cap Trackers = {}

VARIABLES
    kind,       \* which client a debrid has
    queue,      \* the requests that wait
    room,       \* the capacity of the slice: reslicing takes from it
    answer,     \* what became of a request
    go,         \* the local variables of the goroutines
    copies,     \* the torrents at the debrids that requests have led to
    deleting,   \* those a background DeleteTorrent is about to delete
    kept,       \* the one an entry was made for
    strays,     \* those that were left behind
    setbacks    \* failures that leave something behind, up to MaxTroubles

importVars == <<kind, queue, room, answer, go, copies, deleting, kept, strays, setbacks>>

Free == [pc |-> "idle", req |-> NoRequest, rest |-> <<>>, limit |-> FALSE, copy |-> NoCopy, files |-> {}, slots |-> 0]

ImportInit ==
    /\ kind \in [Debrids -> Kinds]
    /\ queue = <<>> /\ room = Capacity
    /\ answer = [r \in Requests |-> "new"]
    /\ go = [g \in Gos |-> Free]
    /\ copies = {} /\ deleting = {} /\ kept = {} /\ strays = {}
    /\ setbacks = 0

Setback == setbacks < MaxTroubles /\ setbacks' = setbacks + 1

At(g, pc) == go[g].pc = pc
Becomes(g, w) == go' = [go EXCEPT ![g] = w]

-----------------------------------------------------------------------------
(* SendToDebrid *)

Starts(g, r, slots) ==
    Becomes(g, [go[g] EXCEPT !.pc = "order", !.req = r, !.limit = FALSE, !.copy = NoCopy, !.files = {},
                             !.slots = slots])

\* A front end calls AddNewTorrent.
Request(g, r) ==
    /\ At(g, "idle") /\ answer[r] = "new"
    /\ \A h \in Gos : go[h].req # r
    /\ Starts(g, r, 0)
    /\ UNCHANGED <<kind, queue, room, answer, copies, deleting, kept, strays, setbacks>>

Those(S) == FlattenSeq([i \in DOMAIN Priority |-> IF Priority[i] \in S THEN <<Priority[i]>> ELSE <<>>])

\* orderDebridClients: those that have it cached come first.  IsAvailable is
\* asked when there is a choice.
Order(g) ==
    LET S == Selected[go[g].req]
    IN  /\ At(g, "order")
        /\ \E cached \in SUBSET S :
              /\ Cardinality(S) < 2 => cached = {}
              /\ Becomes(g, [go[g] EXCEPT !.pc = "submit", !.rest = Those(cached) \o Those(S \ cached)])
        /\ UNCHANGED <<kind, queue, room, answer, copies, deleting, kept, strays, setbacks>>

Target(g)   == Head(go[g].rest)
HasNext(g)  == At(g, "submit") /\ go[g].rest # <<>>
Fresh(d, r) == CHOOSE n \in 1 .. MaxCopies : <<d, r, n>> \notin copies
HasFresh(d, r) == \E n \in 1 .. MaxCopies : <<d, r, n>> \notin copies

\* SubmitMagnet.  Premiumize does not submit what is not cached, unless asked
\* to; debrid-link answers with the files it knows of, and they are added to
\* those that are there.
Accepted(g) ==
    LET d == Target(g)  r == go[g].req
    IN  /\ HasNext(g) /\ HasFresh(d, r)
        /\ copies' = copies \cup {<<d, r, Fresh(d, r)>>}
        /\ \E knows \in BOOLEAN :
              Becomes(g, [go[g] EXCEPT !.pc = "check", !.copy = <<d, r, Fresh(d, r)>>,
                                       !.files = IF kind[d] = "debridlink" /\ knows THEN @ \cup {d} ELSE @])
        /\ UNCHANGED <<kind, queue, room, answer, deleting, kept, strays, setbacks>>

\* 509 of Real-Debrid is TooManyActiveDownloadsError; the others' limits,
\* that of torbox's own limiter too, are plain errors.
Refused(g) ==
    LET d == Target(g)
    IN  /\ HasNext(g)
        /\ \E limit \in BOOLEAN :
              /\ limit => kind[d] = "realdebrid"
              /\ Becomes(g, [go[g] EXCEPT !.rest = Tail(@), !.limit = @ \/ limit])
        /\ UNCHANGED <<kind, queue, room, answer, copies, deleting, kept, strays, setbacks>>

\* AllDebrid answers for each magnet, and the error in that answer is not
\* looked at: the torrent has the id 0, of which no status can be had.
AcceptedAsZero(g) ==
    /\ HasNext(g) /\ kind[Target(g)] = "alldebrid"
    /\ Becomes(g, [go[g] EXCEPT !.rest = Tail(@)])
    /\ UNCHANGED <<kind, queue, room, answer, copies, deleting, kept, strays, setbacks>>

-----------------------------------------------------------------------------
(* CheckStatus *)

\* The files of the torrent afterwards, by client, if it is there and if it
\* is finished.  t is one record for all the debrids that are tried.
FilesAfter(g, d, finished) ==
    CASE kind[d] = "realdebrid" -> IF finished THEN {{d}} ELSE {{d}, go[g].files}
      [] kind[d] = "torbox"     -> {{d}}
      [] kind[d] = "alldebrid"  -> IF finished THEN {{d}} ELSE {go[g].files}
      [] kind[d] = "debridlink" -> {go[g].files \cup {d}, go[g].files}
      [] OTHER                  -> IF finished THEN {{d}} ELSE {{}}

\* Downloaded, or downloading and that is what was asked for.
Succeeds(g) ==
    LET d == go[g].copy[1]
    IN  /\ At(g, "check")
        /\ \E finished \in BOOLEAN :
              /\ finished \/ go[g].req \in Uncached
              /\ \E F \in FilesAfter(g, d, finished) : Becomes(g, [go[g] EXCEPT !.pc = "add", !.files = F])
        /\ UNCHANGED <<kind, queue, room, answer, copies, deleting, kept, strays, setbacks>>

\* Mutant: only what could not be downloaded is deleted, not what is not cached.
Discards_Errors(g, cause) == IF cause = "error" THEN {go[g].copy} ELSE {}

\* An error that comes with the torrent: it is deleted in the background.
Discards(g, cause) == {go[g].copy}

Fails(g) ==
    LET d == go[g].copy[1]
    IN  /\ At(g, "check")
        /\ \E cause \in {"error", "uncached"} :
              /\ cause = "uncached" => go[g].req \notin Uncached
              /\ deleting' = deleting \cup Discards(g, cause)
        /\ \E F \in FilesAfter(g, d, FALSE) \cup {go[g].files} :
              Becomes(g, [go[g] EXCEPT !.pc = "submit", !.rest = Tail(@), !.copy = NoCopy, !.files = F])
        /\ UNCHANGED <<kind, queue, room, answer, copies, kept, strays, setbacks>>

\* Real-Debrid's 509 to the selection of the files: no torrent is returned
\* with the error, and what was submitted stays there.
SelectionLimited(g) ==
    /\ At(g, "check") /\ kind[go[g].copy[1]] = "realdebrid"
    /\ Setback
    /\ strays' = strays \cup {go[g].copy}
    /\ Becomes(g, [go[g] EXCEPT !.pc = "submit", !.rest = Tail(@), !.limit = TRUE, !.copy = NoCopy,
                                !.files = {go[g].copy[1]}])
    /\ UNCHANGED <<kind, queue, room, answer, copies, deleting, kept>>

DeleteTorrent(c) ==
    /\ c \in deleting
    /\ deleting' = deleting \ {c}
    /\ \/ /\ copies' = copies \ {c}
          /\ UNCHANGED <<strays, setbacks>>
       \/ /\ Setback
          /\ strays' = strays \cup {c} /\ UNCHANGED copies
    /\ UNCHANGED <<kind, queue, room, answer, go, kept>>

-----------------------------------------------------------------------------
(* The rest of AddNewTorrent, and the tracker's loop *)

\* A tick goes on with the slots it has left; after an error it ends.
GoesOn(g) ==
    go' = [go EXCEPT ![g] = IF g \in Trackers /\ go[g].slots > 1
                            THEN [Free EXCEPT !.pc = "pop", !.slots = go[g].slots - 1]
                            ELSE Free]
TickEnds(g) == go' = [go EXCEPT ![g] = Free]

Answers(g, a) == answer' = [answer EXCEPT ![go[g].req] = a]
Error(g)      == IF g \in Callers THEN "refused" ELSE "lost"

Added(g) ==
    /\ At(g, "add")
    /\ kept' = kept \cup {go[g].copy}
    /\ Answers(g, "added")
    /\ GoesOn(g)
    /\ UNCHANGED <<kind, queue, room, copies, deleting, strays, setbacks>>

\* The queue store fails.
NotAdded(g) ==
    /\ At(g, "add")
    /\ Setback
    /\ strays' = strays \cup {go[g].copy}
    /\ Answers(g, Error(g))
    /\ TickEnds(g)
    /\ UNCHANGED <<kind, queue, room, copies, deleting, kept>>

NoneLeft(g) == At(g, "submit") /\ go[g].rest = <<>>

Enqueued(r) == Append(queue, r)

\* One of the errors is the limit: ReQueue.
ReQueued(g) ==
    /\ NoneLeft(g) /\ go[g].limit /\ Len(queue) < room
    /\ queue' = Enqueued(go[g].req)
    /\ Answers(g, "waiting")
    /\ GoesOn(g)
    /\ UNCHANGED <<kind, room, copies, deleting, kept, strays, setbacks>>

\* No debrid takes it, or the queue is full.
Rejected(g) ==
    /\ NoneLeft(g) /\ (go[g].limit => Len(queue) >= room)
    /\ Answers(g, Error(g))
    /\ TickEnds(g)
    /\ UNCHANGED <<kind, queue, room, copies, deleting, kept, strays, setbacks>>

\* trackAvailableSlots: a tick that finds slots and requests.  Which debrid
\* has the slots does not matter to the request that is taken.
Track(g) ==
    /\ At(g, "idle") /\ queue # <<>>
    /\ \E s \in 1 .. MaxSlots : Becomes(g, [go[g] EXCEPT !.pc = "pop", !.slots = s])
    /\ UNCHANGED <<kind, queue, room, answer, copies, deleting, kept, strays, setbacks>>

\* PopRequest: q.queue[1:] also has one place less.
Pop(g) ==
    /\ At(g, "pop")
    /\ IF queue = <<>>
       THEN TickEnds(g) /\ UNCHANGED <<queue, room>>
       ELSE /\ Starts(g, Head(queue), go[g].slots)
            /\ queue' = Tail(queue) /\ room' = room - 1
    /\ UNCHANGED <<kind, answer, copies, deleting, kept, strays, setbacks>>

-----------------------------------------------------------------------------
Held == {go[g].copy : g \in {h \in Gos : At(h, "check") \/ At(h, "add")}}
Away == {go[g].req : g \in Trackers} \cup ToSet(queue)

\* The process ends and starts again: the queue is in memory only.
ProcessRestarts ==
    /\ Setback
    /\ queue' = <<>> /\ room' = Capacity
    /\ answer' = [r \in Requests |-> IF r \in Away THEN "lost"
                                     ELSE IF \E g \in Callers : go[g].req = r THEN "refused" ELSE answer[r]]
    /\ go' = [g \in Gos |-> Free]
    /\ strays' = strays \cup Held \cup deleting
    /\ deleting' = {}
    /\ UNCHANGED <<kind, copies, kept>>

-----------------------------------------------------------------------------
GoStep(g) ==
    \/ Order(g) \/ Accepted(g) \/ Refused(g) \/ AcceptedAsZero(g)
    \/ Succeeds(g) \/ Fails(g) \/ SelectionLimited(g)
    \/ Added(g) \/ NotAdded(g) \/ ReQueued(g) \/ Rejected(g)

ImportNext ==
    \/ \E g \in Callers, r \in Requests : Request(g, r)
    \/ \E g \in Trackers : Track(g) \/ Pop(g)
    \/ \E g \in Gos : GoStep(g)
    \/ \E c \in Copy : DeleteTorrent(c)
    \/ ProcessRestarts

ImportSpec == ImportInit /\ [][ImportNext]_importVars

-----------------------------------------------------------------------------
ImportTypeOK ==
    /\ ToSet(queue) \subseteq Requests /\ room \in 0 .. Capacity
    /\ answer \in [Requests -> {"new", "waiting", "added", "refused", "lost"}]
    /\ \A g \in Gos :
          /\ go[g].pc \in {"idle", "pop", "order", "submit", "check", "add"}
          /\ go[g].req \in Requests <=> go[g].pc \notin {"idle", "pop"}
          /\ go[g].copy \in Copy <=> go[g].pc \in {"check", "add"}
          /\ go[g].slots \in 0 .. MaxSlots
    /\ copies \subseteq Copy /\ setbacks \in 0 .. MaxTroubles

\* Whatever is tried, and in whichever order the debrids refuse, what a
\* request has made a debrid download is its entry's, or is about to be
\* deleted, unless one of the failures that are named left it behind.
CopiesOwned == \A c \in copies : c \in Held \cup deleting \cup kept \cup strays

\* Refuted by TLC.  queue.go:299: a request is turned away as "queue is full"
\* only when as many wait as the queue was made for.
FullMeansFull == Len(queue) >= room => Len(queue) >= Capacity

\* Refuted by TLC.  A request that was accepted is not dropped.
AcceptedNotLost == \A r \in Requests : setbacks = 0 => answer[r] # "lost"

\* Refuted by TLC.  The entry gets the files of the debrid it is at.
FilesOfItsOwn == \A g \in Gos : At(g, "add") => go[g].files \subseteq {go[g].copy[1]}

\* Refuted by TLC.  Nothing is left at a debrid for which there is no entry.
NothingLeftBehind == strays \subseteq kept
=============================================================================
