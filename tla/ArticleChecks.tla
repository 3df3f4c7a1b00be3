----------------------------- MODULE ArticleChecks -----------------------------
(***************************************************************************)
(* Whether a file of an NZB is still there: CheckFile of pkg/usenet, which *)
(* the repair asks, and under it BatchStat of internal/nntp, which asks    *)
(* the providers for a sample of the segments, in chunks, with as many     *)
(* workers as the repair bank has tokens.  How a worker gets its           *)
(* connection is in NntpFailover.                                          *)
(***************************************************************************)
EXTENDS Integers, Sequences, FiniteSets, SequencesExt, FiniteSetsExt

CONSTANTS
    Checks,         \* calls of CheckFile
    Providers,      \* a sequence, in the order of the configuration
    Source,         \* the backbone of a provider, or else its host
    Total,          \* segments of the file
    Percent,        \* AvailabilitySamplePercent
    ChunkSize,      \* pipelineBatchSize, 50 in the code
    BankCapacity    \* tokens; 0 when there is no bank

Segments == 1 .. Total
Hosts    == ToSet(Providers)
Sources  == {Source[p] : p \in Hosts}
MaxWorkers == IF BankCapacity = 0 THEN 2 ELSE BankCapacity
Workers  == Checks \X (1 .. MaxWorkers)

ASSUME ChecksAssumption ==
    /\ IsFiniteSet(Checks) /\ Total \in Nat \ {0} /\ Percent \in Nat /\ ChunkSize \in Nat \ {0} /\ BankCapacity \in Nat
    /\ Providers \in Seq(Hosts) /\ Hosts \subseteq DOMAIN Source

VARIABLES
    gone,       \* <<s, b>>: the providers of source b do not have segment s
    check,      \* of a call: what is left of chunksCh, the results, the verdict
    worker,     \* the workers of BatchStat
    tokens      \* in the bank

checkVars == <<gone, check, worker, tokens>>

NoWork == [pc |-> "off", chunk |-> {}, next |-> 1, open |-> {}, notFound |-> {}, otherErr |-> {}]

ChecksInit ==
    /\ gone \in SUBSET (Segments \X Sources)
    /\ check = [c \in Checks |-> [pc |-> "new", chunks |-> <<>>, found |-> {}, missing |-> {},
                                  cancelled |-> FALSE, verdict |-> "none"]]
    /\ worker = [w \in Workers |-> NoWork]
    /\ tokens = BankCapacity

CallOf(w)        == w[1]
WorkerGoes(w, pc) == worker' = [worker EXCEPT ![w].pc = pc]
NextChunk(c)      == check' = [check EXCEPT ![c].chunks = Tail(@)]
WorkerAt(w, pc)  == worker[w].pc = pc

-----------------------------------------------------------------------------
\* sampleSegments: the first, the last and k of those between them at equal
\* steps, or all.  (The steps are floats, which may fall short of a whole
\* number by the last bit; the segment before would do as well.)
Between(k) == {((Total - 2) * i) \div (k + 1) + 2 : i \in 1 .. k}

Sample ==
    LET target == Max({2, (Total * Percent) \div 100})
    IN  IF Percent >= 100 \/ Total <= 3 THEN Segments
        ELSE {1, Total} \cup Between(target - 2)

\* Chunks of ChunkSize, in the order of the file.
ChunksOf(S) ==
    LET place(s) == Cardinality({t \in S : t < s})
        count    == (Cardinality(S) + ChunkSize - 1) \div ChunkSize
    IN  [i \in 1 .. count |-> {s \in S : place(s) \div ChunkSize = i - 1}]

\* CheckFile calls BatchStat, which starts its workers.
Check(c) ==
    LET chunks == ChunksOf(Sample)
    IN  /\ check[c].pc = "new"
        /\ check' = [check EXCEPT ![c].pc = "running", ![c].chunks = chunks]
        /\ worker' = [w \in Workers |-> IF CallOf(w) = c /\ w[2] <= Min({MaxWorkers, Len(chunks)})
                                        THEN [NoWork EXCEPT !.pc = "bank"] ELSE worker[w]]
        /\ UNCHANGED <<gone, tokens>>

\* The client is closed: an error of BatchStat is not one of the file.
NotChecked(c) ==
    /\ check[c].pc = "new"
    /\ check' = [check EXCEPT ![c].pc = "done", ![c].verdict = "fine"]
    /\ UNCHANGED <<gone, worker, tokens>>

Cancel(c) ==
    /\ check[c].pc = "running" /\ ~check[c].cancelled
    /\ check' = [check EXCEPT ![c].cancelled = TRUE]
    /\ UNCHANGED <<gone, worker, tokens>>

Acquire(w) ==
    /\ WorkerAt(w, "bank")
    /\ BankCapacity = 0 \/ tokens > 0
    /\ tokens' = IF BankCapacity = 0 THEN tokens ELSE tokens - 1
    /\ WorkerGoes(w, "free")
    /\ UNCHANGED <<gone, check>>

\* Its context ends while it waits for a token: it drains the channel.
AcquireCancelled(w) ==
    /\ WorkerAt(w, "bank") /\ BankCapacity # 0 /\ check[CallOf(w)].cancelled
    /\ WorkerGoes(w, "drain")
    /\ UNCHANGED <<gone, check, tokens>>

\* Every segment of the chunk is an error, which is neither found nor missing.
ChunkFails(w) ==
    LET c == CallOf(w)
    IN  /\ check[c].chunks # <<>>
        /\ WorkerAt(w, "drain") \/ (WorkerAt(w, "free") /\ check[c].cancelled)
        /\ NextChunk(c)
        /\ UNCHANGED <<gone, worker, tokens>>

Take(w) ==
    LET c == CallOf(w)
    IN  /\ WorkerAt(w, "free") /\ check[c].chunks # <<>> /\ ~check[c].cancelled
        /\ worker' = [worker EXCEPT ![w] = [pc |-> "stat", chunk |-> Head(check[c].chunks), next |-> 1,
                                           open |-> Head(check[c].chunks), notFound |-> {}, otherErr |-> {}]]
        /\ NextChunk(c)
        /\ UNCHANGED <<gone, tokens>>

\* Mutant: the token is given back by a worker that did not get one, too.
WorkerEnds_AlwaysReturns(w) ==
    /\ WorkerAt(w, "free") \/ WorkerAt(w, "drain")
    /\ check[CallOf(w)].chunks = <<>>
    /\ tokens' = tokens + 1
    /\ worker' = [worker EXCEPT ![w] = NoWork]
    /\ UNCHANGED <<gone, check>>

WorkerEnds(w) ==
    /\ WorkerAt(w, "free") \/ WorkerAt(w, "drain")
    /\ check[CallOf(w)].chunks = <<>>
    /\ tokens' = IF WorkerAt(w, "free") /\ BankCapacity # 0 THEN tokens + 1 ELSE tokens
    /\ worker' = [worker EXCEPT ![w] = NoWork]
    /\ UNCHANGED <<gone, check>>

-----------------------------------------------------------------------------
(* batchStatAcrossProviders *)

Asked(w) == Providers[worker[w].next]

\* The segments of which no provider of the same backbone has said that it
\* does not have them.
Queried(w) == {s \in worker[w].open : <<s, Source[Asked(w)]>> \notin worker[w].notFound}

HasNextProvider(w) ==
    /\ WorkerAt(w, "stat") /\ worker[w].open # {} /\ worker[w].next <= Len(Providers)
    /\ ~check[CallOf(w)].cancelled

\* PipelinedStat: an answer for each segment, or an error, of the server or of
\* the connection that is lost; no connection at all is an error for each.
Ask(w) ==
    LET Q == Queried(w)  b == Source[Asked(w)]
    IN  /\ HasNextProvider(w)
        /\ \E errors \in SUBSET Q :
              LET answered == Q \ errors
                  missing  == {s \in answered : <<s, b>> \in gone}
              IN  worker' = [worker EXCEPT ![w].next     = @ + 1,
                                           ![w].open     = @ \ (answered \ missing),
                                           ![w].notFound = @ \cup (missing \X {b}),
                                           ![w].otherErr = @ \cup errors]
        /\ UNCHANGED <<gone, check, tokens>>

\* Mutant: an error at one provider does not keep a segment from being missing.
Missing_DespiteErrors(w) == {s \in worker[w].open : \E b \in Sources : <<s, b>> \in worker[w].notFound}

\* Not found on any provider: that some did not answer is an error instead.
Missing(w) ==
    {s \in worker[w].open : \E b \in Sources : <<s, b>> \in worker[w].notFound} \ worker[w].otherErr

Conclude(w) ==
    LET c == CallOf(w)
    IN  /\ WorkerAt(w, "stat")
        /\ worker[w].open = {} \/ worker[w].next > Len(Providers)
        /\ check' = [check EXCEPT ![c].found   = @ \cup (worker[w].chunk \ worker[w].open),
                                  ![c].missing = @ \cup Missing(w)]
        /\ WorkerGoes(w, "free")
        /\ UNCHANGED <<gone, tokens>>

\* The context ends between two providers: the whole chunk is an error.
Abandon(w) ==
    /\ WorkerAt(w, "stat") /\ check[CallOf(w)].cancelled
    /\ worker[w].open # {} /\ worker[w].next <= Len(Providers)
    /\ WorkerGoes(w, "free")
    /\ UNCHANGED <<gone, check, tokens>>

\* checkFileAvailability: only what is missing counts.
Judge(c) ==
    /\ check[c].pc = "running"
    /\ \A w \in Workers : CallOf(w) = c => WorkerAt(w, "off")
    /\ check' = [check EXCEPT ![c].pc = "done", ![c].verdict = IF check[c].missing # {} THEN "missing" ELSE "fine"]
    /\ UNCHANGED <<gone, worker, tokens>>

-----------------------------------------------------------------------------
ChecksNext ==
    \/ \E c \in Checks : Check(c) \/ NotChecked(c) \/ Cancel(c) \/ Judge(c)
    \/ \E w \in Workers :
          \/ Acquire(w) \/ AcquireCancelled(w) \/ ChunkFails(w) \/ Take(w) \/ WorkerEnds(w)
          \/ Ask(w) \/ Conclude(w) \/ Abandon(w)

ChecksSpec == ChecksInit /\ [][ChecksNext]_checkVars

-----------------------------------------------------------------------------
ChecksTypeOK ==
    /\ gone \subseteq Segments \X Sources /\ tokens \in 0 .. BankCapacity
    /\ \A c \in Checks :
          /\ check[c].pc \in {"new", "running", "done"}
          /\ check[c].verdict \in {"none", "fine", "missing"}
          /\ check[c].found \cup check[c].missing \subseteq Segments
    /\ \A w \in Workers :
          /\ worker[w].pc \in {"off", "bank", "free", "drain", "stat"}
          /\ worker[w].open \subseteq worker[w].chunk /\ worker[w].next \in 1 .. Len(Providers) + 1
          /\ worker[w].notFound \subseteq Segments \X Sources /\ worker[w].otherErr \subseteq Segments

\* The repair gives up a file for good when it is told that a segment is
\* missing.  It is told so only when one is missing at every provider,
\* whichever of them failed to answer, lost a connection in the middle of a
\* pipeline or were not asked for the sake of their backbone.
MissingIsMissing ==
    \A c \in Checks : check[c].verdict = "missing" =>
        \E s \in Segments : \A p \in Hosts : <<s, Source[p]>> \in gone

\* Refuted by TLC, and meant to be: a file that is fine has all its segments.
\* Those that were not sampled, and errors, are let pass.
FineIsComplete ==
    \A c \in Checks : check[c].verdict = "fine" =>
        \A s \in Segments : \E p \in Hosts : <<s, Source[p]>> \notin gone
=============================================================================
