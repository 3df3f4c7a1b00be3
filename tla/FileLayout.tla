------------------------------- MODULE FileLayout -------------------------------
(***************************************************************************)
(* Where the bytes of a file lie: how pkg/usenet/parser turns the files of *)
(* an NZB into the segments of the files a mount serves, without having    *)
(* the data.  The sizes of the articles are inferred from two yEnc         *)
(* headers; the headers of RAR volumes are read in parallel, skipping the  *)
(* data; the range of every stored file is cut out of the segments; the    *)
(* reader (fs/reader/cache.go) then finds a byte by its offset.            *)
(*                                                                         *)
(* A byte is <<v, b>>, the b-th of volume v as it was posted.  A header of *)
(* RAR, the signature included, is one byte.                               *)
(***************************************************************************)
EXTENDS Integers, Sequences, FiniteSets, SequencesExt, FiniteSetsExt

CONSTANTS
    Blocks,         \* for each volume its stored blocks <<[file, size], ...>>
    Members,        \* where files lie in the volumes of a ZIP or a 7z: [offset, size]
    ArticleSize,
    Skew,           \* how far the estimate of an article from its encoded size is off
    MaxLost,        \* articles the NZB lacks or the servers no longer have
    NoArticle, NoSizes

Volumes == DOMAIN Blocks
Forms   == {"media", "rar", "sevenzip", "rarin7z", "zip"}

ASSUME LayoutAssumption ==
    /\ ArticleSize \in Nat \ {0} /\ Skew \in Int /\ MaxLost \in Nat
    /\ Len(Blocks) \in Nat \ {0} /\ Volumes = 1 .. Len(Blocks)
    /\ \A v \in Volumes : /\ Blocks[v] \in Seq({Blocks[v][k] : k \in DOMAIN Blocks[v]})
                          /\ \A k \in DOMAIN Blocks[v] : Blocks[v][k].size \in Nat \ {0}
    /\ \A f \in DOMAIN Members : Members[f].offset \in Nat /\ Members[f].size \in Nat \ {0}

\* Entry i is the sum of the first i of a sequence of numbers.
Sums(numbers) ==
    LET upto[i \in 0 .. Len(numbers)] == IF i = 0 THEN 0 ELSE upto[i - 1] + numbers[i] IN upto
SumOf(numbers) == Sums(numbers)[Len(numbers)]

\* The members of S by the number that key gives them.
SortedBy(S, key) ==
    [i \in 1 .. Cardinality(S) |-> CHOOSE x \in S : Cardinality({y \in S : key[y] < key[x]}) = i - 1]
Ascending(S) == SortedBy(S, [x \in S |-> x])

(* What was posted. *)
HeaderAt(v, k) == k - 1 + Sums([j \in DOMAIN Blocks[v] |-> Blocks[v][j].size])[k - 1]
SizeOf(v)      == HeaderAt(v, Len(Blocks[v]) + 1) + 1
ArticlesOf(v)  == 1 .. (SizeOf(v) + ArticleSize - 1) \div ArticleSize
Articles       == {<<v, n>> : v \in Volumes, n \in UNION {ArticlesOf(w) : w \in Volumes}}
                    \cap UNION {{v} \X ArticlesOf(v) : v \in Volumes}
LengthOf(a)    == Min({ArticleSize, SizeOf(a[1]) - (a[2] - 1) * ArticleSize})
ByteOf(a, k)   == <<a[1], (a[2] - 1) * ArticleSize + k>>
StreamStart(v) == Sums([w \in Volumes |-> SizeOf(w)])[v - 1]
StreamByte(o)  == LET v == CHOOSE w \in Volumes : StreamStart(w) <= o /\ o < StreamStart(w) + SizeOf(w)
                  IN  <<v, o - StreamStart(v)>>

VARIABLES
    upload,     \* the NZB
    sizes,      \* metadata of the group
    walk,       \* the reader of the headers of each volume
    parts,      \* what each volume says its blocks are
    files,      \* the files of the group
    stage

layoutVars == <<upload, sizes, walk, parts, files, stage>>

Numbered(V) == SortedBy(V, upload.number)
Listed(v)   == {n \in ArticlesOf(v) : <<v, n>> \notin upload.missing}
Group       == IF upload.form = "media" THEN {1} ELSE {v \in Volumes : Listed(v) # {}}

\* The order of the group's files when it is processed: by name, or by number
\* when the names say nothing.
InVolumeOrder(V) == IF upload.named /\ upload.form # "media" THEN Ascending(V) ELSE Numbered(V)
VolumeOrder      == InVolumeOrder(Group)

Fetchable(a) == a # NoArticle /\ a \notin upload.gone

LayoutInit ==
    /\ upload \in [form: Forms, named: BOOLEAN,
                   number: {p \in [Volumes -> Volumes] : \A v, w \in Volumes : v # w => p[v] # p[w]},
                   missing: UNION {kSubset(k, Articles) : k \in 0 .. MaxLost},
                   gone: UNION {kSubset(k, Articles) : k \in 0 .. MaxLost}]
    /\ upload.form \in {"sevenzip", "rarin7z", "zip"} => upload.named
    /\ Cardinality(upload.missing) + Cardinality(upload.gone) <= MaxLost
    /\ Listed(1) # {}
    /\ sizes = NoSizes /\ files = {} /\ stage = "new"
    /\ walk = [v \in Volumes |-> [status |-> "new"]] /\ parts = [v \in Volumes |-> <<>>]

-----------------------------------------------------------------------------
(* enrichGroupWithFileInfo: one header of the file with the most segments   *)
(* gives the size of an article and of a file, one of the last file its     *)
(* size.                                                                    *)

Reference ==
    LET most == {v \in Group : \A w \in Group : Cardinality(Listed(w)) <= Cardinality(Listed(v))}
    IN  Head(Numbered(most))

First(v) == <<v, Min(Listed(v))>>

Enrich ==
    /\ stage = "new"
    /\ LET last == Last(Numbered(Group)) IN
       IF Fetchable(First(Reference)) /\ Fetchable(First(last))
       THEN /\ sizes' = [article |-> LengthOf(First(Reference)),
                        file |-> SizeOf(Reference), last |-> SizeOf(last)]
            /\ stage' = "enriched"
       ELSE stage' = "failed" /\ UNCHANGED sizes
    /\ UNCHANGED <<upload, walk, parts, files>>

Estimate(a) == LengthOf(a) + Skew

\* The size of the last segment of v.
LastSegment(v, size) ==
    LET n    == Cardinality(Listed(v))
        full == sizes.article * (n - 1)
        diff == size - (full + sizes.article)
    IN  IF Max({diff, -diff}) > (sizes.article * 3) \div 2
        THEN Estimate(<<v, Max(Listed(v))>>) ELSE size - full

\* getNZBSegments: a slot for every number up to the highest, those without a
\* segment left as they are.
Nothing == [id |-> NoArticle, number |-> 0, bytes |-> 0, from |-> 0, start |-> 0, end |-> 0]

SegmentsOf(v) ==
    LET size     == IF v = Last(VolumeOrder) THEN sizes.last ELSE sizes.file
        last     == Max(Listed(v))
        bytes(n) == IF n = last THEN LastSegment(v, size) ELSE sizes.article
        start(n) == Cardinality({m \in Listed(v) : m < n}) * sizes.article
    IN  [n \in 1 .. last |->
            IF n \notin Listed(v) THEN Nothing
            ELSE [id |-> <<v, n>>, number |-> n, bytes |-> bytes(n), from |-> 0,
                  start |-> start(n), end |-> start(n) + bytes(n) - 1]]

BytesOf(segments) == [i \in DOMAIN segments |-> segments[i].bytes]
TotalOf(v)        == SumOf(BytesOf(SegmentsOf(v)))

\* buildArchiveVolumeDescriptors and buildBaseSegments pass over the same files.
Described == InVolumeOrder({v \in Group : TotalOf(v) # 0})
Base      == LET volumes == Described IN FlattenSeq([i \in DOMAIN volumes |-> SegmentsOf(volumes[i])])
BaseStart == LET volumes == Described IN Sums([i \in DOMAIN volumes |-> TotalOf(volumes[i])])

-----------------------------------------------------------------------------
(* rarReader, and what a volume says of itself. *)

\* The segments not yet loaded, the article that is held and how much of it
\* has been given, and the position in the volume.
Reader(v) == [rest |-> SegmentsOf(v), held |-> NoArticle, off |-> 0, pos |-> 0, status |-> "ok"]

Load(r) ==
    CASE r.rest = <<>>                -> [r EXCEPT !.status = "eof"]
      [] ~Fetchable(Head(r.rest).id)  -> [r EXCEPT !.status = "error"]
      [] OTHER                        -> [r EXCEPT !.held = Head(r.rest).id, !.off = 0, !.rest = Tail(@)]

\* SkipBytes gives up the article that is held and passes over segments by the
\* sizes they were given, up to the one that has the position.
SkipSegments(r, n) ==
    LET passed == Sums(BytesOf(r.rest))
        last   == Len(r.rest)
        k      == Min({i \in 0 .. last : i = last \/ n <= passed[i] \/ n < passed[i + 1]})
        there  == [r EXCEPT !.rest = SubSeq(@, k + 1, last), !.pos = @ + passed[k]]
        l      == Load(there)
    IN  IF n <= passed[k] THEN there
        ELSE IF l.status = "ok" THEN [l EXCEPT !.off = n - passed[k], !.pos = @ + (n - passed[k])] ELSE l

SkipBytes(r, n) ==
    LET left == LengthOf(r.held) - r.off IN
    IF r.held = NoArticle THEN SkipSegments(r, n)
    ELSE IF left >= n THEN [r EXCEPT !.off = @ + n, !.pos = @ + n]
    ELSE SkipSegments([r EXCEPT !.held = NoArticle, !.pos = @ + left], n - left)

\* The block whose header is at the position of the reader, if there is one.
HeaderHere(v, r) ==
    {k \in DOMAIN Blocks[v] : r.status = "ok" /\ ByteOf(r.held, r.off) = <<v, HeaderAt(v, k)>>}

\* parseRAR5FileHeader: the data follow the header.
PartAt(b, r) == [file |-> b.file, at |-> r.pos + 1, size |-> b.size]

\* parseArchive: the signature of the first volume tells the version.
Detect ==
    /\ stage = "enriched" /\ upload.form = "rar"
    /\ stage' = IF Described # <<>> /\ Load(Reader(Described[1])).status = "ok" THEN "headers" ELSE "failed"
    /\ UNCHANGED <<upload, sizes, walk, parts, files>>

\* parseRAR5Stream, by the workers of the mapper: header, data, header, ... up
\* to the header that ends the volume, an error, or something that is no header;
\* a volume that fails in its data has no blocks.
Walked == [status |-> "over"]

ReadHeader(v) ==
    LET r     == IF walk[v].status = "new" THEN Reader(v) ELSE walk[v]
        h     == IF r.held = NoArticle \/ r.off >= LengthOf(r.held) THEN Load(r) ELSE r
        block == HeaderHere(v, h)
        b     == Blocks[v][CHOOSE k \in block : TRUE]
        next  == SkipBytes([h EXCEPT !.off = @ + 1, !.pos = @ + 1], b.size)
    IN  /\ stage = "headers" /\ v \in ToSet(Described) /\ walk[v].status # "over"
        /\ walk' = [walk EXCEPT ![v] = IF block # {} /\ next.status = "ok" THEN next ELSE Walked]
        /\ parts' = [parts EXCEPT ![v] = IF block = {} THEN @
                                         ELSE IF next.status = "error" THEN <<>> ELSE Append(@, PartAt(b, h))]
        /\ UNCHANGED <<upload, sizes, files, stage>>

-----------------------------------------------------------------------------
(* Cutting ranges out of segments. *)

\* What the bytes a .. b have of the segment that lies at .. to - 1.
Cut_FromTheStart(s, at, to, a, b) == [s EXCEPT !.bytes = Min({to - 1, b}) - Max({at, a}) + 1]
Cut(s, at, to, a, b) ==
    [s EXCEPT !.bytes = Min({to - 1, b}) - Max({at, a}) + 1, !.from = Max({at, a}) - at]

\* The overlaps of the segments with the bytes a .. b, up to the one that
\* reaches b.
Overlaps(segments, a, b) ==
    LET at  == Sums(BytesOf(segments))
        hit == {i \in DOMAIN segments : at[i] > a /\ \A j \in 0 .. i - 1 : at[j] <= b}
    IN  FlattenSeq([i \in DOMAIN segments |->
            IF i \in hit THEN <<Cut(segments[i], at[i - 1], at[i], a, b)>> ELSE <<>>])

\* Offsets in the file, one piece after the other.
Laid(pieces) ==
    LET at == Sums(BytesOf(pieces))
    IN  [i \in DOMAIN pieces |-> [pieces[i] EXCEPT !.start = at[i - 1], !.end = at[i] - 1]]

File(name, size, segments) == {[name |-> name, size |-> size, segments |-> segments]}

FilesInside == UNION {{Blocks[v][k].file : k \in DOMAIN Blocks[v]} : v \in Volumes}

\* In the order of their numbers.
ByNumber(pieces) ==
    LET before(i) == {j \in DOMAIN pieces : \/ pieces[j].number < pieces[i].number
                                            \/ pieces[j].number = pieces[i].number /\ j < i}
    IN  [k \in DOMAIN pieces |-> pieces[CHOOSE i \in DOMAIN pieces : Cardinality(before(i)) = k - 1]]

\* aggregateFileParts and buildSegmentsForFile: the parts of f, volume by
\* volume, the pieces of each in the order of their numbers.
PiecesOf(f, found, start) ==
    LET base == Base IN
    [p \in DOMAIN found |->
        LET a == start + found[p].at
        IN  IF found[p].file = f THEN ByNumber(Overlaps(base, a, a + found[p].size - 1)) ELSE <<>>]

Stored(f) ==
    LET volumes == Described
        start   == BaseStart
    IN  Laid(FlattenSeq([i \in DOMAIN volumes |-> FlattenSeq(PiecesOf(f, parts[volumes[i]], start[i - 1]))]))

\* RARParser.Process.  Every header of a file states its whole size.
WholeSize(f) ==
    SumOf([v \in Volumes |->
        SumOf([k \in DOMAIN Blocks[v] |-> IF Blocks[v][k].file = f THEN Blocks[v][k].size ELSE 0])])

AssembleRar ==
    /\ stage = "headers" /\ \A v \in ToSet(Described) : walk[v].status = "over"
    /\ files' = UNION {LET pieces == Stored(f) IN
                       IF pieces = <<>> THEN {} ELSE File(f, Min({WholeSize(f), SumOf(BytesOf(pieces))}), pieces) :
                           f \in FilesInside}
    /\ stage' = IF files' = {} THEN "failed" ELSE "built"
    /\ UNCHANGED <<upload, sizes, walk, parts>>

OrAll(pieces) == IF pieces = <<>> THEN Base ELSE pieces
Sliced(offset, size) == OrAll(Laid(Overlaps(Base, offset, offset + size - 1)))

\* A 7z is listed from its first and its last article, a ZIP from its last
\* ones.
Readable == Fetchable(First(Described[1])) /\ Fetchable(Last(Base).id)

\* SevenZParser.Process.
Assemble7z ==
    /\ stage = "enriched" /\ upload.form = "sevenzip"
    /\ IF Described # <<>> /\ Readable
       THEN files' = UNION {File(f, Members[f].size, Sliced(Members[f].offset, Members[f].size)) : f \in DOMAIN Members}
       ELSE files' = {}
    /\ stage' = IF files' = {} THEN "failed" ELSE "built"
    /\ UNCHANGED <<upload, sizes, walk, parts>>

\* The scan ends with the first volume that names a file, so the parts it has
\* there are all.  It is given the first 64 KB, which here are the volume.
FirstPart(f) ==
    LET k == CHOOSE j \in DOMAIN Blocks[1] : Blocks[1][j].file = f
    IN  [at |-> StreamStart(1) + HeaderAt(1, k) + 1, size |-> Blocks[1][k].size]

\* sliceSegmentsForRange gives each piece its place in its article for offsets.
InPlace(pieces) ==
    [i \in DOMAIN pieces |->
        [pieces[i] EXCEPT !.start = pieces[i].from, !.end = pieces[i].from + pieces[i].bytes - 1, !.from = 0]]

PartsOf(f) == InPlace(Overlaps(Base, FirstPart(f).at, FirstPart(f).at + FirstPart(f).size - 1))

\* processRARFilesFromPositions: RAR volumes stored in a 7z, one after the other.
AssembleRarIn7z ==
    /\ stage = "enriched" /\ upload.form = "rarin7z"
    /\ IF Described # <<>> /\ Readable
       THEN files' = UNION {File(f, WholeSize(f), PartsOf(f)) : f \in {Blocks[1][j].file : j \in DOMAIN Blocks[1]}}
       ELSE files' = {}
    /\ stage' = IF files' = {} THEN "failed" ELSE "built"
    /\ UNCHANGED <<upload, sizes, walk, parts>>

\* ZIPParser.Process: the members' offsets are not passed on.
AssembleZip ==
    /\ stage = "enriched" /\ upload.form = "zip"
    /\ IF Described # <<>> /\ Fetchable(Last(Base).id)
       THEN files' = UNION {File(f, Members[f].size, Sliced(0, Members[f].size)) : f \in DOMAIN Members}
       ELSE files' = {}
    /\ stage' = IF files' = {} THEN "failed" ELSE "built"
    /\ UNCHANGED <<upload, sizes, walk, parts>>

\* processMediaFile.
AssembleMedia ==
    /\ stage = "enriched" /\ upload.form = "media"
    /\ files' = File("media", TotalOf(1), SegmentsOf(1))
    /\ stage' = "built"
    /\ UNCHANGED <<upload, sizes, walk, parts>>

LayoutNext ==
    \/ Enrich \/ Detect
    \/ \E v \in Volumes : ReadHeader(v)
    \/ AssembleRar \/ Assemble7z \/ AssembleRarIn7z \/ AssembleZip \/ AssembleMedia

LayoutSpec == LayoutInit /\ [][LayoutNext]_layoutVars

-----------------------------------------------------------------------------
(* What a reader is served. *)

\* computeOffsets; a segment without a size counts as a usual one.
UsualSize == 9

OffsetsOf(segments) ==
    LET n == Len(segments) IN
    IF segments[1].end > 0
    THEN [i \in 1 .. n + 1 |-> IF i <= n THEN segments[i].start ELSE segments[n].end + 1]
    ELSE [i \in 1 .. n + 1 |->
            Sums([j \in 1 .. n |-> IF segments[j].bytes <= 0 THEN UsualSize ELSE segments[j].bytes])[i - 1]]

\* binarySearchSegment.
SegmentAt(offsets, o) ==
    LET n == Len(offsets) - 1
        Search[lo \in 0 .. n, hi \in 0 .. n] ==
            LET mid == (lo + hi) \div 2 IN
            IF lo >= hi THEN lo
            ELSE IF offsets[mid + 2] <= o THEN Search[mid + 1, hi] ELSE Search[lo, mid]
    IN  Min({Search[0, n] + 1, n})

\* readFromCache and StreamWriter, for one byte.
Served(file, o) ==
    LET offsets == OffsetsOf(file.segments)
        i == SegmentAt(offsets, o)
        s == file.segments[i]
        k == o - offsets[i]
    IN  IF o >= file.size \/ o >= Last(offsets) THEN <<"eof">>
        ELSE IF ~Fetchable(s.id) THEN <<"unreadable">>
        ELSE IF k < 0 \/ k >= s.bytes \/ s.from + k >= LengthOf(s.id) THEN <<"none">>
        ELSE ByteOf(s.id, s.from + k)

\* The bytes of a file, those in volumes whose headers were not read left out.
TheBytes(name) ==
    CASE upload.form \in {"sevenzip", "zip"} ->
            [i \in 1 .. Members[name].size |-> StreamByte(Members[name].offset + i - 1)]
      [] upload.form = "media" -> [i \in 1 .. SizeOf(1) |-> <<1, i - 1>>]
      [] upload.form \in {"rar", "rarin7z"} ->
            FlattenSeq([v \in Volumes |-> FlattenSeq(
                [k \in DOMAIN Blocks[v] |->
                    IF Blocks[v][k].file = name /\ (upload.form = "rar" => k <= Len(parts[v]))
                    THEN [i \in 1 .. Blocks[v][k].size |-> <<v, HeaderAt(v, k) + i>>] ELSE <<>>])])

LayoutTypeOK ==
    /\ stage \in {"new", "enriched", "headers", "built", "failed"}
    /\ sizes \in [article: Nat, file: Nat, last: Nat] \cup {NoSizes}
    /\ \A v \in Volumes : /\ walk[v].status \in {"new", "ok", "over"}
                          /\ \A i \in DOMAIN parts[v] : parts[v][i].file \in FilesInside

RightBytes(file) ==
    \A o \in 0 .. Max({file.size, Len(TheBytes(file.name))}) - 1 :
        Served(file, o) \in {<<"unreadable">>} \cup {TheBytes(file.name)[i] : i \in {o + 1} \cap DOMAIN TheBytes(file.name)}

\* When the NZB lists every article, and the names or the numbers of the
\* volumes tell their order, a file of a RAR archive, a 7z or a plain one is
\* served byte for byte, but for the articles that cannot be fetched and the
\* volumes whose headers could not.
ServedAsPosted ==
    (stage = "built" /\ upload.missing = {} /\ upload.form \in {"media", "rar", "sevenzip"}
        /\ (upload.named \/ \A v \in Volumes : upload.number[v] = v))
    => \A file \in files : RightBytes(file)

AllThere == stage = "built" /\ upload.missing = {} /\ upload.gone = {}

\* Refuted: the files of a ZIP are taken from the start of the archive.
ZipAsPosted == (AllThere /\ upload.form = "zip") => \A file \in files : RightBytes(file)

\* Refuted: of a RAR archive in a 7z only the first volume is there, and not at
\* its offset.
RarIn7zAsPosted == (AllThere /\ upload.form = "rarin7z") => \A file \in files : RightBytes(file)

\* Refuted: a file that lacks a volume whose headers could not be fetched is
\* imported, its later volumes moved up.
WholeOrNothing ==
    stage = "built" /\ upload.form = "rar" => \A file \in files : file.size = WholeSize(file.name)

\* Refuted: an article the NZB does not list is noticed.
GapsAreNoticed ==
    (stage = "built" /\ upload.form = "media")
    => \A o \in 0 .. SizeOf(1) - 1 : \E file \in files : Served(file, o) \in {<<"unreadable">>, <<1, o>>}
===============================================================================
