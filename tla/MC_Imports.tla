------------------------------- MODULE MC_Imports -------------------------------
(***************************************************************************)
(* Imports on two requests, three volumes of RAR, four segments, three     *)
(* providers and two streams.                                              *)
(***************************************************************************)
EXTENDS Imports

CONSTANTS r1, r2, d1, d2, q1, q2, q3, b1, b2, f, g,
          vh, vm, vu, ve

MCPriority == <<d1, d2>>
MCSelected == [r \in Requests |-> IF r = r1 THEN {d1} ELSE Debrids]

MCBlocks  == << <<[file |-> g, size |-> 1], [file |-> f, size |-> 4]>>, <<[file |-> f, size |-> 6]>>,
                <<[file |-> f, size |-> 1]>> >>
MCMembers == [m \in {f} |-> [offset |-> 3, size |-> 9]]

MCProviders == <<q1, q2, q3>>
MCSource    == [p \in {q1, q2, q3} |-> IF p = q2 THEN b2 ELSE b1]

MCShowOf ==
    LET show(size, source, start, cipher) == [size |-> size, source |-> source, start |-> start, cipher |-> cipher]
    IN  [s \in {vh, vm, vu, ve} |->
            CASE s = vh -> show(3, "http", -1, 0)
              [] s = vm -> show(3, "http", 1, 0)
              [] s = vu -> show(4, "usenet", -1, 0)
              [] OTHER  -> show(3, "usenet", -1, 4)]

MCHeaders ==
    {[kind |-> "none"], [kind |-> "bad"], [kind |-> "two"]} \cup {[kind |-> "suffix", n |-> n] : n \in {0, 1, 9}}
    \cup {[kind |-> "open", a |-> a] : a \in {1, 4}}
    \cup {[kind |-> "span", a |-> ab[1], b |-> ab[2]] : ab \in {<<0, 0>>, <<1, 1>>, <<0, 3>>, <<2, 5>>}}

\* ImportsInit; what a part may start with is fixed while another part runs.
Init ==
    /\ part \in PartNames
    /\ LayoutInit
    /\ part # "layout" => /\ upload.form = "media" /\ ~upload.named
                          /\ upload.missing \cup upload.gone = {}
                          /\ \A v \in Volumes : upload.number[v] = v
    /\ ImportInit
    /\ IF part = "import" THEN kind[d1] = "realdebrid" ELSE kind = [d \in Debrids |-> "realdebrid"]
    /\ ListInit
    /\ part # "list" => client = "torbox" /\ list = "torrents" /\ remote = <<>>
    /\ ChecksInit
    /\ part # "check" => gone = {}
    /\ NzbInit /\ ReadersInit /\ DownloadInit /\ StreamInit

Spec == Init /\ [][ImportsNext]_importsVars
===============================================================================
