---------------------------- MODULE MCCruParser ----------------------------
(* TLC instances of CruParser: the data of a link, by shape.               *)
EXTENDS CruParser, SequencesExt

W(kind, n) == [Block(kind) EXCEPT !.n = n]
Times(n, kind) == [i \in 1..n |-> Block(kind)]

Tracklets(counts) ==
    <<Block("thc")>> \o
    FlattenSeq([m \in DOMAIN counts |-> <<W("tmcm", counts[m])>> \o Times(counts[m], "trk")])

HC0(i, headers, zs) ==
    [k |-> "hc0", n |-> Len(headers), hc |-> i, zs |-> zs]

Channels(n, ntb) ==
    [j \in 1..n * Dwords(ntb) |-> Block(IF j % Dwords(ntb) = 0 THEN "adcl" ELSE "adc")]

Raw(hc0, headers, mcms) ==
    <<hc0>> \o headers \o mcms \o Times(2, "eod")

(* No data; neither tracklets nor raw data; zero suppressed data with an   *)
(* empty MCM; two extra headers and data without zero suppression.         *)
Shapes(i) ==
    {<<>>,
     Tracklets(<<>>) \o Times(2, "eot") \o Times(2, "pad"),
     Tracklets(<<2, 0>>) \o Times(2, "eot") \o
       Raw(HC0(i, <<1>>, TRUE), <<W("hc1", 4)>>,
           <<Block("mcm"), W("msk", 1)>> \o Channels(1, 4) \o <<Block("mcm"), W("msk", 0)>>),
     Times(2, "eot") \o
       Raw(HC0(i, <<1, 2>>, FALSE), <<W("hc1", 3), Block("hc2")>>,
           <<Block("mcm")>> \o Channels(NChannels, 3)) \o Times(1, "pad")}

(* An HC0 without version fields.                                          *)
Old(i) ==
    Times(2, "eot") \o
       Raw(HC0(i, <<>>, FALSE), <<W("hc1", 3), Block("hc3")>>,
           <<Block("mcm"), W("msk", 1)>> \o Channels(1, 3))

Data(i) == Shapes(i) \cup (IF i = 0 THEN {Old(i)} ELSE {})

LaidOut(d) ==
    LET start[i \in 0..LastLink + 1] ==
            IF i = 0 THEN HeaderSize ELSE start[i - 1] + Len(d[i - 1])
    IN  [data |-> d, start |-> start]

IntactData == {d \in [Link -> UNION {Data(i) : i \in Link}] : \A i \in Link : d[i] \in Data(i)}

MCIntact == {LaidOut(d) : d \in IntactData}

(* One dword of link 0 is unreadable.                                      *)
MCDamaged == UNION {{LaidOut([d EXCEPT ![0][j] = Block("bad")]) : j \in DOMAIN d[0]} :
                     d \in IntactData}
=============================================================================
