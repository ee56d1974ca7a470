----------------------------- MODULE MCSfpCard -----------------------------
(* TLC instance of SfpCard: the cards.                                     *)
EXTENDS SfpCard

Link(kind, place, b1, b2) == [kind |-> kind, place |-> place, i |-> b1, j |-> b2]

(* Every fault in the FPGA, which both loopbacks close, and some behind it. *)
MCFaults ==
    {Link(kind, "fpga", 0, 0) : kind \in {"drop", "dark"}}
    \cup {Link(kind, "fpga", b, 0) : kind \in {"zero", "one"}, b \in Bit}
    \cup UNION {{Link("bridge", "fpga", b1, b2) : b2 \in b1 + 1..NBits - 1} : b1 \in Bit}
    \cup {Link("drop", "tlk", 0, 0), Link("dark", "tlk", 0, 0),
          Link("bridge", "tlk", 0, NBits - 1)}
    \cup {Link(kind, "fibre", 0, 0) : kind \in {"one", "dark"}}

Sound == [fault |-> Link("none", "fibre", 0, 0), left |-> -MaxDelay - 1, right |-> MaxDelay + 2,
          good |-> -1..1, programmed |-> TRUE]

(* Every fault, and DCMs that end at once, in the middle, at the last step *)
(* and beyond; a card without configuration.                               *)
Cards ==
    {[Sound EXCEPT !.fault = f] : f \in MCFaults}
    \cup {[Sound EXCEPT !.left = -l, !.right = r, !.good = g] :
            l \in {0, 1, MaxDelay}, r \in {0, MaxDelay, MaxDelay + 1}, g \in {{0}, -1..2}}
    \cup {Sound, [Sound EXCEPT !.programmed = FALSE]}

Second == {Sound, [Sound EXCEPT !.fault = Link("dark", "fpga", 0, 0), !.left = 0]}

MCHardware == {[c \in Card |-> IF c = 0 THEN a ELSE b] : a \in Cards, b \in Second}
=============================================================================
