--------------------------- MODULE SubeventFormat ---------------------------
(***************************************************************************)
(* Subevents in a buffer of dwords: what find_dword(0) of                  *)
(* trd_subevent_builder.cc returns, and what a subevent is.  Module        *)
(* FindDword models the loop itself and shows that it computes this.       *)
(***************************************************************************)
EXTENDS Integers, Sequences

CONSTANT EOD    \* the end-of-data marker, the dword 0x00000000

(* find_dword(0): the number of dwords up to and including the first run   *)
(* of markers, 0 when there is no marker.                                  *)

IsSubeventEnd(b, n) ==
    \E first \in 1..n :
        /\ \A i \in 1..(first - 1) : b[i] # EOD
        /\ \A i \in first..n : b[i] = EOD
        /\ n < Len(b) => b[n + 1] # EOD

HasSubevent(b) == \E n \in 1..Len(b) : IsSubeventEnd(b, n)

(* A search from the far end of the buffer, and one that stops before the  *)
(* first marker: plausible slips, used only to show what the checks catch. *)
LastMarker(b) ==
    IF \E n \in 1..Len(b) : b[n] = EOD
    THEN CHOOSE n \in 1..Len(b) :
            b[n] = EOD /\ \A i \in (n + 1)..Len(b) : b[i] # EOD
    ELSE 0

BeforeMarker(b) ==
    IF \E n \in 1..Len(b) : b[n] = EOD
    THEN (CHOOSE n \in 1..Len(b) :
            b[n] = EOD /\ \A i \in 1..(n - 1) : b[i] # EOD) - 1
    ELSE 0

find_dword(b) ==
    IF HasSubevent(b) THEN CHOOSE n \in 1..Len(b) : IsSubeventEnd(b, n) ELSE 0

(* A subevent is a buffer that its first run of markers ends.              *)
IsSubevent(p) == p # <<>> /\ IsSubeventEnd(p, Len(p))
=============================================================================
