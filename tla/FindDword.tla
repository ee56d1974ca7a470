------------------------------ MODULE FindDword ------------------------------
(***************************************************************************)
(* The loop of trd_subevent_builder::find_dword (trd_subevent_builder.cc:  *)
(* 160-180) run on every buffer: a scan for the first marker and an inner  *)
(* loop over its copies that reads payload[i] before it compares i with    *)
(* the number of dwords, so that the read at the end of the data sees a    *)
(* stale dword, or one past the array when the buffer is full.             *)
(***************************************************************************)
EXTENDS SubeventFormat

CONSTANTS
    Dword,     \* the dwords
    Capacity   \* dwords in buffer.payload

ASSUME CapacityAssumption == Capacity \in Nat

VARIABLES
    memory,    \* buffer.payload, stale dwords included
    size,      \* buffer_size in dwords
    index,     \* i of the loops, from 0 as in the code
    phase,     \* "scan": outer loop; "run": inner loop; "done"
    result     \* the value returned, in dwords

loopvars == <<memory, size, index, phase, result>>

LoopInit ==
    /\ memory \in [1..Capacity -> Dword]
    /\ size \in 0..Capacity
    /\ index = 0
    /\ phase = "scan"
    /\ result = 0

(* The values that reading payload[i] can give.                            *)
Read == IF index < Capacity THEN {memory[index + 1]} ELSE Dword

ScanOn ==
    /\ phase = "scan" /\ index < size
    /\ EOD \notin Read
    /\ index' = index + 1
    /\ UNCHANGED <<memory, size, phase, result>>

ScanHit ==
    /\ phase = "scan" /\ index < size
    /\ EOD \in Read
    /\ phase' = "run"
    /\ UNCHANGED <<memory, size, index, result>>

ScanEnd ==
    /\ phase = "scan" /\ ~(index < size)
    /\ phase' = "done"
    /\ result' = 0
    /\ UNCHANGED <<memory, size, index>>

RunOn ==
    /\ phase = "run"
    /\ \E dword \in Read : dword = EOD /\ index < size
    /\ index' = index + 1
    /\ UNCHANGED <<memory, size, phase, result>>

RunEndBeforeRun ==   \* slip: returns the index of the marker, not behind it
    /\ phase = "run"
    /\ \E dword \in Read : dword = EOD
    /\ phase' = "done"
    /\ result' = index
    /\ UNCHANGED <<memory, size, index>>

RunEnd ==
    /\ phase = "run"
    /\ \E dword \in Read : ~(dword = EOD /\ index < size)
    /\ phase' = "done"
    /\ result' = index
    /\ UNCHANGED <<memory, size, index>>

LoopNext == ScanOn \/ ScanHit \/ ScanEnd \/ RunOn \/ RunEnd

LoopSpec == LoopInit /\ [][LoopNext]_loopvars

-----------------------------------------------------------------------------
LoopTypeOK ==
    /\ memory \in [1..Capacity -> Dword]
    /\ size \in 0..Capacity
    /\ index \in 0..size
    /\ phase \in {"scan", "run", "done"}
    /\ result \in 0..size

Contents == SubSeq(memory, 1, size)

\* The loop returns what find_dword of SubeventFormat says, for every content
\* of the buffer and whatever stale dwords lie behind its end: neither the
\* unchecked read nor the shared index makes it return a size past the data.
LoopFindsSubevent == phase = "done" => result = find_dword(Contents)
=============================================================================
