--------------------------- MODULE SubeventBuilder ---------------------------
(***************************************************************************)
(* The subevent builder task of subevd (trd_subevent_builder.cc): one      *)
(* thread per SFP that serves "read" requests on its REP socket cmdsock.   *)
(* A read sends "dump sfpN" over its REQ socket ccbus to the LogicBox      *)
(* proxy, appends every fragment that comes back to one linear buffer, and *)
(* repeats until find_dword finds an end-of-data marker or the deadline    *)
(* passes.  The subevent is sent and cut off the front of the buffer.      *)
(*                                                                         *)
(* The unit of length is the 32-bit dword.  Two ends of the task's sockets *)
(* are its environment here: the client (ClientSend, ClientReceive) and    *)
(* the proxy (CcbusReply); module Readout puts minidaq.py and trdboxd in   *)
(* their places.                                                           *)
(***************************************************************************)
EXTENDS SubeventFormat

CONSTANTS
    SFP,         \* the optical links; one task each (subevd.cc:137)
    Data,        \* dwords that are not the end-of-data marker
    MaxPayload,  \* max_payload_size: 64 KiB, which is also the modulus of the
                 \* header's uint16_t payload_size
    Fragment,    \* what a "dump" may return; the empty reply is one of them
    MaxWords     \* bound on the dwords the proxy hands to one task

Word == Data \cup {EOD}

ASSUME ConstantsAssumption ==
    /\ EOD \notin Data
    /\ MaxPayload \in Nat \ {0}
    /\ MaxWords \in Nat
    /\ Fragment \subseteq Seq(Word)
    /\ <<>> \in Fragment

Command == {"read", "other"}
Answer  == [status : {0, 1}, payload : Seq(Word)]

VARIABLES
    pc,            \* "recv": in cmdsock.recv; "dump": in ccbus.recv
    request,       \* cmdsock, inbound: the request not yet received
    answer,        \* cmdsock, outbound: the reply the client has not taken
    query,         \* ccbus, outbound: TRUE while a query waits at the proxy
    fragment,      \* ccbus, inbound: the reply not yet received
    expired,       \* rxtime.elapsed() > timeout
    buffer,        \* buffer.payload[0 .. buffer_size)
    payload_size,  \* buffer.header.payload_size
    status,        \* buffer.header.status
    received,      \* history: every dword of every fragment received
    delivered,     \* history: every dword sent in a subevent
    overflowed     \* history: the buffer has been reset by an overflow

ccbus   == <<query, fragment>>
cmdsock == <<request, answer>>
header  == <<payload_size, status>>
history == <<received, delivered, overflowed>>
vars    == <<pc, cmdsock, ccbus, expired, buffer, header, history>>

-----------------------------------------------------------------------------
OverflowsAlone(b, f) == Len(f) > MaxPayload   \* slip: forgets buffer_size

(* process_fragment: append or, when the fragment does not fit, drop both  *)
(* the buffered dwords and the fragment.                                   *)
Overflows(b, f) == Len(f) > MaxPayload - Len(b)

Filled(s) ==
    LET f == Head(fragment[s])
    IN  IF Overflows(buffer[s], f) THEN <<>> ELSE buffer[s] \o f

(* header.payload_size after the fragment: untouched (0 since the request) *)
(* for an empty reply or an overflow, else the event size modulo 2^16.     *)
FoundSize(s) ==
    LET f == Head(fragment[s])
    IN  IF f = <<>> \/ Overflows(buffer[s], f)
        THEN payload_size[s]
        ELSE find_dword(buffer[s] \o f) % MaxPayload

-----------------------------------------------------------------------------
Init ==
    /\ pc = [s \in SFP |-> "recv"]
    /\ request = [s \in SFP |-> <<>>]
    /\ answer = [s \in SFP |-> <<>>]
    /\ query = [s \in SFP |-> FALSE]
    /\ fragment = [s \in SFP |-> <<>>]
    /\ expired = [s \in SFP |-> FALSE]
    /\ buffer = [s \in SFP |-> <<>>]
    /\ payload_size = [s \in SFP |-> 0]
    /\ status = [s \in SFP |-> 0]
    /\ received = [s \in SFP |-> <<>>]
    /\ delivered = [s \in SFP |-> <<>>]
    /\ overflowed = [s \in SFP |-> FALSE]

RecvReadNoReset(s) ==   \* slip: the header keeps the last payload_size
    /\ pc[s] = "recv"
    /\ request[s] = <<"read">>
    /\ request' = [request EXCEPT ![s] = <<>>]
    /\ status' = [status EXCEPT ![s] = 0]
    /\ expired' = [expired EXCEPT ![s] = FALSE]
    /\ query' = [query EXCEPT ![s] = TRUE]
    /\ pc' = [pc EXCEPT ![s] = "dump"]
    /\ UNCHANGED <<answer, fragment, payload_size, buffer, history>>

(* A read request: clear the header, send the first query.                 *)
RecvRead(s) ==
    /\ pc[s] = "recv"
    /\ request[s] = <<"read">>
    /\ request' = [request EXCEPT ![s] = <<>>]
    /\ payload_size' = [payload_size EXCEPT ![s] = 0]
    /\ status' = [status EXCEPT ![s] = 0]
    /\ expired' = [expired EXCEPT ![s] = FALSE]
    /\ query' = [query EXCEPT ![s] = TRUE]
    /\ pc' = [pc EXCEPT ![s] = "dump"]
    /\ UNCHANGED <<answer, fragment, buffer, history>>

(* Any other request is answered with a bare header, status 1.             *)
RecvUnknown(s) ==
    /\ pc[s] = "recv"
    /\ request[s] = <<"other">>
    /\ request' = [request EXCEPT ![s] = <<>>]
    /\ payload_size' = [payload_size EXCEPT ![s] = 0]
    /\ status' = [status EXCEPT ![s] = 1]
    /\ answer' = [answer EXCEPT ![s] = <<[status |-> 1, payload |-> <<>>]>>]
    /\ UNCHANGED <<pc, ccbus, expired, buffer, history>>

(* The wall clock passes the deadline of the read being served.            *)
Expire(s) ==
    /\ pc[s] = "dump"
    /\ ~expired[s]
    /\ expired' = [expired EXCEPT ![s] = TRUE]
    /\ UNCHANGED <<pc, cmdsock, ccbus, buffer, header, history>>

(* ccbus.recv returns: what the three continuations of the loop share.     *)
RecvFragment(s) ==
    /\ pc[s] = "dump"
    /\ fragment[s] # <<>>
    /\ fragment' = [fragment EXCEPT ![s] = <<>>]
    /\ received' = [received EXCEPT ![s] = @ \o Head(fragment[s])]
    /\ overflowed' = [overflowed EXCEPT
                        ![s] = @ \/ Overflows(buffer[s], Head(fragment[s]))]
    /\ UNCHANGED <<request, expired>>

ReplyTimeoutEarly(s) ==   \* slip: the break leaves before ccbus.recv
    /\ pc[s] = "dump"
    /\ expired[s]
    /\ payload_size' = [payload_size EXCEPT ![s] = 0]
    /\ status' = [status EXCEPT ![s] = 1]
    /\ answer' = [answer EXCEPT ![s] = <<[status |-> 1, payload |-> <<>>]>>]
    /\ pc' = [pc EXCEPT ![s] = "recv"]
    /\ UNCHANGED <<request, ccbus, expired, buffer, history>>

TimeoutNoBreak(s) ==   \* slip: no break, so while (payload_size == 0) goes on
    /\ RecvFragment(s)
    /\ expired[s]
    /\ buffer' = [buffer EXCEPT ![s] = Filled(s)]
    /\ payload_size' = [payload_size EXCEPT ![s] = 0]
    /\ status' = [status EXCEPT ![s] = 1]
    /\ query' = [query EXCEPT ![s] = TRUE]
    /\ UNCHANGED <<pc, answer, delivered>>

ReplyTimeoutDrops(s) ==   \* slip: the timeout also empties the buffer
    /\ RecvFragment(s)
    /\ expired[s]
    /\ buffer' = [buffer EXCEPT ![s] = <<>>]
    /\ payload_size' = [payload_size EXCEPT ![s] = 0]
    /\ status' = [status EXCEPT ![s] = 1]
    /\ answer' = [answer EXCEPT ![s] = <<[status |-> 1, payload |-> <<>>]>>]
    /\ pc' = [pc EXCEPT ![s] = "recv"]
    /\ UNCHANGED <<query, delivered>>

(* The deadline is tested first: a subevent found in this very fragment    *)
(* stays in the buffer and the client gets an empty reply, status 1.       *)
ReplyTimeout(s) ==
    /\ RecvFragment(s)
    /\ expired[s]
    /\ buffer' = [buffer EXCEPT ![s] = Filled(s)]
    /\ payload_size' = [payload_size EXCEPT ![s] = 0]
    /\ status' = [status EXCEPT ![s] = 1]
    /\ answer' = [answer EXCEPT ![s] = <<[status |-> 1, payload |-> <<>>]>>]
    /\ pc' = [pc EXCEPT ![s] = "recv"]
    /\ UNCHANGED <<query, delivered>>

(* No subevent yet: once more round the loop.                              *)
QueryAgain(s) ==
    /\ RecvFragment(s)
    /\ ~expired[s]
    /\ FoundSize(s) = 0
    /\ buffer' = [buffer EXCEPT ![s] = Filled(s)]
    /\ payload_size' = [payload_size EXCEPT ![s] = 0]
    /\ query' = [query EXCEPT ![s] = TRUE]
    /\ UNCHANGED <<pc, status, answer, delivered>>

ReplySubeventNoMove(s) ==   \* slip: buffer_size = 0 instead of the memmove
    LET n == FoundSize(s)
        b == Filled(s)
    IN  /\ RecvFragment(s)
        /\ ~expired[s]
        /\ n > 0
        /\ payload_size' = [payload_size EXCEPT ![s] = n]
        /\ buffer' = [buffer EXCEPT ![s] = <<>>]
        /\ answer' = [answer EXCEPT
                        ![s] = <<[status |-> status[s],
                                  payload |-> SubSeq(b, 1, n)]>>]
        /\ delivered' = [delivered EXCEPT ![s] = @ \o SubSeq(b, 1, n)]
        /\ pc' = [pc EXCEPT ![s] = "recv"]
        /\ UNCHANGED <<query, status>>

(* A subevent: send it, move the rest of the buffer to the front.          *)
ReplySubevent(s) ==
    LET n == FoundSize(s)
        b == Filled(s)
    IN  /\ RecvFragment(s)
        /\ ~expired[s]
        /\ n > 0
        /\ payload_size' = [payload_size EXCEPT ![s] = n]
        /\ buffer' = [buffer EXCEPT ![s] = SubSeq(b, n + 1, Len(b))]
        /\ answer' = [answer EXCEPT
                        ![s] = <<[status |-> status[s],
                                  payload |-> SubSeq(b, 1, n)]>>]
        /\ delivered' = [delivered EXCEPT ![s] = @ \o SubSeq(b, 1, n)]
        /\ pc' = [pc EXCEPT ![s] = "recv"]
        /\ UNCHANGED <<query, status>>

Builder(s) ==
    \/ RecvRead(s)
    \/ RecvUnknown(s)
    \/ Expire(s)
    \/ ReplyTimeout(s)
    \/ QueryAgain(s)
    \/ ReplySubevent(s)

-----------------------------------------------------------------------------
(* The environment: a REQ client that alternates send and receive, and the *)
(* proxy, which answers each query with one fragment.                      *)

ClientSend(s) ==
    /\ pc[s] = "recv" /\ request[s] = <<>> /\ answer[s] = <<>>
    /\ \E c \in Command : request' = [request EXCEPT ![s] = <<c>>]
    /\ UNCHANGED <<pc, answer, ccbus, expired, buffer, header, history>>

ClientReceive(s) ==
    /\ answer[s] # <<>>
    /\ answer' = [answer EXCEPT ![s] = <<>>]
    /\ UNCHANGED <<pc, request, ccbus, expired, buffer, header, history>>

CcbusReply(s) ==
    /\ query[s]
    /\ query' = [query EXCEPT ![s] = FALSE]
    /\ \E f \in Fragment :
        /\ Len(received[s]) + Len(f) <= MaxWords
        /\ fragment' = [fragment EXCEPT ![s] = <<f>>]
    /\ UNCHANGED <<pc, cmdsock, expired, buffer, header, history>>

Environment(s) == ClientSend(s) \/ ClientReceive(s) \/ CcbusReply(s)

Next == \E s \in SFP : Builder(s) \/ Environment(s)

(* The task's thread runs, the clock advances, and the proxy answers every *)
(* query (trdboxd.cc:127-238 replies on each path).  The client is under   *)
(* no obligation.                                                          *)
Fairness ==
    \A s \in SFP :
        /\ WF_vars(RecvRead(s) \/ RecvUnknown(s))
        /\ WF_vars(Expire(s))
        /\ WF_vars(ReplyTimeout(s) \/ QueryAgain(s) \/ ReplySubevent(s))
        /\ WF_vars(CcbusReply(s))

Spec == Init /\ [][Next]_vars
FairSpec == Spec /\ Fairness

-----------------------------------------------------------------------------
(* Properties.                                                             *)

\* Every variable holds a value of its type; the header never announces more
\* than the buffer can hold.
TypeOK ==
    /\ pc \in [SFP -> {"recv", "dump"}]
    /\ request \in [SFP -> Seq(Command)]
    /\ answer \in [SFP -> Seq(Answer)]
    /\ query \in [SFP -> BOOLEAN]
    /\ fragment \in [SFP -> Seq(Seq(Word))]
    /\ expired \in [SFP -> BOOLEAN]
    /\ buffer \in [SFP -> Seq(Word)]
    /\ payload_size \in [SFP -> 0..(MaxPayload - 1)]
    /\ status \in [SFP -> {0, 1}]
    /\ received \in [SFP -> Seq(Word)]
    /\ delivered \in [SFP -> Seq(Word)]
    /\ overflowed \in [SFP -> BOOLEAN]

\* The REQ/REP lockstep survives every way out of the loop (the break on the
\* deadline included): between requests nothing is in flight on ccbus, so no
\* late dump reply is ever taken for the answer to a later read; during a
\* read exactly one query or one reply is.
Lockstep ==
    \A s \in SFP :
        /\ pc[s] = "recv" => ~query[s] /\ fragment[s] = <<>>
        /\ pc[s] = "dump" => /\ request[s] = <<>> /\ answer[s] = <<>>
                             /\ query[s] <=> fragment[s] = <<>>
        /\ request[s] = <<>> \/ answer[s] = <<>>
        /\ \A queue \in {request[s], answer[s], fragment[s]} : Len(queue) \in {0, 1}

\* The buffer never outgrows buffer.payload, whatever the proxy returns and
\* however many reads time out with data left behind.
BufferFits == \A s \in SFP : Len(buffer[s]) <= MaxPayload

\* A reply with status 0 is one subevent: dwords that are not markers, then a
\* run of markers, and nothing after it (trd_subevent_builder.hh:18-20).
AnswerIsSubevent ==
    \A s \in SFP : \A i \in DOMAIN answer[s] :
        LET a == answer[s][i]
        IN  IF a.status = 0 THEN IsSubevent(a.payload) ELSE a.payload = <<>>

\* As long as no overflow reset the buffer, the client has been sent exactly
\* what the proxy returned, in order, except for what the buffer still holds:
\* no timeout, memmove or partial fragment loses, repeats or reorders a dword.
NothingLost ==
    \A s \in SFP : overflowed[s] \/ received[s] = delivered[s] \o buffer[s]

\* The buffer always starts at a subevent boundary, even after an overflow has
\* thrown data away: the last dword delivered is a marker.
BoundaryAligned ==
    \A s \in SFP :
        delivered[s] = <<>> \/ delivered[s][Len(delivered[s])] = EOD

\* Every request is answered, however long the detector stays silent: the
\* deadline ends a read that finds no marker (trd_subevent_builder.cc:106-110).
EveryRequestAnswered ==
    \A s \in SFP : request[s] # <<>> ~> answer[s] # <<>>
=============================================================================
