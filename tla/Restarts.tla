------------------------------ MODULE Restarts ------------------------------
(***************************************************************************)
(* trdboxd, subevd and minidaq.py as processes that may end at any moment  *)
(* and are started again by hand.  The tasks of subevd are those of        *)
(* SubeventBuilder, whose actions are used as they stand.                  *)
(*                                                                         *)
(* The sockets (ZeroMQ over TCP): a request for a process that is not      *)
(* there waits at its sender; one that has arrived ends with the process   *)
(* it has reached, and nobody repeats it; a reply to a peer that has gone  *)
(* is dropped, but its request is served.  EventSize data dwords and one   *)
(* marker are an event.                                                    *)
(***************************************************************************)
EXTENDS Integers, Sequences, SequencesExt

CONSTANTS
    SFP,          \* the links, all enabled in subevd's configuration
    EOD,
    MaxPayload,
    EventSize,
    Events,       \* bound on the events of the detector
    FifoBound,    \* bound on the dwords in one FIFO
    MaxBoxDeaths, MaxSubDeaths, MaxDaqDeaths

ASSUME ConstantsAssumption ==
    /\ {EventSize, Events, FifoBound} \subseteq Nat \ {0}
    /\ {MaxBoxDeaths, MaxSubDeaths, MaxDaqDeaths} \subseteq Nat
    /\ MaxPayload \in Nat /\ FifoBound < MaxPayload
    /\ EOD \notin (1..Events) \X (1..EventSize)

VARIABLES
    pc, request, answer, query, fragment, expired, buffer, payload_size,
    status, received, delivered, overflowed,   \* the builders
    trdboxd,      \* "up", "down"
    subevd,       \* "up", "down"; "stopping": joinAll waits for the tasks
    fifo,         \* per link: the card's receive FIFO
    link,         \* per link: what the detector has still to send
    at,           \* per link: where the task's query is, if there is one
    orphans,      \* per link: queries at trdboxd of tasks that are gone
    asked,        \* per link: what has become of minidaq's read
    queue,        \* per link: the reads waiting at the task, and from whom
    asker,        \* per link: whose read the task serves
    boxDeaths, subDeaths, daqDeaths,
    damaged       \* history, per link: subevents sent that are no event

builder == <<pc, request, answer, query, fragment, expired, buffer, payload_size,
             status, received, delivered, overflowed>>
box     == <<trdboxd, fifo, orphans>>
clients == <<asked, queue, asker>>
deaths  == <<boxDeaths, subDeaths, daqDeaths>>
vars    == <<builder, box, subevd, link, at, clients, deaths, damaged>>

-----------------------------------------------------------------------------
Event(e) == [k \in 1..EventSize + 1 |-> IF k <= EventSize THEN <<e, k>> ELSE EOD]
Stream == FlattenSeq([e \in 1..Events |-> Event(e)])

SB == INSTANCE SubeventBuilder WITH
        Data     <- (1..Events) \X (1..EventSize),
        Fragment <- {SubSeq(Stream, a, b) : a, b \in 0..Len(Stream)},
        MaxWords <- Len(Stream)

Init ==
    /\ SB!Init
    /\ trdboxd = "up" /\ subevd = "up"
    /\ fifo = [s \in SFP |-> <<>>] /\ link = [s \in SFP |-> Stream]
    /\ at = [s \in SFP |-> "subevd"] /\ orphans = [s \in SFP |-> 0]
    /\ asked = [s \in SFP |-> "no"]
    /\ queue = [s \in SFP |-> <<>>] /\ asker = [s \in SFP |-> "none"]
    /\ boxDeaths = 0 /\ subDeaths = 0 /\ daqDeaths = 0
    /\ damaged = [s \in SFP |-> 0]

-----------------------------------------------------------------------------
(* The tasks.  A new query is at subevd until trdboxd has it.              *)
Build(s) ==
    /\ subevd # "down"
    /\ \/ /\ SB!RecvRead(s) \/ SB!QueryAgain(s)
          /\ at' = [at EXCEPT ![s] = "subevd"]
          /\ UNCHANGED damaged
       \/ SB!ReplyTimeout(s) /\ UNCHANGED <<at, damaged>>
       \/ /\ SB!ReplySubevent(s)
          /\ damaged' = [damaged EXCEPT ![s] =
                IF \E e \in 1..Events : answer'[s][1].payload = Event(e) THEN @ ELSE @ + 1]
          /\ UNCHANGED at
    /\ UNCHANGED <<box, subevd, link, clients, deaths>>

Expire(s) ==
    /\ SB!Expire(s)
    /\ UNCHANGED <<box, subevd, link, at, clients, deaths, damaged>>

(* main: a request to terminate; cancelAll sets flags that no task reads.  *)
Terminate ==
    /\ subevd = "up"
    /\ subevd' = "stopping"
    /\ UNCHANGED <<builder, box, link, at, clients, deaths, damaged>>

-----------------------------------------------------------------------------
(* trdboxd, while it runs.                                                 *)
Deliver(s) ==
    /\ trdboxd = "up" /\ query[s] /\ at[s] = "subevd"
    /\ at' = [at EXCEPT ![s] = "trdboxd"]
    /\ UNCHANGED <<builder, box, subevd, link, clients, deaths, damaged>>

ServeDumpKeepsFifo(s) ==   \* slip: the dwords are read but not taken out
    /\ trdboxd = "up" /\ query[s] /\ at[s] = "trdboxd"
    /\ query' = [query EXCEPT ![s] = FALSE]
    /\ fragment' = [fragment EXCEPT ![s] = <<fifo[s]>>]
    /\ UNCHANGED <<pc, request, answer, expired, buffer, payload_size, status, received,
                   delivered, overflowed, box, subevd, link, at, clients, deaths, damaged>>

ServeDump(s) ==
    /\ trdboxd = "up" /\ query[s] /\ at[s] = "trdboxd"
    /\ query' = [query EXCEPT ![s] = FALSE]
    /\ fragment' = [fragment EXCEPT ![s] = <<fifo[s]>>]
    /\ fifo' = [fifo EXCEPT ![s] = <<>>]
    /\ UNCHANGED <<pc, request, answer, expired, buffer, payload_size, status, received,
                   delivered, overflowed, trdboxd, orphans, subevd, link, at, clients,
                   deaths, damaged>>

ServeOrphanToTask(s) ==   \* slip: the reply goes to whatever task there is now
    /\ trdboxd = "up" /\ orphans[s] > 0 /\ subevd # "down"
    /\ orphans' = [orphans EXCEPT ![s] = @ - 1]
    /\ fragment' = [fragment EXCEPT ![s] = <<fifo[s]>>]
    /\ fifo' = [fifo EXCEPT ![s] = <<>>]
    /\ UNCHANGED <<pc, request, answer, query, expired, buffer, payload_size, status,
                   received, delivered, overflowed, trdboxd, subevd, link, at, clients,
                   deaths, damaged>>

(* The query of a task that has gone: the reply is dropped.                *)
ServeOrphan(s) ==
    /\ trdboxd = "up" /\ orphans[s] > 0
    /\ orphans' = [orphans EXCEPT ![s] = @ - 1]
    /\ fifo' = [fifo EXCEPT ![s] = <<>>]
    /\ UNCHANGED <<builder, trdboxd, subevd, link, at, clients, deaths, damaged>>

Arrive(s) ==
    /\ link[s] # <<>> /\ Len(fifo[s]) < FifoBound
    /\ fifo' = [fifo EXCEPT ![s] = Append(@, Head(link[s]))]
    /\ link' = [link EXCEPT ![s] = Tail(@)]
    /\ UNCHANGED <<builder, trdboxd, orphans, subevd, at, clients, deaths, damaged>>

(* The queries that have reached trdboxd are lost, and of its replies any  *)
(* that are still under way.                                               *)
BoxDies ==
    /\ trdboxd = "up" /\ boxDeaths < MaxBoxDeaths
    /\ boxDeaths' = boxDeaths + 1
    /\ trdboxd' = "down"
    /\ orphans' = [s \in SFP |-> 0]
    /\ \E lost \in SUBSET {s \in SFP : fragment[s] # <<>>} :
        /\ fragment' = [s \in SFP |-> IF s \in lost THEN <<>> ELSE fragment[s]]
        /\ query' = [s \in SFP |-> query[s] \/ s \in lost]
        /\ at' = [s \in SFP |-> IF s \in lost \/ (query[s] /\ at[s] = "trdboxd")
                                THEN "nowhere" ELSE at[s]]
    /\ UNCHANGED <<pc, request, answer, expired, buffer, payload_size, status, received,
                   delivered, overflowed, fifo, subevd, link, clients, subDeaths, daqDeaths,
                   damaged>>

(* The constructor tests the cards, which are deaf meanwhile and have      *)
(* their FIFOs cleared, before it binds the socket.                        *)
BoxStart ==
    /\ trdboxd = "down"
    /\ trdboxd' = "up"
    /\ fifo' = [s \in SFP |-> <<>>]
    /\ \E missed \in [SFP -> 0..EventSize + 1] :
        /\ \A s \in SFP : missed[s] <= Len(link[s])
        /\ link' = [s \in SFP |-> SubSeq(link[s], missed[s] + 1, Len(link[s]))]
    /\ UNCHANGED <<builder, orphans, subevd, at, clients, deaths, damaged>>

-----------------------------------------------------------------------------
(* subevd ends: with it the buffers, and the reads that have reached it.   *)
SubDies ==
    /\ subevd # "down" /\ subDeaths < MaxSubDeaths
    /\ subDeaths' = subDeaths + 1
    /\ subevd' = "down"
    /\ orphans' = [s \in SFP |->
          orphans[s] + (IF query[s] /\ at[s] = "trdboxd" THEN 1 ELSE 0)]
    /\ asked' = [s \in SFP |-> IF asked[s] = "sent" THEN "lost" ELSE asked[s]]
    /\ queue' = [s \in SFP |-> <<>>] /\ asker' = [s \in SFP |-> "none"]
    /\ pc' = [s \in SFP |-> "recv"]
    /\ request' = [s \in SFP |-> <<>>] /\ answer' = [s \in SFP |-> <<>>]
    /\ query' = [s \in SFP |-> FALSE] /\ fragment' = [s \in SFP |-> <<>>]
    /\ expired' = [s \in SFP |-> FALSE] /\ buffer' = [s \in SFP |-> <<>>]
    /\ payload_size' = [s \in SFP |-> 0] /\ status' = [s \in SFP |-> 0]
    /\ received' = [s \in SFP |-> <<>>]
    /\ UNCHANGED <<delivered, overflowed, trdboxd, fifo, link, at, boxDeaths, daqDeaths,
                   damaged>>

(* main starts the tasks anew, with empty buffers.                         *)
SubStart ==
    /\ subevd = "down"
    /\ subevd' = "up"
    /\ UNCHANGED <<builder, box, link, at, clients, deaths, damaged>>

-----------------------------------------------------------------------------
(* minidaq, and what the socket of a task does with its reads.             *)
Ask(s) ==
    /\ asked[s] = "no"
    /\ asked' = [asked EXCEPT ![s] = "queued"]
    /\ UNCHANGED <<builder, box, subevd, link, at, queue, asker, deaths, damaged>>

Send(s) ==
    /\ asked[s] = "queued" /\ subevd # "down"
    /\ asked' = [asked EXCEPT ![s] = "sent"]
    /\ queue' = [queue EXCEPT ![s] = Append(@, "here")]
    /\ UNCHANGED <<builder, box, subevd, link, at, asker, deaths, damaged>>

(* cmdsock: the next read is received when the last one has been answered. *)
Hand(s) ==
    /\ queue[s] # <<>> /\ asker[s] = "none"
    /\ asker' = [asker EXCEPT ![s] = Head(queue[s])]
    /\ queue' = [queue EXCEPT ![s] = Tail(@)]
    /\ request' = [request EXCEPT ![s] = <<"read">>]
    /\ UNCHANGED <<pc, answer, query, fragment, expired, buffer, payload_size, status,
                   received, delivered, overflowed, box, subevd, link, at, asked, deaths,
                   damaged>>

CollectOnce(s) ==   \* slip: the task is not free for the next read
    /\ answer[s] # <<>>
    /\ answer' = [answer EXCEPT ![s] = <<>>]
    /\ asked' = [asked EXCEPT ![s] = IF asker[s] = "here" THEN "no" ELSE @]
    /\ UNCHANGED <<pc, request, query, fragment, expired, buffer, payload_size, status,
                   received, delivered, overflowed, box, subevd, link, at, queue, asker,
                   deaths, damaged>>

(* The answer reaches minidaq, or is dropped with the minidaq that asked.  *)
Collect(s) ==
    /\ answer[s] # <<>>
    /\ answer' = [answer EXCEPT ![s] = <<>>]
    /\ asked' = [asked EXCEPT ![s] = IF asker[s] = "here" THEN "no" ELSE @]
    /\ asker' = [asker EXCEPT ![s] = "none"]
    /\ UNCHANGED <<pc, request, query, fragment, expired, buffer, payload_size, status,
                   received, delivered, overflowed, box, subevd, link, at, queue, deaths,
                   damaged>>

(* minidaq ends and is started again; its reads are served all the same.   *)
DaqDies ==
    /\ daqDeaths < MaxDaqDeaths
    /\ daqDeaths' = daqDeaths + 1
    /\ asked' = [s \in SFP |-> "no"]
    /\ queue' = [s \in SFP |-> [i \in DOMAIN queue[s] |-> "gone"]]
    /\ asker' = [s \in SFP |-> IF asker[s] = "none" THEN "none" ELSE "gone"]
    /\ UNCHANGED <<builder, box, subevd, link, at, boxDeaths, subDeaths, damaged>>

-----------------------------------------------------------------------------
Next ==
    \/ BoxDies \/ BoxStart \/ SubDies \/ SubStart \/ Terminate \/ DaqDies
    \/ \E s \in SFP :
        \/ Build(s) \/ Expire(s)
        \/ Deliver(s) \/ ServeDump(s) \/ ServeOrphan(s) \/ Arrive(s)
        \/ Ask(s) \/ Send(s) \/ Hand(s) \/ Collect(s)

(* Processes that run make progress, the clock passes a deadline, and      *)
(* somebody starts trdboxd and subevd again.  The detector, the orphans    *)
(* and minidaq are under no obligation.                                    *)
Fairness ==
    /\ WF_vars(BoxStart) /\ WF_vars(SubStart)
    /\ \A s \in SFP :
        /\ WF_vars(Build(s)) /\ WF_vars(Expire(s))
        /\ WF_vars(Deliver(s)) /\ WF_vars(ServeDump(s))
        /\ WF_vars(Send(s)) /\ WF_vars(Hand(s)) /\ WF_vars(Collect(s))

Spec == Init /\ [][Next]_vars
FairSpec == Spec /\ Fairness

-----------------------------------------------------------------------------
(* Properties.                                                             *)

TypeOK ==
    /\ SB!TypeOK
    /\ trdboxd \in {"up", "down"} /\ subevd \in {"up", "down", "stopping"}
    /\ fifo \in [SFP -> Seq(SB!Word)] /\ link \in [SFP -> Seq(SB!Word)]
    /\ at \in [SFP -> {"subevd", "trdboxd", "nowhere"}]
    /\ orphans \in [SFP -> 0..subDeaths]
    /\ asked \in [SFP -> {"no", "queued", "sent", "lost"}]
    /\ queue \in [SFP -> Seq({"here", "gone"})] /\ asker \in [SFP -> {"none", "here", "gone"}]
    /\ \A s \in SFP :
        asked[s] = "sent" <=> asker[s] = "here" \/ Contains(queue[s], "here")
    /\ boxDeaths \in 0..MaxBoxDeaths /\ subDeaths \in 0..MaxSubDeaths
    /\ daqDeaths \in 0..MaxDaqDeaths
    /\ damaged \in [SFP -> Nat]

\* The restart of one process never gives a task a reply to a query it did not
\* send: queries and replies of a task that has ended are not taken for those of
\* the one that followed it.
LockstepKept == SB!Lockstep

Contents(messages) == IF messages = <<>> THEN <<>> ELSE Head(messages)
Before(v, w) == v[1] < w[1] \/ (v[1] = w[1] /\ v[2] < w[2])

\* Over all restarts the data sent to minidaq, followed by what is on the way,
\* are in the detector's order and have no dword twice.
InOrder ==
    \A s \in SFP :
        LET words == delivered[s] \o buffer[s] \o Contents(fragment[s]) \o fifo[s] \o link[s]
        IN  \A i, j \in 1..Len(words) :
              i < j /\ EOD \notin {words[i], words[j]} => Before(words[i], words[j])

\* The builder finds its way back to the event boundaries: per link a restart of
\* trdboxd costs at most one subevent that is not a whole event, and a restart of
\* subevd at most two, the second one because of the query it left at trdboxd;
\* as long as no buffer was reset by an overflow.
DamageBounded ==
    \A s \in SFP : overflowed[s] \/ damaged[s] <= boxDeaths + 2 * subDeaths

\* A read of minidaq is answered, though a termination was requested of subevd
\* and whatever processes were restarted, unless its subevd ended or trdboxd
\* ended with the query (trd_subevent_builder.cc:95 waits without a deadline).
AnsweredUnlessLost ==
    \A s \in SFP :
        asked[s] # "no" ~>
            \/ asked[s] \in {"no", "lost"}
            \/ query[s] /\ at[s] = "nowhere"

(* The classes have their own processes "so that they can be debugged and  *)
(* restarted independently" (README.md:24 of trdbox).  Violated: after a   *)
(* restart of trdboxd a task waits for the reply to a query that is lost.  *)
RestartedIndependently == \A s \in SFP : asked[s] = "sent" ~> asked[s] = "no"
=============================================================================
