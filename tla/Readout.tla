------------------------------- MODULE Readout -------------------------------
(***************************************************************************)
(* The data acquisition: minidaq.py readevent, one subevent builder task   *)
(* per SFP (SubeventBuilder) and trdboxd (LogicboxProxy), joined by their  *)
(* ZeroMQ sockets, reading the events of the detector.                     *)
(*                                                                         *)
(*   minidaq --"write 0x103 1", "read 0x102"--> trdboxd                    *)
(*   minidaq --"read"--> subevd task s --"dump sfpS"--> trdboxd            *)
(*                                                                         *)
(* The builder's variables are those of SubeventBuilder, whose actions are *)
(* used as they stand.  Of trdboxd's commands the four that the readout    *)
(* issues occur.  The detector answers pretrigger t with one event per     *)
(* link: dwords <<t, k>>, then a run of markers, arriving one at a time.   *)
(***************************************************************************)
EXTENDS Integers, Sequences, SequencesExt

CONSTANTS
    EOD,
    MaxPayload,   \* dwords in a zmq_buffer_t and in a builder's buffer
    EventSize,    \* data dwords per link and event
    EodRun,       \* markers that end an event on a link, at most
    nevents,      \* minidaq.py's --nevents
    MaxTriggers,  \* bound on the pretriggers
    FifoBound     \* bound on the dwords in one FIFO

SFP == 0..1

(* A FIFO that fills a whole zmq_buffer_t loses its dwords: LogicboxProxy.  *)
ASSUME ConstantsAssumption ==
    /\ {EventSize, EodRun, nevents, MaxTriggers, FifoBound} \subseteq Nat \ {0}
    /\ MaxPayload \in Nat /\ FifoBound < MaxPayload
    /\ EOD \notin (1..MaxTriggers) \X (1..EventSize)

VARIABLES
    pc, request, answer, query, fragment, expired, buffer, payload_size,
    status, received, delivered, overflowed,   \* the builders
    fifo, blocked, pre_cnt,   \* the TRDbox
    autoblock, \* whether a pretrigger blocks the trigger (trigger.cc:24)
    eods,      \* the markers that end an event
    link,      \* per SFP: dwords the detector has still to send
    mpc,       \* where readevent is
    cmd,       \* minidaq's request at trdboxd
    reply,     \* trdboxd's reply to minidaq
    cnt,       \* wait_for_pretrigger's first reading
    data,      \* the segments collected for the event being built
    file       \* outfile: per event the segments

builderVars == <<pc, request, answer, query, fragment, expired, buffer,
                 payload_size, status, received, delivered, overflowed>>
setup       == <<autoblock, eods>>
boxVars     == <<fifo, blocked, pre_cnt, setup, link>>
daqVars     == <<mpc, cmd, reply, cnt, data, file>>
vars        == <<builderVars, boxVars, daqVars>>

-----------------------------------------------------------------------------
(* What the detector sends on a link for pretrigger t, and for the first t.*)
Period == EventSize + eods

Event(t) == [k \in 1..Period |-> IF k <= EventSize THEN <<t, k>> ELSE EOD]

Produced(t) ==
    [k \in 1..t * Period |-> Event(1 + (k - 1) \div Period)[1 + ((k - 1) % Period)]]

Word == ((1..MaxTriggers) \X (1..EventSize)) \cup {EOD}

(* What a dump may return.                                                 *)
Piece == UNION {[1..n -> Word] : n \in 0..FifoBound}

MaxStream == MaxTriggers * (EventSize + EodRun)

SB == INSTANCE SubeventBuilder WITH
        Data     <- Word \ {EOD},
        Fragment <- Piece,
        MaxWords <- MaxStream

Client == {"subevd0", "subevd1", "minidaq"}
LinkOf(task) == IF task = "subevd0" THEN 0 ELSE 1

(* minidaq's commands in the terms of LogicboxProxy.                       *)
Cmd(op) == [op |-> op, sfp |-> 0]

LP == INSTANCE LogicboxProxy WITH
        MaxArrivals <- 2 * MaxStream,
        req     <- [c \in Client |->
                      IF c = "minidaq" THEN cmd
                      ELSE IF query[LinkOf(c)]
                           THEN <<[op |-> "dump", sfp |-> LinkOf(c)]>> ELSE <<>>],
        rep     <- [c \in Client |->
                      IF c = "minidaq" THEN reply
                      ELSE IF fragment[LinkOf(c)] = <<>> THEN <<>>
                           ELSE <<[data |-> Head(fragment[LinkOf(c)]), value |-> 0]>>],
        arrived <- [s \in SFP |->
                      SubSeq(Produced(pre_cnt), 1, pre_cnt * Period - Len(link[s]))],
        sent    <- [s \in SFP |-> received[s] \o
                      (IF fragment[s] = <<>> THEN <<>> ELSE Head(fragment[s]))],
        alive   <- TRUE,
        cleared <- [s \in SFP |-> FALSE],
        wrapped <- [s \in SFP |-> FALSE]

-----------------------------------------------------------------------------
Init ==
    /\ SB!Init
    /\ fifo = [s \in SFP |-> <<>>]
    /\ blocked = TRUE
    /\ pre_cnt = 0
    /\ autoblock \in BOOLEAN /\ eods \in 1..EodRun
    /\ link = [s \in SFP |-> <<>>]
    /\ mpc = "unblock"
    /\ cmd = <<>>
    /\ reply = <<>>
    /\ cnt = 0
    /\ data = <<>>
    /\ file = <<>>

(* The subevent builders; minidaq sends them nothing but "read".           *)
Build(s) ==
    /\ \/ SB!RecvRead(s)
       \/ SB!ReplyTimeout(s)
       \/ SB!QueryAgain(s)
       \/ SB!ReplySubevent(s)
    /\ UNCHANGED <<boxVars, daqVars>>

Expire(s) ==
    /\ SB!Expire(s)
    /\ UNCHANGED <<boxVars, daqVars>>

(* trdboxd serves a dump to task s, an unblock or a count to minidaq.      *)
ServeDump(s) ==
    /\ query[s]
    /\ query' = [query EXCEPT ![s] = FALSE]
    /\ fragment' = [fragment EXCEPT ![s] = <<LP!Dumped(fifo[s])>>]
    /\ fifo' = [fifo EXCEPT ![s] = LP!Rest(@)]
    /\ UNCHANGED <<pc, request, answer, expired, buffer, payload_size, status,
                   received, delivered, overflowed, blocked, pre_cnt, setup, link, daqVars>>

ServeUnblockOnly ==   \* slip: the register is not written
    /\ cmd = <<Cmd("unblock")>>
    /\ cmd' = <<>>
    /\ reply' = <<LP!Text>>
    /\ UNCHANGED <<builderVars, boxVars, mpc, cnt, data, file>>

ServeUnblock ==
    /\ cmd = <<Cmd("unblock")>>
    /\ cmd' = <<>>
    /\ reply' = <<LP!Text>>
    /\ blocked' = FALSE
    /\ UNCHANGED <<builderVars, fifo, pre_cnt, setup, link, mpc, cnt, data, file>>

ServeCount ==
    /\ cmd = <<Cmd("count")>>
    /\ cmd' = <<>>
    /\ reply' = <<[data |-> <<>>, value |-> pre_cnt]>>
    /\ UNCHANGED <<builderVars, boxVars, mpc, cnt, data, file>>

(* The detector.                                                           *)
Pretrigger ==
    /\ ~blocked
    /\ pre_cnt < MaxTriggers
    /\ pre_cnt' = pre_cnt + 1
    /\ blocked' = autoblock
    /\ link' = [s \in SFP |-> link[s] \o Event(pre_cnt + 1)]
    /\ UNCHANGED <<builderVars, fifo, setup, daqVars>>

Arrive(s) ==
    /\ link[s] # <<>>
    /\ Len(fifo[s]) < FifoBound
    /\ fifo' = [fifo EXCEPT ![s] = Append(@, Head(link[s]))]
    /\ link' = [link EXCEPT ![s] = Tail(@)]
    /\ UNCHANGED <<builderVars, blocked, pre_cnt, setup, daqVars>>

-----------------------------------------------------------------------------
(* readevent, in the order of its statements.                              *)

SendUnblock ==
    /\ mpc = "unblock"
    /\ cmd' = <<Cmd("unblock")>>
    /\ mpc' = "confirm"
    /\ UNCHANGED <<builderVars, boxVars, reply, cnt, data, file>>

(* The confirmation, and the first get_pretrigger_count's request.         *)
Confirmed ==
    /\ mpc = "confirm" /\ reply # <<>>
    /\ reply' = <<>>
    /\ cmd' = <<Cmd("count")>>
    /\ mpc' = "baseline"
    /\ UNCHANGED <<builderVars, boxVars, cnt, data, file>>

(* wait_for_pretrigger: the count to compare with, then polling.           *)
Baseline ==
    /\ mpc = "baseline" /\ reply # <<>>
    /\ cnt' = Head(reply).value
    /\ reply' = <<>>
    /\ cmd' = <<Cmd("count")>>
    /\ mpc' = "poll"
    /\ UNCHANGED <<builderVars, boxVars, data, file>>

PollAgain ==
    /\ mpc = "poll" /\ reply # <<>>
    /\ Head(reply).value <= cnt
    /\ reply' = <<>>
    /\ cmd' = <<Cmd("count")>>
    /\ UNCHANGED <<builderVars, boxVars, mpc, cnt, data, file>>

TriggeredAtOnce ==   \* slip: compares with >=
    /\ mpc = "poll" /\ reply # <<>>
    /\ Head(reply).value >= cnt
    /\ reply' = <<>>
    /\ mpc' = "read0"
    /\ UNCHANGED <<builderVars, boxVars, cmd, cnt, data, file>>

(* A pretrigger has been counted.                                          *)
Triggered ==
    /\ mpc = "poll" /\ reply # <<>>
    /\ Head(reply).value > cnt
    /\ reply' = <<>>
    /\ mpc' = "read0"
    /\ UNCHANGED <<builderVars, boxVars, cmd, cnt, data, file>>

(* "read" goes to both tasks before either answer is received.             *)
SendRead(s) ==
    /\ mpc = IF s = 0 THEN "read0" ELSE "read1"
    /\ request' = [request EXCEPT ![s] = <<"read">>]
    /\ mpc' = IF s = 0 THEN "read1" ELSE "collect"
    /\ UNCHANGED <<pc, answer, query, fragment, expired, buffer, payload_size,
                   status, received, delivered, overflowed, boxVars, cmd, reply,
                   cnt, data, file>>

CollectKeepsData ==   \* slip: the list of segments is not emptied
    LET s == Len(data)
    IN  /\ mpc = "collect"
        /\ answer[s] # <<>>
        /\ answer' = [answer EXCEPT ![s] = <<>>]
        /\ data' = Append(data, Head(answer[s]))
        /\ file' = IF s = 1 THEN Append(file, data') ELSE file
        /\ mpc' = IF s = 0 THEN mpc
                  ELSE IF Len(file') = nevents THEN "done" ELSE "unblock"
        /\ UNCHANGED <<pc, request, query, fragment, expired, buffer, payload_size,
                       status, received, delivered, overflowed, boxVars, cmd,
                       reply, cnt>>

CollectGivesUp ==   \* slip: goes on to the next event without the answers
    /\ mpc = "collect"
    /\ mpc' = "unblock"
    /\ UNCHANGED <<builderVars, boxVars, cmd, reply, cnt, data, file>>

(* eq.recv() for sfp0, then for sfp1; the last one completes the event.    *)
Collect ==
    LET s == Len(data)
    IN  /\ mpc = "collect"
        /\ answer[s] # <<>>
        /\ answer' = [answer EXCEPT ![s] = <<>>]
        /\ IF s = 1
           THEN /\ file' = Append(file, Append(data, Head(answer[s])))
                /\ data' = <<>>
                /\ mpc' = IF Len(file') = nevents THEN "done" ELSE "unblock"
           ELSE /\ data' = Append(data, Head(answer[s]))
                /\ UNCHANGED <<file, mpc>>
        /\ UNCHANGED <<pc, request, query, fragment, expired, buffer, payload_size,
                       status, received, delivered, overflowed, boxVars, cmd,
                       reply, cnt>>

Minidaq ==
    \/ SendUnblock \/ Confirmed \/ Baseline \/ PollAgain \/ Triggered
    \/ \E s \in SFP : SendRead(s)
    \/ Collect

Next ==
    \/ Minidaq
    \/ ServeUnblock \/ ServeCount
    \/ Pretrigger
    \/ \E s \in SFP : Build(s) \/ Expire(s) \/ ServeDump(s) \/ Arrive(s)

(* Every process runs, the proxy serves every client, the detector sends   *)
(* what it owes, a pretrigger comes when the trigger is open, and the      *)
(* clock passes a builder's deadline.                                      *)
Fairness ==
    /\ WF_vars(Minidaq)
    /\ WF_vars(ServeUnblock) /\ WF_vars(ServeCount)
    /\ WF_vars(Pretrigger)
    /\ \A s \in SFP : /\ WF_vars(Build(s)) /\ WF_vars(Expire(s))
                      /\ WF_vars(ServeDump(s)) /\ WF_vars(Arrive(s))

Spec == Init /\ [][Next]_vars
FairSpec == Spec /\ Fairness

-----------------------------------------------------------------------------
(* Properties.                                                             *)

Contents(messages) == IF messages = <<>> THEN <<>> ELSE Head(messages)

TypeOK ==
    /\ SB!TypeOK
    /\ fifo \in [SFP -> Seq(SB!Word)] /\ link \in [SFP -> Seq(SB!Word)]
    /\ {blocked, autoblock} \subseteq BOOLEAN /\ eods \in 1..EodRun /\ pre_cnt \in 0..MaxTriggers
    /\ mpc \in {"unblock", "confirm", "baseline", "poll", "read0", "read1",
                "collect", "done"}
    /\ cmd \in {<<>>, <<Cmd("unblock")>>, <<Cmd("count")>>}
    /\ reply \in Seq([data : {<<>>}, value : 0..MaxTriggers])
    /\ cnt \in 0..MaxTriggers
    /\ data \in Seq(SB!Answer) /\ Len(data) <= 1
    /\ file \in Seq([1..2 -> SB!Answer])

(* The dwords of link s in the events written, then in the one being built.*)
Filed(s) ==
    FlattenSeq([e \in 1..Len(file) |-> file[e][s + 1].payload])
        \o (IF Len(data) > s THEN data[s + 1].payload ELSE <<>>)

Answered(s) == IF answer[s] = <<>> THEN <<>> ELSE Head(answer[s]).payload

\* From the detector to the file nothing is lost, repeated or reordered: what
\* the detector produced for all pretriggers is, link by link, what the file
\* holds followed by what is in each process and socket on the way.  Timeouts
\* are included; only the overflow reset gives it up.
EndToEnd ==
    \A s \in SFP :
        \/ overflowed[s]
        \/ Produced(pre_cnt) =
             Filed(s) \o Answered(s) \o buffer[s] \o Contents(fragment[s])
               \o fifo[s] \o link[s]

\* With autoblock and single markers the n-th event written is the event of
\* the n-th pretrigger, complete on both links, however the fragments of the
\* two links interleave, up to the first event with a timeout.
EventsInStep ==
    autoblock /\ eods = 1 => \A e \in DOMAIN file :
        (\A n \in 1..e : \A s \in SFP : file[n][s + 1].status = 0)
            => \A s \in SFP : file[e][s + 1].payload = Event(e)

\* With autoblock no pretrigger comes while an event is being read out, and
\* the event being read out is the newest.
QuietReadout ==
    autoblock /\ mpc \in {"read0", "read1", "collect"} =>
        blocked /\ pre_cnt = cnt + 1

\* The builders and the proxy behave as their own specifications allow.
BuildersImplemented == SB!Spec
ProxyImplemented == LP!Spec

\* A readout that has begun ends: a deadline releases a builder whose data do
\* not come, and both builders are answered by the one proxy.
ReadoutEnds == mpc = "read0" ~> mpc \in {"unblock", "done"}

\* "unblock the hardware trigger, wait for a trigger to occur and then start
\* the readout" (README.md:30 of trdbox): an unblocked trigger is followed by
\* a readout.  A pretrigger between the unblock and the first reading of the
\* counter is part of the baseline, and blocks the trigger.
UnblockLeadsToReadout == mpc = "confirm" /\ autoblock ~> mpc = "collect"
=============================================================================
