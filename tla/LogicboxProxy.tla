--------------------------- MODULE LogicboxProxy ---------------------------
(***************************************************************************)
(* trdboxd (trdboxd.cc): one thread that owns the LogicBox and serves text *)
(* commands on a REP socket.  Every client has at most one request or one  *)
(* reply under way; the socket takes the requests of different clients in  *)
(* any order, and each is served to its reply before the next is received. *)
(*                                                                         *)
(* Outside src/, and modelled from how src/ uses it: the TRDbox hardware,  *)
(* reduced to one receive FIFO per SFP card and to the pretrigger logic    *)
(* (register 0x102 counts accepted pretriggers, writing 0x103 unblocks).   *)
(***************************************************************************)
EXTENDS Integers, Sequences

CONSTANTS
    Client,      \* the REQ peers: subevd's tasks, minidaq.py, the CLI
    Word,        \* dwords
    MaxPayload,  \* max_payload_size of zmq_buffer_t, in dwords; 64 KiB, which
                 \* is also the modulus of the uint16_t payload_size
    FifoBound,   \* bound on the dwords in one FIFO
    MaxArrivals, \* bound on the dwords the links deliver
    MaxTriggers  \* bound on the pretriggers

(* With more than MaxPayload dwords in the FIFO mem_dump would write past  *)
(* zmq_buffer_t::payload (su738.cc:631 passes bytes where 602 counts       *)
(* dwords): undefined behaviour, left out by the second conjunct.          *)
ASSUME ConstantsAssumption ==
    /\ MaxPayload \in Nat \ {0}
    /\ FifoBound \in 1..MaxPayload
    /\ MaxArrivals \in Nat
    /\ MaxTriggers \in Nat

SFP == 0..1
SfpOp == {"reset", "phase"}

(* "reset" stands for "sfpN reset", test1 and test2, "phase" for phase:    *)
(* each clears the receiver, and they differ in the card they act on; what *)
(* else they do is in SfpCard.  "unblock" is "trg unblock" or a write to   *)
(* 0x103, "count" a read of 0x102, "plain" any command that leaves the     *)
(* FIFOs and the trigger as they are: trg send, other reads and writes,    *)
(* and what is answered by "???".  "prog" is sfpN prog.                    *)
Command == [op : {"dump"} \cup SfpOp, sfp : SFP]
               \cup [op : {"unblock", "count", "prog", "plain"}, sfp : {0}]

Reply == [data : Seq(Word), value : 0..MaxTriggers]

VARIABLES
    req,       \* per client: the request waiting in cmdsock
    rep,       \* per client: the reply it has not received
    fifo,      \* per SFP: the card's receive FIFO
    blocked,   \* the trigger is blocked
    pre_cnt,   \* accepted pretriggers
    alive,     \* the process runs
    arrived,   \* history: dwords the FIFO has received
    sent,      \* history: dwords sent in replies to "dump"
    cleared,   \* history: the FIFO has been cleared by a command
    wrapped    \* history: a dump made the 16-bit payload_size 0

hardware == <<fifo, blocked, pre_cnt>>
history  == <<arrived, sent, cleared, wrapped>>
vars     == <<req, rep, alive, hardware, history>>

Text == [data |-> <<>>, value |-> 0]    \* a reply that is not data

-----------------------------------------------------------------------------
(* su738::mem_dump(zmq_buffer_t&): what is read out of the FIFO, at most   *)
(* RX_FIFO_SIZE dwords, and how much of it the 16-bit payload_size         *)
(* announces to the client.                                                *)
RX_FIFO_SIZE == 2 * MaxPayload

nread(words) == IF Len(words) > RX_FIFO_SIZE THEN RX_FIFO_SIZE ELSE Len(words)

Dumped(words) == SubSeq(words, 1, nread(words) % MaxPayload)

Wraps(words) == words # <<>> /\ nread(words) % MaxPayload = 0

Rest(words) == SubSeq(words, nread(words) + 1, Len(words))

Init ==
    /\ req = [c \in Client |-> <<>>]
    /\ rep = [c \in Client |-> <<>>]
    /\ fifo = [s \in SFP |-> <<>>]
    /\ blocked = TRUE
    /\ pre_cnt = 0
    /\ alive = TRUE
    /\ arrived = [s \in SFP |-> <<>>]
    /\ sent = [s \in SFP |-> <<>>]
    /\ cleared = [s \in SFP |-> FALSE] /\ wrapped = [s \in SFP |-> FALSE]

(* cmdsock.recv ...                                                        *)
Take(c, ops) ==
    /\ alive
    /\ req[c] # <<>>
    /\ Head(req[c]).op \in ops
    /\ req' = [req EXCEPT ![c] = <<>>]

(* ... and the cmdsock.send that ends every branch ...                     *)
Serve(c, ops, reply) ==
    /\ Take(c, ops)
    /\ rep' = [rep EXCEPT ![c] = <<reply>>]
    /\ UNCHANGED alive

(* ... unless the branch uses a file that fopen could not open, which      *)
(* su738 does not test: the process ends, and nobody is answered any more. *)
Die(c, ops) ==
    /\ Take(c, ops)
    /\ alive' = FALSE
    /\ UNCHANGED rep

DumpKeepsFifo(c) ==   \* slip: the dwords are read but not taken out
    \E s \in SFP :
        /\ req[c] # <<>> /\ Head(req[c]).sfp = s
        /\ Serve(c, {"dump"}, [data |-> Dumped(fifo[s]), value |-> 0])
        /\ sent' = [sent EXCEPT ![s] = @ \o Dumped(fifo[s])]
        /\ UNCHANGED <<hardware, arrived, cleared, wrapped>>

DumpWithoutReply(c) ==   \* slip: the empty branches forget cmdsock.send
    \E s \in SFP :
        /\ req[c] # <<>> /\ Head(req[c]).sfp = s
        /\ Take(c, {"dump"})
        /\ rep' = IF Dumped(fifo[s]) = <<>> THEN rep
                  ELSE [rep EXCEPT ![c] =
                          <<[data |-> Dumped(fifo[s]), value |-> 0]>>]
        /\ fifo' = [fifo EXCEPT ![s] = Rest(@)]
        /\ sent' = [sent EXCEPT ![s] = @ \o Dumped(fifo[s])]
        /\ wrapped' = [wrapped EXCEPT ![s] = @ \/ Wraps(fifo[s])]
        /\ UNCHANGED <<alive, blocked, pre_cnt, arrived, cleared>>

(* "dump sfpN": the whole FIFO goes into one reply, or an empty reply; of  *)
(* exactly MaxPayload dwords the size is 0, and they are lost.             *)
Dump(c) ==
    \E s \in SFP :
        /\ req[c] # <<>> /\ Head(req[c]).sfp = s
        /\ Serve(c, {"dump"}, [data |-> Dumped(fifo[s]), value |-> 0])
        /\ fifo' = [fifo EXCEPT ![s] = Rest(@)]
        /\ sent' = [sent EXCEPT ![s] = @ \o Dumped(fifo[s])]
        /\ wrapped' = [wrapped EXCEPT ![s] = @ \/ Wraps(fifo[s])]
        /\ UNCHANGED <<blocked, pre_cnt, arrived, cleared>>

(* For "reset" match[0] is the whole match and atoi of it 0, so SFP 0 is   *)
(* meant whatever N.  For "phase" s is uninitialised: either card (with    *)
(* any other value the array is left, and the program has no behaviour).   *)
Target(op) == IF op = "phase" THEN SFP ELSE {0}

(* RX_phase writes phase_rx_lb.dat after it has cleared the receiver.      *)
SfpCommand(c) ==
    \E s \in SFP :
        /\ req[c] # <<>> /\ s \in Target(Head(req[c]).op)
        /\ Serve(c, SfpOp, Text) \/ Die(c, {"phase"})
        /\ fifo' = [fifo EXCEPT ![s] = <<>>]
        /\ cleared' = [cleared EXCEPT ![s] = TRUE]
        /\ UNCHANGED <<blocked, pre_cnt, arrived, sent, wrapped>>

Unblock(c) ==
    /\ Serve(c, {"unblock"}, Text)
    /\ blocked' = FALSE
    /\ UNCHANGED <<fifo, pre_cnt, history>>

ReadCount(c) ==
    /\ Serve(c, {"count"}, [data |-> <<>>, value |-> pre_cnt])
    /\ UNCHANGED <<hardware, history>>

(* program_FPGA reads sfpprog.bin.                                         *)
Program(c) ==
    /\ Serve(c, {"prog"}, Text) \/ Die(c, {"prog"})
    /\ UNCHANGED <<hardware, history>>

Plain(c) ==
    /\ Serve(c, {"plain"}, Text)
    /\ UNCHANGED <<hardware, history>>

Proxy(c) ==
    \/ Dump(c)
    \/ SfpCommand(c)
    \/ Program(c)
    \/ Unblock(c) \/ ReadCount(c)
    \/ Plain(c)

-----------------------------------------------------------------------------
(* The environment: clients, the trigger and the data links.               *)

ClientSend(c) ==
    /\ req[c] = <<>> /\ rep[c] = <<>>
    /\ \E cmd \in Command : req' = [req EXCEPT ![c] = <<cmd>>]
    /\ UNCHANGED <<rep, alive, hardware, history>>

ClientReceive(c) ==
    /\ rep[c] # <<>>
    /\ rep' = [rep EXCEPT ![c] = <<>>]
    /\ UNCHANGED <<req, alive, hardware, history>>

(* A client that takes its reply and sends the next request at once.       *)
ClientNext(c) ==
    /\ rep[c] # <<>>
    /\ rep' = [rep EXCEPT ![c] = <<>>]
    /\ \E cmd \in Command : req' = [req EXCEPT ![c] = <<cmd>>]
    /\ UNCHANGED <<alive, hardware, history>>

(* Whether a pretrigger blocks the trigger is set by trg conf.             *)
Pretrigger ==
    /\ ~blocked
    /\ pre_cnt < MaxTriggers
    /\ pre_cnt' = pre_cnt + 1
    /\ blocked' \in BOOLEAN
    /\ UNCHANGED <<req, rep, alive, fifo, history>>

Arrive(s) ==
    /\ Len(fifo[s]) < FifoBound
    /\ Len(arrived[0]) + Len(arrived[1]) < MaxArrivals
    /\ \E w \in Word :
        /\ fifo' = [fifo EXCEPT ![s] = Append(@, w)]
        /\ arrived' = [arrived EXCEPT ![s] = Append(@, w)]
    /\ UNCHANGED <<req, rep, alive, blocked, pre_cnt, sent, cleared, wrapped>>

Environment ==
    \/ \E c \in Client : ClientSend(c) \/ ClientReceive(c) \/ ClientNext(c)
    \/ Pretrigger
    \/ \E s \in SFP : Arrive(s)

Next == (\E c \in Client : Proxy(c)) \/ Environment

(* The proxy's loop runs while the process does, and ZeroMQ queues the     *)
(* clients fairly.  Which of its outcomes a branch has is left open.       *)
Spec == Init /\ [][Next]_vars
FairSpec == Spec /\ \A c \in Client : WF_vars(Proxy(c))

-----------------------------------------------------------------------------
(* Properties.                                                             *)

TypeOK ==
    /\ req \in [Client -> Seq(Command)]
    /\ rep \in [Client -> Seq(Reply)]
    /\ fifo \in [SFP -> Seq(Word)]
    /\ blocked \in BOOLEAN
    /\ pre_cnt \in 0..MaxTriggers
    /\ alive \in BOOLEAN
    /\ arrived \in [SFP -> Seq(Word)]
    /\ sent \in [SFP -> Seq(Word)]
    /\ cleared \in [SFP -> BOOLEAN] /\ wrapped \in [SFP -> BOOLEAN]

\* What a link delivered is what the dumps of that link returned, in order and
\* whoever asked, followed by what the FIFO still holds; unless a command cleared
\* it, or a dump found exactly as many dwords as fill the buffer (su738.cc:638).
DumpsLoseNothing ==
    \A s \in SFP : cleared[s] \/ wrapped[s] \/ arrived[s] = sent[s] \o fifo[s]

\* Each request is answered, to the client that sent it, unless the process has
\* ended: programming without sfpprog.bin (su738.cc:1164-1169) and a phase scan
\* that cannot write its file (881-882) kill it under whoever waits.
EveryCommandAnswered ==
    \A c \in Client : req[c] # <<>> ~> (rep[c] # <<>> \/ ~alive)
=============================================================================
