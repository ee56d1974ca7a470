------------------------------ MODULE SfpCard ------------------------------
(***************************************************************************)
(* The procedures by which trdboxd tests and sets up its two SFP cards     *)
(* (su738.cc): the optical test, the scan of the receive phase and the     *)
(* programming of the FPGA, run by the constructor of logicbox_proxy       *)
(* before it binds and later for the commands "sfpN test1", "test2",       *)
(* "phase", "prog" and "reset".  The thread waits for each; the detector   *)
(* does not.                                                               *)
(*                                                                         *)
(* A 16-bit word is the set of its bits.  Outside src/, and modelled from  *)
(* how su738.cc uses it: the card, with a receive FIFO of words, a config  *)
(* register, the clock manager (DCM) that shifts the receive phase, and    *)
(* the way of the words from the FPGA through the transceiver (TLK) and    *)
(* the fibre, which may have a fault somewhere.                            *)
(***************************************************************************)
EXTENDS Integers, Sequences

CONSTANTS
    NBits,     \* bits of a word: 16
    Runs,      \* runs of a test: 15
    NWords,    \* words of a run: 1024
    MaxDelay,  \* steps of the DCM that set_dcm allows: 255
    Tries,     \* readings of a status before it is given up: 100
    Hardware,  \* what the two cards may be
    FifoBound  \* bound on the dwords of the detector in a FIFO

Card == 0..1
Bit == 0..NBits - 1
Word == SUBSET Bit

(* A fault: bit i stuck at 0 or at 1, bits i and j bridged, the first word *)
(* after a pause lost, or nothing that comes through.                      *)
Place == {"fpga", "tlk", "fibre"}
Fault == [kind : {"none", "zero", "one", "bridge", "drop", "dark"}, place : Place,
          i : Bit, j : Bit]

(* left and right are the ends of the DCM, good the phases that work.      *)
CardType == [fault : Fault, left : Int, right : Int, good : SUBSET Int, programmed : BOOLEAN]

(* readBurst reads nwords * runs dwords, and the writeBurst fits 16 bits   *)
(* (line 326: otherwise the burst returns -1 and err wraps).               *)
ASSUME CardAssumption ==
    /\ NBits \in Nat \ {0} /\ Runs \in Nat \ {0} /\ NWords \in Nat \ {0}
    /\ 2 * NWords * Runs <= 65535
    /\ MaxDelay \in Nat \ {0} /\ Tries \in Nat /\ FifoBound \in Nat
    /\ Hardware \subseteq [Card -> CardType]
    /\ \A h \in Hardware, c \in Card :
           /\ h[c].left <= 0 /\ h[c].right >= 0
           /\ h[c].fault.kind = "bridge" => h[c].fault.i # h[c].fault.j

VARIABLES
    server,     \* "startup", "serving" or "dead"
    proc,       \* the procedure under way, or "none"
    step,       \* where in it
    card,       \* the card it is for
    mode,       \* pattern of the next burst
    failed,     \* err > 0
    i,          \* loop variable of set_dcm, test_rxtx_ph, or tries
    ph,         \* phase, as test_rxtx_ph counts it
    left,       \* actual_left
    right,      \* actual_right
    rows,       \* phases whose err has been stored
    hw,         \* the cards
    file,       \* sfpprog.bin can be opened
    configured, \* per card: the FPGA has its configuration
    config,     \* per card: the config register
    fifo,       \* per card: receive FIFO
    dcm         \* per card: position of the DCM

cardvars == <<configured, config, fifo, dcm>>
scanvars == <<i, ph, left, right, rows>>
fixed == <<hw, file>>
vars == <<server, proc, step, card, mode, failed, scanvars, fixed, cardvars>>

-----------------------------------------------------------------------------
(* The test patterns.                                                      *)
mask == Bit \ {NBits - 1}
Bits(n) == {b \in Bit : (n \div 2^b) % 2 = 1}

gen_first(m, run) ==
    CASE m = 0 -> Bits(run)
      [] m = 1 -> {run % NBits}
      [] m = 2 -> <<{}, mask, {b \in mask : b % 2 = 0}, {b \in mask : b % 2 = 1}>>[1 + (run % 4)]
      [] OTHER -> {}

(* last + 1: the lowest bit that is 0 is set and those below it cleared.   *)
Count(last) ==
    {b \in Bit : IF 0..b - 1 \subseteq last THEN b \notin last ELSE b \in last}
Shift(last) ==
    LET w == {b + 1 : b \in last} \cap mask IN IF w = {} THEN {0} ELSE w

gen_tp(last, m) ==
    CASE m = 0 -> Count(last) \cap mask
      [] m = 1 -> Shift(last)
      [] m = 2 -> mask \ last
      [] OTHER -> last

(* The words of a run, and what is written: each and its complement.       *)
RunWords(m, run) ==
    LET last[j \in 0..NWords - 1] ==
            IF j = 0 THEN gen_first(m, run) ELSE gen_tp(last[j - 1], m)
    IN  last

wBuffer ==
    [m \in 0..3 |-> [k \in 1..2 * NWords * Runs |->
        LET j == (k - 1) \div 2
            last == RunWords(m, j \div NWords)[j % NWords]
        IN  IF k % 2 = 1 THEN last ELSE Bit \ last]]

-----------------------------------------------------------------------------
(* The card.                                                               *)
PhaseGood(c) == dcm[c] \in hw[c].good

(* Where the words pass: spi_cnf[0] turns them round in the FPGA,          *)
(* spi_cnf[1] in the TLK, and in operation they come over the fibre.       *)
Way == [loop1 |-> {"fpga"}, loop2 |-> {"fpga", "tlk"}, normal |-> Place, none |-> {}]

(* The fault that they meet there.                                         *)
Met(c) == IF hw[c].fault.place \in Way[config[c]] THEN hw[c].fault.kind ELSE "none"

(* The loop that is closed works.                                          *)
LoopWorks(c) == configured[c] /\ Met(c) = "none" /\ PhaseGood(c)

Garbled(c, w) ==
    LET f == hw[c].fault IN
    IF ~PhaseGood(c) THEN Bit \ w
    ELSE IF Met(c) = "zero" THEN w \ {f.i}
    ELSE IF Met(c) = "one" THEN w \cup {f.i}
    ELSE IF Met(c) = "bridge" /\ ~({f.i, f.j} \subseteq w) THEN w \ {f.i, f.j}
    ELSE w

(* What comes back of the words written in a loopback.                     *)
Looped(c, s) ==
    IF ~configured[c] \/ Met(c) = "dark" \/ s = <<>> THEN <<>>
    ELSE LET t == [k \in DOMAIN s |-> Garbled(c, s[k])]
         IN  IF Met(c) = "drop" THEN Tail(t) ELSE t

(* readBurst of n dwords: when the FIFO is empty it returns junk.          *)
Words2Read(words, n, junk) ==
    [k \in 1..2 * n |-> IF k <= 2 * (Len(words) \div 2) THEN words[k] ELSE junk]

After(words, n) ==
    LET k == 2 * IF Len(words) \div 2 < n THEN Len(words) \div 2 ELSE n
    IN  SubSeq(words, k + 1, Len(words))

(* spi_rw_lb to SPI_A_CNF: without a configuration nobody listens.         *)
SetConfig(c, value) ==
    config' = IF configured[c] THEN [config EXCEPT ![c] = value] ELSE config

-----------------------------------------------------------------------------
Init ==
    /\ server = "startup" /\ proc = "test1" /\ step = "config" /\ card = 0
    /\ mode = 0 /\ failed = FALSE
    /\ i = 0 /\ ph = 0 /\ left = 0 /\ right = 0 /\ rows = {}
    /\ hw \in Hardware
    /\ file \in BOOLEAN
    /\ configured = [c \in Card |-> hw[c].programmed]
    /\ config = [c \in Card |-> IF configured[c] THEN "normal" ELSE "none"]
    /\ fifo = [c \in Card |-> <<>>]
    /\ dcm = [c \in Card |-> 0]

At(s) == proc # "none" /\ step = s

(* A procedure is entered for card c.                                      *)
Enter(p, c) ==
    /\ proc' = p /\ card' = c
    /\ step' = IF p = "prog" THEN "open" ELSE "config"
    /\ mode' = 0 /\ failed' = FALSE

(* Back in the constructor: after a failed test the card is programmed and *)
(* its phase scanned, then the next card is tested; then bind.             *)
Startup(p, c, bad) ==
    IF p = "test1" /\ bad THEN Enter("prog", c) /\ UNCHANGED server
    ELSE IF p = "prog" THEN Enter("phase", c) /\ UNCHANGED server
    ELSE IF c = 0 THEN Enter("test1", 1) /\ UNCHANGED server
    ELSE /\ server' = "serving"
         /\ proc' = "none" /\ step' = "none"
         /\ UNCHANGED <<card, mode, failed>>

(* Or in run(), which replies and waits for the next command.              *)
Return ==
    IF server = "startup" THEN Startup(proc, card, failed)
    ELSE /\ proc' = "none" /\ step' = "none"
         /\ UNCHANGED <<server, card, mode, failed>>

-----------------------------------------------------------------------------
(* opticalTest and RX_phase.                                               *)
TestConfig ==
    /\ At("config")
    /\ SetConfig(card, IF proc = "test2" THEN "loop2" ELSE "loop1")
    /\ step' = "clear"
    /\ UNCHANGED <<server, proc, card, mode, failed, scanvars, fixed, configured, fifo, dcm>>

\* slip: only the transmitter is cleared
TestClearTx ==
    /\ At("clear")
    /\ step' = IF proc = "phase" THEN "reset" ELSE "burst"
    /\ UNCHANGED <<server, proc, card, mode, failed, scanvars, fixed, cardvars>>

TestClear ==
    /\ At("clear")
    /\ fifo' = [fifo EXCEPT ![card] = <<>>]
    /\ step' = IF proc = "phase" THEN "reset" ELSE "burst"
    /\ UNCHANGED <<server, proc, card, mode, failed, scanvars, fixed, configured, config, dcm>>

(* test_opt_io_burst(mode, 15, 0, 3), for each mode of 0..3.               *)
\* slip: the counting pattern only
BurstCounting ==
    /\ At("burst")
    /\ \E junk \in {{}, Bit} :
           LET words == fifo[card] \o Looped(card, wBuffer[mode])
           IN  /\ failed' = (failed \/ Words2Read(words, NWords * Runs, junk) # wBuffer[mode])
               /\ fifo' = [fifo EXCEPT ![card] = After(words, NWords * Runs)]
    /\ mode' = mode + 1
    /\ step' = "restore"
    /\ UNCHANGED <<server, proc, card, scanvars, fixed, configured, config, dcm>>

\* slip: one mode more
BurstOneMore ==
    /\ At("burst")
    /\ \E junk \in {{}, Bit} :
           LET words == fifo[card] \o Looped(card, wBuffer[mode])
           IN  /\ failed' = (failed \/ Words2Read(words, NWords * Runs, junk) # wBuffer[mode])
               /\ fifo' = [fifo EXCEPT ![card] = After(words, NWords * Runs)]
    /\ mode' = mode + 1
    /\ step' = IF mode < 4 THEN "burst" ELSE "restore"
    /\ UNCHANGED <<server, proc, card, scanvars, fixed, configured, config, dcm>>

Burst ==
    /\ At("burst")
    /\ \E junk \in {{}, Bit} :
           LET words == fifo[card] \o Looped(card, wBuffer[mode])
           IN  /\ failed' = (failed \/ Words2Read(words, NWords * Runs, junk) # wBuffer[mode])
               /\ fifo' = [fifo EXCEPT ![card] = After(words, NWords * Runs)]
    /\ mode' = mode + 1
    /\ step' = IF mode < 3 THEN "burst" ELSE "restore"
    /\ UNCHANGED <<server, proc, card, scanvars, fixed, configured, config, dcm>>

TestRestore ==
    /\ At("restore")
    /\ SetConfig(card, "normal")
    /\ Return
    /\ UNCHANGED <<scanvars, fixed, configured, fifo, dcm>>
-----------------------------------------------------------------------------
(* test_rxtx_ph(0, 0): from set_dcm(-256), clipped to -255, up to 256 or   *)
(* to the end of the DCM.                                                  *)
minp == -(MaxDelay + 1)
maxp == MaxDelay + 1

(* step_dcm: at its end the DCM stays where it is and sets status bit 0.   *)
AtLeft == dcm[card] = hw[card].left
AtRight == dcm[card] = hw[card].right
Move(d) == dcm' = [dcm EXCEPT ![card] = @ + d]

(* test_opt_io(1, 1, 0) clears the FIFO, and what it reads decides only    *)
(* the number that is written to the file for this phase.                  *)
TestOptIo(phase) ==
    /\ rows' = rows \cup {phase}
    /\ fifo' = [fifo EXCEPT ![card] =
           After(Looped(card, SubSeq(wBuffer[1], 1, 2 * NWords)), NWords)]

ScanReset ==
    /\ At("reset")
    /\ dcm' = [dcm EXCEPT ![card] = 0]
    /\ i' = 0 /\ rows' = {}
    /\ left' = minp /\ right' = maxp
    /\ step' = "down"
    /\ UNCHANGED <<server, proc, card, mode, failed, ph, fixed, configured, config, fifo>>

ScanDown ==
    /\ At("down")
    /\ ~AtLeft /\ i < MaxDelay
    /\ Move(-1)
    /\ i' = i + 1
    /\ UNCHANGED <<server, proc, step, card, mode, failed, ph, left, right, rows,
                   fixed, configured, config, fifo>>

(* The steps done before the refused one are returned, or the delay; the   *)
(* loop goes on from the phase that was reached.                           *)
\* slip: the refused step is counted
ScanLeftCountsRefused ==
    /\ At("down")
    /\ AtLeft \/ i = MaxDelay
    /\ ph' = (IF i < MaxDelay THEN -(i + 1) ELSE -i)
    /\ left' = ph'
    /\ i' = ph' + 1
    /\ TestOptIo(ph')
    /\ step' = "up"
    /\ UNCHANGED <<server, proc, card, mode, failed, right, fixed, configured, config, dcm>>

ScanLeft ==
    /\ At("down")
    /\ AtLeft \/ i = MaxDelay
    /\ ph' = -i
    /\ left' = ph'
    /\ i' = ph' + 1
    /\ TestOptIo(ph')
    /\ step' = "up"
    /\ UNCHANGED <<server, proc, card, mode, failed, right, fixed, configured, config, dcm>>

ScanUp ==
    /\ At("up")
    /\ ~AtRight /\ i <= maxp
    /\ Move(1)
    /\ ph' = ph + 1
    /\ i' = i + 1
    /\ TestOptIo(ph')
    /\ UNCHANGED <<server, proc, step, card, mode, failed, left, right,
                   fixed, configured, config>>

\* slip: the loop is left before the err of the last phase is stored
ScanRightBreak ==
    /\ At("up")
    /\ AtRight /\ i <= maxp
    /\ ph' = ph + 1
    /\ right' = ph'
    /\ i' = maxp + 1
    /\ UNCHANGED <<server, proc, step, card, mode, failed, left, rows, fifo,
                   fixed, configured, config, dcm>>

ScanRight ==
    /\ At("up")
    /\ AtRight /\ i <= maxp
    /\ ph' = ph + 1
    /\ right' = ph'
    /\ i' = maxp + 1
    /\ TestOptIo(ph')
    /\ UNCHANGED <<server, proc, step, card, mode, failed, left,
                   fixed, configured, config, dcm>>

(* phase_rx_lb.dat is written and the phase stays where the scan has left  *)
(* it.                                                                     *)
ScanFile ==
    /\ At("up") /\ i > maxp
    /\ step' = "burst"
    /\ UNCHANGED <<server, proc, card, mode, failed, scanvars, fixed, cardvars>>

(* A file that fopen could not open is used all the same, as a null        *)
(* pointer: the process dies where it is.                                  *)
Die ==
    /\ server' = "dead" /\ proc' = "none" /\ step' = "none"
    /\ UNCHANGED <<card, mode, failed, scanvars, fixed, cardvars>>

ScanNoFile == At("up") /\ i > maxp /\ Die

-----------------------------------------------------------------------------
(* program_FPGA.                                                           *)
NoFile == At("open") /\ ~file /\ Die

(* PROG_B low: the FPGA loses what it had.                                 *)
StartProg ==
    /\ At("open") /\ file
    /\ configured' = [configured EXCEPT ![card] = FALSE]
    /\ config' = [config EXCEPT ![card] = "none"]
    /\ i' = 0
    /\ step' = "init"
    /\ UNCHANGED <<server, proc, card, mode, failed, ph, left, right, rows, fixed, fifo, dcm>>

(* Read until INIT_B is low or the tries are used up; either way go on.    *)
PollInit ==
    /\ At("init")
    /\ \/ i < Tries /\ i' = i + 1 /\ UNCHANGED step
       \/ step' = "bytes" /\ UNCHANGED i
    /\ UNCHANGED <<server, proc, card, mode, failed, ph, left, right, rows, fixed, cardvars>>

(* The FPGA takes the configuration, with the bytes or with the filling    *)
(* after them, or it does not; then it starts as after power up.           *)
Takes ==
    \/ UNCHANGED <<configured, config>>
    \/ /\ configured' = [configured EXCEPT ![card] = TRUE]
       /\ config' = [config EXCEPT ![card] = "normal"]

WriteBytes ==
    /\ At("bytes")
    /\ Takes
    /\ i' = 0
    /\ step' = "done"
    /\ UNCHANGED <<server, proc, card, mode, failed, ph, left, right, rows, fixed, fifo, dcm>>

PollDone ==
    /\ At("done")
    /\ ~configured[card] /\ i < Tries
    /\ Takes
    /\ i' = i + 1
    /\ UNCHANGED <<server, proc, step, card, mode, failed, ph, left, right, rows, fixed, fifo, dcm>>

(* It returns 0 in any case, and so the caller logs success.               *)
\* slip: nothing but DONE ends the filling
EndProgOnlyDone ==
    /\ At("done")
    /\ configured[card]
    /\ Return
    /\ UNCHANGED <<scanvars, fixed, cardvars>>

EndProg ==
    /\ At("done")
    /\ configured[card] \/ i = Tries
    /\ Return
    /\ UNCHANGED <<scanvars, fixed, cardvars>>

-----------------------------------------------------------------------------
(* The commands of run() that are about a card (which one: LogicboxProxy). *)
Idle == server = "serving" /\ proc = "none"

Command(c) ==
    /\ Idle
    /\ \E p \in {"test1", "test2", "phase", "prog"} : Enter(p, c)
    /\ UNCHANGED <<server, scanvars, fixed, cardvars>>

ResetCard(c) ==
    /\ Idle
    /\ fifo' = [fifo EXCEPT ![c] = <<>>]
    /\ UNCHANGED <<server, proc, step, card, mode, failed, scanvars, fixed, configured, config, dcm>>

Dump(c) ==
    /\ Idle
    /\ fifo' = [fifo EXCEPT ![c] = After(@, Len(@))]
    /\ UNCHANGED <<server, proc, step, card, mode, failed, scanvars, fixed, configured, config, dcm>>

(* The detector sends a dword; in a loopback it is not connected.          *)
Arrive(c) ==
    /\ config[c] = "normal" /\ Met(c) # "dark"
    /\ Len(fifo[c]) < 2 * FifoBound
    /\ fifo' = [fifo EXCEPT ![c] = @ \o <<{}, {}>>]
    /\ UNCHANGED <<server, proc, step, card, mode, failed, scanvars, fixed, configured, config, dcm>>

(* A new process finds the cards as the last one left them, and runs its   *)
(* constructor on them; sfpprog.bin may be there now, or no longer.        *)
Restart ==
    /\ server = "dead"
    /\ server' = "startup"
    /\ Enter("test1", 0)
    /\ file' \in BOOLEAN
    /\ UNCHANGED <<scanvars, hw, cardvars>>

Scan == ScanReset \/ ScanDown \/ ScanLeft \/ ScanUp \/ ScanRight \/ ScanFile \/ ScanNoFile
Program == NoFile \/ StartProg \/ PollInit \/ WriteBytes \/ PollDone \/ EndProg
Procedure == TestConfig \/ TestClear \/ Burst \/ TestRestore \/ Scan \/ Program

Next ==
    \/ Procedure
    \/ \E c \in Card : Command(c) \/ ResetCard(c) \/ Dump(c) \/ Arrive(c)
    \/ Restart

Spec == Init /\ [][Next]_vars

(* The thread runs.  No client owes a command, the detector no data and    *)
(* nobody a restart.                                                       *)
FairSpec == Spec /\ WF_vars(Procedure)

-----------------------------------------------------------------------------
Step == {"config", "clear", "burst", "restore", "reset", "down", "up",
         "open", "init", "bytes", "done", "none"}

TypeOK ==
    /\ server \in {"startup", "serving", "dead"}
    /\ proc \in {"test1", "test2", "phase", "prog", "none"}
    /\ step \in Step
    /\ card \in Card
    /\ mode \in 0..4
    /\ failed \in BOOLEAN
    /\ i \in Int /\ ph \in Int /\ left \in Int /\ right \in Int
    /\ rows \subseteq Int
    /\ hw \in [Card -> CardType]
    /\ file \in BOOLEAN
    /\ configured \in [Card -> BOOLEAN]
    /\ config \in [Card -> {"loop1", "loop2", "normal", "none"}]
    /\ fifo \in [Card -> Seq(Word)]
    /\ dcm \in [Card -> Int]

(* The test of a loop that works counts no errors, whatever was in the     *)
(* FIFO before and whatever the detector sends, and leaves no word of its  *)
(* own for the next dump; a dark fibre, or in test1 a fault of the TLK,    *)
(* does not disturb it (opticalTest, RX_phase).                            *)
SoundCardPasses ==
    At("restore") /\ LoopWorks(card) => ~failed /\ fifo[card] = <<>>

(* A test without error means that the loop it closes works: no stuck or   *)
(* bridged bit, lost word or break within the loop, missing configuration  *)
(* or bad phase is overlooked (gen_first, gen_tp, test_opt_io_burst).  It  *)
(* says nothing of what is behind the loop, the fibre.                     *)
FaultFound == At("restore") /\ ~failed => LoopWorks(card)

(* err[ph + 255] is one of the 512 elements (test_rxtx_ph).                *)
ScanInArray == \A phase \in rows : phase + MaxDelay \in 0..2 * MaxDelay + 1

(* When the scan is over every element of err that is written to the file  *)
(* has been stored in this scan; the array is not initialised.             *)
RowsMeasured ==
    At("up") /\ i > maxp => \A phase \in left..right : phase \in rows

(* The phases are counted from the middle of the DCM: set_dcm returns      *)
(* where it got to and test_rxtx_ph counts on from there, so a row of the  *)
(* file is for the phase it names; all but the last where the end of the   *)
(* DCM is met, for the refused step is counted.                            *)
PhaseIsPosition ==
    At("up") => dcm[card] = IF ph > hw[card].right THEN ph - 1 ELSE ph

(* Between the commands, and when the socket is bound, every card that has *)
(* a configuration is in normal operation, not in a loopback, though a     *)
(* process that died in a scan may have left it in one.                    *)
NormalWhenIdle ==
    Idle => \A c \in Card : config[c] = IF configured[c] THEN "normal" ELSE "none"

(* Every procedure ends, and with them the start-up, whatever the cards    *)
(* do: every wait for the hardware is given up.                            *)
ProcedureEnds == proc # "none" ~> (Idle \/ server = "dead")
=============================================================================
