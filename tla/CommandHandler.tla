--------------------------- MODULE CommandHandler ---------------------------
(***************************************************************************)
(* The commands of the DIM server that work on the SFP cards and on the    *)
(* runs (command.cc, start_run and the constructor of data_acquisition.cc):*)
(* the thread of commandHandler with its procedures, a reader thread that  *)
(* may empty the same FIFOs meanwhile, and the end of the process, which   *)
(* leaves the cards and run_no.txt as they are.  The trigger and the races *)
(* on out_file are in LegacyServer, the test patterns in SfpCard.          *)
(*                                                                         *)
(* Outside src/: the cards, the detector, the file system, whoever starts  *)
(* the server again, and whoever calls read_event: no thread is created    *)
(* for it in src/.                                                         *)
(***************************************************************************)
EXTENDS Integers, Sequences, SequencesExt

CONSTANTS
    Cabled,       \* the cards with a cable from their output to their input
    Burst,        \* dwords of a burst: 15 * 1024
    LastMode,     \* the last test pattern: 3
    FifoBound,    \* bound on the dwords of the detector in a FIFO
    MaxCommands,  \* bound on the commands
    MaxDeaths     \* bound on how often the process ends

ASSUME ConstantsAssumption ==
    /\ {Burst, LastMode, FifoBound, MaxCommands, MaxDeaths} \subseteq Nat
    /\ Burst > 0
    /\ Cabled \subseteq 0..1

Card == 0..1
Config == {"normal", "loop1", "loop2", "loop3", "none"}   \* "none": an FPGA without one
norun == -99

(* What a command still has to do: opticalTest(loop, card), programSFP(card) *)
(* and RX_phase(card); arm marks the test of "sfp arm".                    *)
Job == [proc : {"test"}, card : Card, loop : 1..3, arm : BOOLEAN]
           \cup [proc : {"prog", "phase"}, card : Card]

VARIABLES
    alive,        \* the process runs
    todo,         \* the jobs of the command, the first one under way
    step,         \* where in it, or in start_run; "idle" between commands
    mode,         \* the pattern of the next burst
    failed,       \* err > 0
    reading,      \* the reader thread is in the loop of read_event
    run, lastrun,
    out_file,     \* "open" or "null"
    run_no,       \* the number in run_no.txt, norun without one
    config, fifo, \* per card
    sound,        \* per card: what is looped back comes back
    commands, deaths,
    stolen,       \* history: the reader took words of the test under way
    aborted,      \* history, per card: the process ended in a procedure for it
    taken,        \* history: the numbers of the runs started
    hole,         \* history: a number may not have reached run_no.txt
    reused        \* history: a run was given a number taken before

thread  == <<todo, step, mode, failed>>
runs    == <<run, lastrun, out_file, run_no>>
cards   == <<config, fifo, sound>>
bounds  == <<commands, deaths>>
numbers == <<taken, hole, reused>>
history == <<stolen, aborted, numbers>>
vars == <<alive, thread, reading, runs, cards, bounds, history>>

(* data_acquisition::data_acquisition: the last run number is read back,   *)
(* and stays norun where the file is missing or empty.                     *)
LastRun == run_no

Init ==
    /\ alive = TRUE
    /\ todo = <<>> /\ step = "idle" /\ mode = 0 /\ failed = FALSE
    /\ reading = FALSE
    /\ run_no \in {norun, 7}
    /\ run = norun /\ lastrun = LastRun /\ out_file = "null"
    /\ config = [c \in Card |-> "normal"] /\ fifo = [c \in Card |-> <<>>]
    /\ sound \in [Card -> BOOLEAN]
    /\ commands = 0 /\ deaths = 0
    /\ stolen = FALSE /\ aborted = [c \in Card |-> FALSE]
    /\ taken = {} /\ hole = FALSE /\ reused = FALSE

-----------------------------------------------------------------------------
(* commandHandler.                                                         *)

(* The first step of the first job, or waiting for the next command.       *)
FirstStep(jobs) ==
    IF jobs = <<>> THEN "idle"
    ELSE IF Head(jobs).proc = "prog" THEN "open" ELSE "config"

Begin(jobs) ==
    /\ todo' = jobs
    /\ step' = FirstStep(jobs)
    /\ mode' = 0 /\ failed' = FALSE /\ stolen' = FALSE

At(s) == alive /\ step = s

Receive ==
    /\ At("idle") /\ commands < MaxCommands
    /\ commands' = commands + 1
    /\ UNCHANGED <<alive, deaths>>

Tests(c, loops, arm) ==
    [k \in DOMAIN loops |-> [proc |-> "test", card |-> c, loop |-> loops[k], arm |-> arm]]
Renewal(c) == <<[proc |-> "prog", card |-> c], [proc |-> "phase", card |-> c]>>

(* "OPTtest card i": test i or, for 4, all three, of a card or, for 2, of  *)
(* both.                                                                   *)
OptTest ==
    /\ Receive
    /\ \E loops \in {<<1>>, <<2>>, <<3>>, <<1, 2, 3>>} :
        \/ \E c \in Card : Begin(Tests(c, loops, FALSE))
        \/ Begin(Tests(0, loops, FALSE) \o Tests(1, loops, FALSE))
    /\ UNCHANGED <<reading, runs, cards, aborted, numbers>>

(* "sfp arm": the test with FPGA loopback of each card.                    *)
SfpArm ==
    /\ Receive
    /\ Begin(Tests(0, <<1>>, TRUE) \o Tests(1, <<1>>, TRUE))
    /\ UNCHANGED <<reading, runs, cards, aborted, numbers>>

SfpProg ==
    /\ Receive
    /\ Begin(Renewal(0) \o Renewal(1))
    /\ UNCHANGED <<reading, runs, cards, aborted, numbers>>

(* "sfp reset".                                                            *)
SfpReset ==
    /\ Receive
    /\ fifo' = [c \in Card |-> <<>>]
    /\ UNCHANGED <<thread, reading, runs, config, sound, history>>

(* Commands with four words or more, and what is not known.                *)
Ignored ==
    /\ Receive
    /\ UNCHANGED <<thread, reading, runs, cards, history>>

-----------------------------------------------------------------------------
(* opticalTest and RX_phase.                                               *)
job == Head(todo)
card == job.card

(* spi_rw_lb: an FPGA without a configuration does not listen.             *)
Told(conf) == [config EXCEPT ![card] = IF @ = "none" THEN @ ELSE conf]

Configure ==
    /\ At("config")
    /\ config' = Told(IF job.proc = "phase" THEN "loop1"
                      ELSE <<"loop1", "loop2", "loop3">>[job.loop])
    /\ step' = "clear"
    /\ UNCHANGED <<alive, todo, mode, failed, reading, runs, fifo, sound, bounds, history>>

ClearNothing ==   \* slip: the receiver is not cleared
    /\ At("clear")
    /\ step' = "write"
    /\ UNCHANGED <<alive, todo, mode, failed, reading, runs, cards, bounds, history>>

(* test_rxtx_ph, which RX_phase calls next, clears the receiver as well.   *)
Clear ==
    /\ At("clear")
    /\ fifo' = [fifo EXCEPT ![card] = <<>>]
    /\ step' = "write"
    /\ UNCHANGED <<alive, todo, mode, failed, reading, runs, config, sound, bounds,
                   history>>

(* What of a burst comes back: the loops within the FPGA and the TLK are   *)
(* closed, the external one with a cable, and an unsound card loses words. *)
Closed == config[card] \in {"loop1", "loop2"} \/ (config[card] = "loop3" /\ card \in Cabled)
Returned == IF ~Closed THEN {0} ELSE IF sound[card] THEN {Burst} ELSE 0..Burst

WriteBurst ==
    /\ At("write")
    /\ \E n \in Returned :
        fifo' = [fifo EXCEPT ![card] = @ \o [k \in 1..n |-> "test"]]
    /\ step' = "read"
    /\ UNCHANGED <<alive, todo, mode, failed, reading, runs, config, sound, bounds,
                   history>>

ReadUntilError ==   \* slip: what follows a wrong dword stays in the FIFO
    /\ At("read")
    /\ \E wrong \in IF sound[card] /\ fifo[card] = [k \in 1..Burst |-> "test"]
                   THEN {FALSE} ELSE BOOLEAN :
        /\ failed' = (failed \/ wrong)
        /\ fifo' = [fifo EXCEPT ![card] = SubSeq(@, (IF wrong THEN 1 ELSE Burst) + 1, Len(@))]
    /\ mode' = mode + 1
    /\ step' = IF mode < LastMode THEN "write" ELSE "restore"
    /\ UNCHANGED <<alive, todo, reading, runs, config, sound, bounds, history>>

(* As many dwords are read back as were written.  Where the FIFO has fewer *)
(* the rest is anything, and what comes back of an unsound card may differ *)
(* from what was written.                                                  *)
ReadBurst ==
    /\ At("read")
    /\ failed' \in IF sound[card] /\ fifo[card] = [k \in 1..Burst |-> "test"]
                   THEN {failed} ELSE {failed, TRUE}
    /\ fifo' = [fifo EXCEPT ![card] = SubSeq(@, Burst + 1, Len(@))]
    /\ mode' = mode + 1
    /\ step' = IF mode < LastMode THEN "write" ELSE "restore"
    /\ UNCHANGED <<alive, todo, reading, runs, config, sound, bounds, history>>

(* The normal configuration; after a failed test of "sfp arm" the card is  *)
(* programmed and its phase scanned.                                       *)
AfterTest == IF job.proc = "test" /\ job.arm /\ failed THEN Renewal(card) \o Tail(todo)
             ELSE Tail(todo)

RestoreFirst ==   \* slip: an early return before the configuration is restored
    /\ At("restore")
    /\ IF failed THEN UNCHANGED <<config, aborted>>
       ELSE /\ config' = Told("normal")
            /\ aborted' = [aborted EXCEPT ![card] = FALSE]
    /\ Begin(AfterTest)
    /\ UNCHANGED <<alive, reading, runs, fifo, sound, bounds, numbers>>

Restore ==
    /\ At("restore")
    /\ config' = Told("normal")
    /\ aborted' = [aborted EXCEPT ![card] = FALSE]
    /\ Begin(AfterTest)
    /\ UNCHANGED <<alive, reading, runs, fifo, sound, bounds, numbers>>

-----------------------------------------------------------------------------
(* The process ends: cards and files stay as they are.                     *)
InProcedure(c) == step \in {"clear", "write", "read", "restore"} /\ c = card
InStartRun == step \in {"fopen", "truncate", "flush"}

End ==
    /\ alive /\ deaths < MaxDeaths
    /\ deaths' = deaths + 1
    /\ alive' = FALSE
    /\ aborted' = [c \in Card |-> aborted[c] \/ InProcedure(c)]
    /\ hole' = (hole \/ InStartRun)
    /\ Begin(<<>>)
    /\ reading' = FALSE
    /\ run' = norun /\ out_file' = "null"
    /\ UNCHANGED <<lastrun, run_no, cards, taken, reused>>

Die == End /\ UNCHANGED commands

Restart ==
    /\ ~alive
    /\ alive' = TRUE
    /\ lastrun' = LastRun
    /\ UNCHANGED <<thread, reading, run, out_file, run_no, cards, bounds, history>>

-----------------------------------------------------------------------------
(* programSFP: without the file fseek gets a null pointer.                 *)
ProgramNoFile ==
    /\ At("open")
    /\ End
    /\ UNCHANGED commands

(* The FPGA loses its configuration and starts anew with the normal one,   *)
(* or not at all; the FIFO of the box keeps what it holds.                 *)
Program ==
    /\ At("open")
    /\ \E conf \in {"normal", "none"} : config' = [config EXCEPT ![card] = conf]
    /\ \E works \in BOOLEAN : sound' = [sound EXCEPT ![card] = works]
    /\ Begin(Tail(todo))
    /\ UNCHANGED <<alive, reading, runs, fifo, bounds, aborted, numbers>>

(* test_rxtx_ph, before the bursts of RX_phase: fprintf gets a null pointer*)
(* where phase_rx_lb.dat cannot be opened.                                 *)
ScanNoFile ==
    /\ At("write") /\ job.proc = "phase" /\ mode = 0
    /\ End
    /\ UNCHANGED commands

-----------------------------------------------------------------------------
(* start_run and stop_run.                                                 *)
RunStartKeepsLast ==   \* slip: lastrun is only read, by the constructor
    /\ Receive
    /\ run' = lastrun + 1
    /\ taken' = taken \cup {run'} /\ reused' = (reused \/ run' \in taken)
    /\ step' = "fopen"
    /\ UNCHANGED <<todo, mode, failed, reading, lastrun, out_file, run_no, cards, stolen,
                   aborted, hole>>

RunStart ==
    /\ Receive
    /\ run' = lastrun + 1 /\ lastrun' = run'
    /\ taken' = taken \cup {run'} /\ reused' = (reused \/ run' \in taken)
    /\ step' = "fopen"
    /\ UNCHANGED <<todo, mode, failed, reading, out_file, run_no, cards, stolen, aborted,
                   hole>>

OpenFile ==
    /\ At("fopen")
    /\ out_file' \in {"open", "null"}
    /\ step' = "truncate"
    /\ UNCHANGED <<alive, todo, mode, failed, reading, run, lastrun, run_no, cards, bounds,
                   history>>

(* run_no.txt is opened, which empties it, or cannot be.                   *)
Truncate ==
    /\ At("truncate")
    /\ \/ run_no' = norun /\ step' = "flush" /\ UNCHANGED hole
       \/ hole' = TRUE /\ step' = "idle" /\ UNCHANGED run_no
    /\ UNCHANGED <<alive, todo, mode, failed, reading, run, lastrun, out_file, cards, bounds,
                   stolen, aborted, taken, reused>>

(* The number gets there when run_file goes out of scope.                  *)
Flush ==
    /\ At("flush")
    /\ run_no' = run
    /\ step' = "idle"
    /\ UNCHANGED <<alive, todo, mode, failed, reading, run, lastrun, out_file, cards, bounds,
                   history>>

RunStop ==
    /\ Receive
    /\ out_file = "open"
    /\ run' = norun /\ out_file' = "null"
    /\ UNCHANGED <<thread, reading, lastrun, run_no, cards, history>>

(* fclose(NULL).                                                           *)
RunStopTwice ==
    /\ At("idle") /\ commands < MaxCommands
    /\ commands' = commands + 1
    /\ out_file = "null"
    /\ End

Command ==
    OptTest \/ SfpArm \/ SfpProg \/ SfpReset \/ Ignored \/ RunStart \/ RunStop \/ RunStopTwice

Procedure ==
    \/ Configure \/ Clear \/ WriteBurst \/ ReadBurst \/ Restore
    \/ Program \/ ProgramNoFile \/ ScanNoFile
    \/ OpenFile \/ Truncate \/ Flush

-----------------------------------------------------------------------------
(* A reader thread, reduced to when it reads and what it takes out.        *)
Enter ==
    /\ alive /\ ~reading
    /\ run # norun /\ out_file = "open"
    /\ reading' = TRUE
    /\ UNCHANGED <<alive, thread, runs, cards, bounds, history>>

Dump(c) ==
    /\ reading
    /\ \E n \in DOMAIN fifo[c] : fifo' = [fifo EXCEPT ![c] = SubSeq(@, n + 1, Len(@))]
    /\ stolen' = (stolen \/ (step = "read" /\ c = card))
    /\ UNCHANGED <<alive, thread, reading, runs, config, sound, bounds, aborted, numbers>>

Leave ==
    /\ reading
    /\ reading' = FALSE
    /\ UNCHANGED <<alive, thread, runs, cards, bounds, history>>

(* The detector.                                                           *)
Arrive(c) ==
    /\ config[c] \in {"normal", "loop3"} /\ c \notin Cabled
    /\ Len(fifo[c]) < FifoBound
    /\ fifo' = [fifo EXCEPT ![c] = Append(@, "event")]
    /\ UNCHANGED <<alive, thread, reading, runs, config, sound, bounds, history>>

Next ==
    \/ Command \/ Procedure \/ Enter \/ Leave \/ Die \/ Restart
    \/ \E c \in Card : Dump(c) \/ Arrive(c)

Spec == Init /\ [][Next]_vars

-----------------------------------------------------------------------------
(* Properties.                                                             *)

TypeOK ==
    /\ {alive, failed, reading, stolen, hole, reused} \subseteq BOOLEAN
    /\ todo \in Seq(Job)
    /\ step \in {"idle", "config", "clear", "write", "read", "restore", "open", "fopen",
                 "truncate", "flush"}
    /\ step \in {"config", "clear", "write", "read", "restore", "open"} <=> todo # <<>>
    /\ mode \in 0..LastMode + 1
    /\ {run, lastrun, run_no} \subseteq Int /\ out_file \in {"open", "null"}
    /\ config \in [Card -> Config] /\ fifo \in [Card -> Seq({"test", "event"})]
    /\ sound \in [Card -> BOOLEAN]
    /\ commands \in 0..MaxCommands /\ deaths \in 0..MaxDeaths
    /\ aborted \in [Card -> BOOLEAN]
    /\ taken \subseteq Int

UnderWay(c) == todo # <<>> /\ card = c

\* A card is in a loopback, deaf to the detector, only while a procedure for it
\* is under way or after the process ended in one: no failed test, no job of
\* another card and no restart without a procedure leaves it there.
NormalWhenIdle ==
    \A c \in Card : config[c] \in {"normal", "none"} \/ UnderWay(c) \/ aborted[c]

\* Test words are in a FIFO only then, too, so that a run started after a test
\* does not find any, whatever the reader took out meanwhile and whatever the
\* card lost.
NoTestWordsLeft ==
    \A c \in Card : Contains(fifo[c], "test") => UnderWay(c) \/ aborted[c]

\* A card that returns what is written to it fails a test, and is reprogrammed
\* by "sfp arm", only if the reader thread emptied its FIFO during a burst.
SoundCardPasses ==
    step = "restore" /\ failed /\ sound[card] /\ Closed => stolen

\* No two runs get the same number, so that no file of data is continued by a
\* later run, over restarts as well; unless the process ended within start_run
\* or run_no.txt could not be opened.
NumbersFresh == reused => hole
=============================================================================
