---------------------------- MODULE LegacyServer ----------------------------
(***************************************************************************)
(* The DIM server that the ZeroMQ daemons replaced: trigger.cc,            *)
(* data_acquisition.cc and command.cc.  Two threads share its objects      *)
(* without a lock (the calls of pthread_mutex_lock are commented out): the *)
(* DIM thread that runs commandHandler, which never reads, and one that    *)
(* calls read_event.  A step is one access to what they share; both        *)
(* threads may be inside trigger::send_trigger at once.  Stores are seen   *)
(* in the order of the program.                                            *)
(*                                                                         *)
(* Outside src/: the caller of read_event, for the pthread_create of       *)
(* reader_thread_function is commented out (data_acquisition.cc:56-62) and *)
(* nothing else in src/ calls either, so it may call whenever it likes or  *)
(* never; the pretrigger logic, the links and the C library's files as     *)
(* src/ uses them.                                                         *)
(***************************************************************************)
EXTENDS Integers, Sequences, SequencesExt

CONSTANTS
    NData,       \* data dwords that a trigger yields on each link
    BufSize,     \* buf_size of read_event, in dwords
    MaxBurst,    \* the largest burst that is asked for
    MaxCommands, \* bound on the commands
    MaxTriggers  \* bound on the triggers the detector answers

ASSUME ConstantsAssumption ==
    /\ NData \in Nat
    /\ BufSize \in Nat \ {0}
    /\ MaxBurst \in Nat \ {0}
    /\ MaxCommands \in Nat
    /\ MaxTriggers \in Nat

SFP == 0..1
Thread == {"command", "reader"}

(* A dword is the end-of-data marker 0x00000000 or anything else.          *)
Dword == {"data", "end"}
Event == [k \in 1..NData + 1 |-> IF k <= NData THEN "data" ELSE "end"]

VARIABLES
    busy, burstcnt, src,  \* trigger
    run, out_file,        \* data_acquisition: a run is on; "null", "open" or
                          \* "freed": after fclose the pointer still dangles
    cpc,                  \* where commandHandler is
    rpc,                  \* where read_event is
    sfp, count,           \* its loop variable, and cnt_rx_fifo in mem_dump
    buf,                  \* per SFP: what it has read (curr is the length)
    expired,              \* more than 30 s since start
    place, old,           \* per thread: where in send_trigger, and the
                          \* counter it is about to decrement
    dead,                 \* the process has crashed in the C library
    open, lut,            \* pretriggers are let through; LUT is not 0
    due, fifo,            \* per SFP: dwords to come, and arrived
    commands, triggers,   \* how many so far
    asked,                \* history: what a command last set the counter to
    raced,                \* history: since then one thread has written it
                          \* while the other was about to decrement it
    reset, late           \* history: FIFOs were cleared, a reading timed out

trigger  == <<busy, burstcnt, src>>
daq      == <<run, out_file>>
reading  == <<sfp, count, buf, expired>>
sending  == <<place, old>>
hardware == <<open, lut, due, fifo, triggers>>
counter  == <<asked, raced>>
history  == <<counter, reset, late>>
vars == <<trigger, daq, cpc, rpc, reading, sending, dead, hardware, commands, history>>

(* The constructor does not set busy (trigger.cc:10-12).  Nobody is inside *)
(* read_event.                                                             *)
Init ==
    /\ busy \in BOOLEAN /\ burstcnt = 0 /\ src = "off"
    /\ run = FALSE /\ out_file = "null"
    /\ cpc = "idle" /\ rpc = "enter"
    /\ sfp = 0 /\ count = 0 /\ buf = [s \in SFP |-> <<>>] /\ expired = FALSE
    /\ place = [t \in Thread |-> "out"] /\ old = [t \in Thread |-> 0]
    /\ dead = FALSE
    /\ open = FALSE /\ lut = FALSE /\ triggers = 0
    /\ due = [s \in SFP |-> <<>>] /\ fifo = [s \in SFP |-> <<>>]
    /\ commands = 0
    /\ asked = 0 /\ raced = FALSE /\ reset = FALSE /\ late = FALSE

-----------------------------------------------------------------------------
(* The hardware.                                                           *)

(* A trigger reaches the front-end electronics, which will send an event.  *)
Triggered ==
    IF triggers < MaxTriggers
    THEN /\ triggers' = triggers + 1
         /\ due' = [s \in SFP |-> due[s] \o Event]
    ELSE UNCHANGED <<triggers, due>>

(* A pretrigger of the input logic; it blocks the next one (autoblock).    *)
Pretrigger ==
    /\ open /\ lut
    /\ open' = FALSE
    /\ triggers < MaxTriggers /\ Triggered
    /\ UNCHANGED <<trigger, daq, cpc, rpc, reading, sending, dead, lut, fifo,
                   commands, history>>

Arrive(s) ==
    /\ due[s] # <<>>
    /\ fifo' = [fifo EXCEPT ![s] = Append(@, Head(due[s]))]
    /\ due' = [due EXCEPT ![s] = Tail(@)]
    /\ UNCHANGED <<trigger, daq, cpc, rpc, reading, sending, dead, open, lut, triggers,
                   commands, history>>

Expire ==
    /\ rpc \in {"count", "burst", "decide"} /\ ~expired
    /\ expired' = TRUE
    /\ UNCHANGED <<trigger, daq, cpc, rpc, sfp, count, buf, sending, dead, hardware,
                   commands, history>>

-----------------------------------------------------------------------------
(* trigger::send_trigger, in thread t.                                     *)

GoTo(t, p) == place' = [place EXCEPT ![t] = p]

(* The counter has been found positive and not been decremented yet.       *)
Decrementing(t) == place[t] \in {"load", "store"}
Other(t) == CHOOSE u \in Thread : u # t

CheckBusy(t) ==
    /\ place[t] = "busy?"
    /\ GoTo(t, IF busy THEN "out" ELSE "valid?")
    /\ UNCHANGED <<trigger, old, raced, open, triggers, due>>

CheckCountFromZero(t) ==   \* slip: a burst with nothing to go is one
    /\ \/ place[t] = "valid?" /\ GoTo(t, IF burstcnt < -1 THEN "out" ELSE "zero?")
       \/ place[t] = "zero?" /\ GoTo(t, IF burstcnt = 0 THEN "out" ELSE "burst?")
       \/ place[t] = "burst?" /\ GoTo(t, IF burstcnt >= 0 THEN "load" ELSE "set")
    /\ UNCHANGED <<trigger, old, raced, open, triggers, due>>

(* burstcnt is read for each test: an invalid count, no more triggers to   *)
(* be sent, a burst; what is left is -1, for ever.                         *)
CheckCount(t) ==
    /\ \/ place[t] = "valid?" /\ GoTo(t, IF burstcnt < -1 THEN "out" ELSE "zero?")
       \/ place[t] = "zero?" /\ GoTo(t, IF burstcnt = 0 THEN "out" ELSE "burst?")
       \/ place[t] = "burst?" /\ GoTo(t, IF burstcnt > 0 THEN "load" ELSE "set")
    /\ UNCHANGED <<trigger, old, raced, open, triggers, due>>

(* burstcnt-- is a load and a store.                                       *)
LoadCount(t) ==
    /\ place[t] = "load"
    /\ old' = [old EXCEPT ![t] = burstcnt]
    /\ GoTo(t, "store")
    /\ UNCHANGED <<trigger, raced, open, triggers, due>>

StoreCount(t) ==
    /\ place[t] = "store"
    /\ burstcnt' = old[t] - 1
    /\ raced' = (raced \/ Decrementing(Other(t)))
    /\ GoTo(t, "set")
    /\ UNCHANGED <<busy, src, old, open, triggers, due>>

SetBusy(t) ==
    /\ place[t] = "set"
    /\ busy' = TRUE
    /\ GoTo(t, "unblock")
    /\ UNCHANGED <<burstcnt, src, old, raced, open, triggers, due>>

PreUnblock(t) ==
    /\ place[t] = "unblock"
    /\ open' = TRUE
    /\ GoTo(t, "source?")
    /\ UNCHANGED <<trigger, old, raced, triggers, due>>

ByHand(t) ==
    /\ place[t] = "source?"
    /\ GoTo(t, "out")
    /\ IF src = "soft" THEN Triggered ELSE UNCHANGED <<triggers, due>>
    /\ UNCHANGED <<trigger, old, raced, open>>

send_trigger(t) ==
    /\ \/ CheckBusy(t) \/ CheckCount(t) \/ LoadCount(t) \/ StoreCount(t)
       \/ SetBusy(t) \/ PreUnblock(t) \/ ByHand(t)
    /\ UNCHANGED <<daq, cpc, rpc, reading, dead, lut, fifo, commands, asked, reset,
                   late>>

(* trigger::clear_busy, which ends with a call of send_trigger.            *)
clear_busy(t) ==
    /\ busy' = FALSE
    /\ GoTo(t, "busy?")
    /\ UNCHANGED <<burstcnt, src, old>>

-----------------------------------------------------------------------------
(* The command thread: commandHandler.                                     *)

Receive ==
    /\ cpc = "idle" /\ commands < MaxCommands
    /\ commands' = commands + 1
    /\ UNCHANGED <<rpc, reading, old, dead, late>>

(* set_burst_counter(n).                                                   *)
SetCounter(n) ==
    /\ burstcnt' = n /\ asked' = n
    /\ raced' = Decrementing("reader")

(* "trg single", "trg on" and "trg burst n": the counter is set, and the   *)
(* first trigger sent if is_busy() says no.                                *)
TrgCount ==
    /\ Receive
    /\ \E n \in -2..MaxBurst \ {0} : SetCounter(n)
    /\ cpc' = "isbusy"
    /\ UNCHANGED <<busy, src, daq, place, hardware, reset>>

TestBusy ==
    /\ cpc = "isbusy"
    /\ cpc' = "sent"
    /\ IF busy THEN UNCHANGED place ELSE GoTo("command", "busy?")
    /\ UNCHANGED <<trigger, daq, rpc, reading, old, dead, hardware, commands, history>>

(* send_trigger has returned.                                              *)
CommandEnds ==
    /\ cpc = "sent" /\ place["command"] = "out"
    /\ cpc' = "idle"
    /\ UNCHANGED <<trigger, daq, rpc, reading, sending, dead, hardware, commands, history>>

TrgOff ==
    /\ Receive
    /\ SetCounter(0)
    /\ cpc' = "off"
    /\ UNCHANGED <<busy, src, daq, place, hardware, reset>>

SourceOff ==
    /\ cpc = "off"
    /\ src' = "off" /\ lut' = FALSE
    /\ cpc' = "idle"
    /\ UNCHANGED <<busy, burstcnt, daq, rpc, reading, sending, dead, open, due, fifo,
                   triggers, commands, history>>

(* "trg lut n": 8 is trgsoft, for which the LUT stays as it is; "ext" is   *)
(* any of 1 to 7.                                                          *)
TrgLut ==
    /\ Receive
    /\ src' \in {"off", "ext", "soft"}
    /\ lut' = IF src' = "soft" THEN lut ELSE src' = "ext"
    /\ UNCHANGED <<busy, burstcnt, daq, cpc, place, open, due, fifo, triggers, counter,
                   reset>>

TrgUnblock ==
    /\ Receive
    /\ open' = TRUE
    /\ UNCHANGED <<trigger, daq, cpc, place, lut, due, fifo, triggers, counter,
                   reset>>

TrgSend ==
    /\ Receive
    /\ Triggered
    /\ UNCHANGED <<trigger, daq, cpc, place, open, lut, fifo, counter, reset>>

(* "trg conf" writes the whole pretrigger configuration, the LUT included;  *)
(* it is not used here to switch autoblock off.                            *)
TrgConf ==
    /\ Receive
    /\ lut' \in BOOLEAN
    /\ UNCHANGED <<trigger, daq, cpc, place, open, due, fifo, triggers, counter, reset>>

(* "trg show", "read", "clr", the "dscr" commands, and what is not known.  *)
TrgPlain ==
    /\ Receive
    /\ UNCHANGED <<trigger, daq, cpc, place, hardware, counter, reset>>

(* "sfp reset": the receiver of card 0, then that of card 1.               *)
SfpReset ==
    /\ Receive
    /\ fifo' = [fifo EXCEPT ![0] = <<>>]
    /\ reset' = TRUE
    /\ cpc' = "card1"
    /\ UNCHANGED <<trigger, daq, place, open, lut, due, triggers, counter>>

SfpReset1 ==
    /\ cpc = "card1"
    /\ fifo' = [fifo EXCEPT ![1] = <<>>]
    /\ cpc' = "idle"
    /\ UNCHANGED <<trigger, daq, rpc, reading, sending, dead, open, lut, due,
                   triggers, commands, history>>

(* "run start": set_burst_counter(0), clear_busy, start_run.               *)
RunStart ==
    /\ Receive
    /\ SetCounter(0)
    /\ cpc' = "clear"
    /\ UNCHANGED <<busy, src, daq, place, hardware, reset>>

RunClear ==
    /\ cpc = "clear"
    /\ clear_busy("command")
    /\ cpc' = "start"
    /\ UNCHANGED <<daq, rpc, reading, dead, hardware, commands, history>>

StartRun ==
    /\ cpc = "start" /\ place["command"] = "out"
    /\ run' = TRUE
    /\ cpc' = "fopen"
    /\ UNCHANGED <<trigger, out_file, rpc, reading, sending, dead, hardware, commands,
                   history>>

(* fopen may fail; a file that was open stays so, nothing points to it.    *)
OpenFile ==
    /\ cpc = "fopen"
    /\ out_file' \in {"open", "null"}
    /\ cpc' = "idle"
    /\ UNCHANGED <<trigger, run, rpc, reading, sending, dead, hardware, commands, history>>

RunStop ==
    /\ Receive
    /\ run' = FALSE
    /\ cpc' = "fclose"
    /\ UNCHANGED <<trigger, out_file, place, hardware, counter, reset>>

(* fclose(NULL), if no run was started, is the end of the process.         *)
CloseFile ==
    /\ cpc = "fclose"
    /\ dead' = (out_file = "null")
    /\ out_file' = IF out_file = "null" THEN "null" ELSE "freed"
    /\ cpc' = "forget"
    /\ UNCHANGED <<trigger, run, rpc, reading, sending, hardware, commands, history>>

ForgetFile ==
    /\ cpc = "forget"
    /\ out_file' = "null"
    /\ cpc' = "idle"
    /\ UNCHANGED <<trigger, run, rpc, reading, sending, dead, hardware, commands, history>>

CommandThread ==
    /\ ~dead
    /\ \/ TrgCount \/ TestBusy \/ CommandEnds \/ TrgOff \/ SourceOff \/ TrgLut
       \/ TrgUnblock \/ TrgSend \/ TrgConf \/ TrgPlain \/ SfpReset \/ SfpReset1
       \/ RunStart \/ RunClear \/ StartRun \/ OpenFile \/ RunStop \/ CloseFile \/ ForgetFile
       \/ send_trigger("command")

-----------------------------------------------------------------------------
(* The reader: calls of read_event, one after the other.                   *)

(* A call; without a run and a file it returns at once, which is no step.  *)
Enter ==
    /\ rpc = "enter"
    /\ run /\ out_file # "null"
    /\ buf' = [s \in SFP |-> <<>>] /\ sfp' = 0 /\ expired' = FALSE
    /\ rpc' = "count"
    /\ UNCHANGED <<trigger, daq, cpc, count, sending, dead, hardware, commands, history>>

CountWithoutLimit ==   \* slip: maxlen is not what is left of the buffer
    /\ rpc = "count"
    /\ count' = Min({Len(fifo[sfp]), BufSize})
    /\ rpc' = "burst"
    /\ UNCHANGED <<trigger, daq, cpc, sfp, buf, expired, sending, dead, hardware, commands,
                   history>>

(* mem_dump asks the card how much there is and takes what fits (maxlen);  *)
(* a FIFO that is cleared in between yields dwords that mean nothing.      *)
CountFifo ==
    /\ rpc = "count"
    /\ count' = Min({Len(fifo[sfp]), BufSize - Len(buf[sfp])})
    /\ rpc' = "burst"
    /\ UNCHANGED <<trigger, daq, cpc, sfp, buf, expired, sending, dead, hardware, commands,
                   history>>

ReadBurst ==
    /\ rpc = "burst"
    /\ LET n == Min({count, Len(fifo[sfp])}) IN
        /\ \E junk \in [1..count - n -> Dword] :
            buf' = [buf EXCEPT ![sfp] = @ \o SubSeq(fifo[sfp], 1, n) \o junk]
        /\ fifo' = [fifo EXCEPT ![sfp] = SubSeq(@, n + 1, Len(@))]
    /\ sfp' = 1 - sfp
    /\ rpc' = IF sfp = 0 THEN "count" ELSE "decide"
    /\ UNCHANGED <<trigger, daq, cpc, count, expired, sending, dead, open, lut,
                   due, triggers, commands, history>>

readflag == \E s \in SFP : buf[s] # <<>>

compflag == \A s \in SFP : buf[s] # <<>> => Last(buf[s]) = "end"

DecideBySecond ==   \* slip: compflag is set to true for each SFP
    /\ rpc = "decide"
    /\ LET complete == buf[1] # <<>> => Last(buf[1]) = "end" IN
        /\ rpc' = IF ~readflag THEN "enter"
                  ELSE IF complete \/ expired THEN "clear" ELSE "count"
        /\ late' = (late \/ (readflag /\ ~complete /\ expired))
    /\ UNCHANGED <<trigger, daq, cpc, reading, sending, dead, hardware, commands, counter,
                   reset>>

DecideReturns ==   \* slip: the timeout returns instead of leaving the loop
    /\ rpc = "decide"
    /\ rpc' = IF ~readflag \/ (expired /\ ~compflag) THEN "enter"
              ELSE IF compflag THEN "clear" ELSE "count"
    /\ late' = (late \/ (readflag /\ ~compflag /\ expired))
    /\ UNCHANGED <<trigger, daq, cpc, reading, sending, dead, hardware, commands, counter,
                   reset>>

(* Nothing was read; all links that sent anything have ended, or time is   *)
(* up; or another round.                                                   *)
Decide ==
    /\ rpc = "decide"
    /\ rpc' = IF ~readflag THEN "enter"
              ELSE IF compflag \/ expired THEN "clear" ELSE "count"
    /\ late' = (late \/ (readflag /\ ~compflag /\ expired))
    /\ UNCHANGED <<trigger, daq, cpc, reading, sending, dead, hardware, commands, counter,
                   reset>>

ReadingDone ==
    /\ rpc = "clear"
    /\ clear_busy("reader")
    /\ rpc' = "check"
    /\ UNCHANGED <<daq, cpc, reading, dead, hardware, commands, history>>

CheckFile ==
    /\ rpc = "check" /\ place["reader"] = "out"
    /\ rpc' = IF out_file = "null" THEN "enter" ELSE "write"
    /\ UNCHANGED <<trigger, daq, cpc, reading, sending, dead, hardware, commands, history>>

(* The fprintf calls for one segment; each reads out_file again.  Into a   *)
(* closed file they crash or write nothing, with NULL they crash.          *)
WriteSegment ==
    /\ rpc = "write"
    /\ dead' \in CASE out_file = "open"  -> {FALSE}
                   [] out_file = "freed" -> BOOLEAN
                   [] out_file = "null"  -> {TRUE}
    /\ sfp' = 1 - sfp
    /\ rpc' = IF sfp = 0 THEN "write" ELSE "enter"
    /\ UNCHANGED <<trigger, daq, cpc, count, buf, expired, sending, hardware, commands,
                   history>>

(* Inside a call.                                                          *)
ReadEvent ==
    /\ ~dead
    /\ \/ CountFifo \/ ReadBurst \/ Decide \/ ReadingDone \/ CheckFile
       \/ WriteSegment \/ send_trigger("reader")

ReaderThread == ReadEvent \/ (~dead /\ Enter)

-----------------------------------------------------------------------------
Environment ==
    \/ Pretrigger
    \/ \E s \in SFP : Arrive(s)
    \/ Expire

Next == CommandThread \/ ReaderThread \/ Environment

Spec == Init /\ [][Next]_vars

(* A call of read_event that has begun runs on, and time passes.  Nobody   *)
(* has to call it, no command has to come, a link may stop in an event.    *)
FairSpec == Spec /\ WF_vars(ReadEvent) /\ WF_vars(Expire)

-----------------------------------------------------------------------------
(* Properties.                                                             *)

TypeOK ==
    /\ busy \in BOOLEAN /\ src \in {"off", "ext", "soft"}
    /\ burstcnt \in Int
    /\ run \in BOOLEAN /\ out_file \in {"null", "open", "freed"}
    /\ cpc \in {"idle", "isbusy", "sent", "off", "card1", "clear", "start", "fopen",
                "fclose", "forget"}
    /\ rpc \in {"enter", "count", "burst", "decide", "clear", "check", "write"}
    /\ sfp \in SFP /\ count \in 0..BufSize /\ expired \in BOOLEAN
    /\ buf \in [SFP -> Seq(Dword)] /\ \A s \in SFP : Len(buf[s]) <= BufSize
    /\ place \in [Thread -> {"out", "busy?", "valid?", "zero?", "burst?", "load", "store",
                             "set", "unblock", "source?"}]
    /\ old \in [Thread -> Int]
    /\ {dead, open, lut} \subseteq BOOLEAN
    /\ due \in [SFP -> Seq(Dword)] /\ fifo \in [SFP -> Seq(Dword)]
    /\ commands \in 0..MaxCommands /\ triggers \in 0..MaxTriggers
    /\ asked \in -2..MaxBurst /\ raced \in BOOLEAN /\ reset \in BOOLEAN /\ late \in BOOLEAN

Whole(words) ==
    /\ Len(words) % (NData + 1) = 0
    /\ \A k \in DOMAIN words : words[k] = Event[1 + ((k - 1) % (NData + 1))]

\* Unless a FIFO was cleared or a reading timed out, what read_event counts as
\* read and writes to the file is on each link a number of whole events, how
\* ever the dwords arrive and the triggers overlap.
SegmentsWhole ==
    rpc \in {"clear", "check", "write"} /\ ~reset /\ ~late
    => \A s \in SFP : Whole(buf[s])

\* A call of read_event that has read anything comes to clear_busy, also when
\* the event never ends: a trigger that was answered by anything does not hold
\* up the next one, provided somebody calls read_event.
ReadingReleasesBusy ==
    (rpc \in {"count", "burst", "decide"} /\ readflag) ~> (rpc = "check" \/ dead)

\* As long as neither thread wrote the counter while the other was between its
\* test and its decrement, the counter is on the way from what was asked for to
\* 0: after "run start" and "trg off" it stays 0, it is -1 (triggers for ever)
\* only after "trg on", and a burst never grows.
CounterObeyed ==
    raced \/ burstcnt \in (IF asked > 0 THEN 0..asked ELSE {asked})
=============================================================================
