# Verification of the TRDbox readout

TLA+ models, TLC runs and TLAPS proofs of the readout of a TRD chamber through
the TRDbox: `src/trdbox` (the C++ daemons) and `src/pytrd` (the Python tools).

## 1. The system

```
 minidaq.py --"write 0x103 1", "read 0x102"--------------> trdboxd (logicbox_proxy) == TRDbox
     |                                                        ^        REP, one thread
     +--"read"--> subevd task sfp0 --"dump sfp0"--------------+
     +--"read"--> subevd task sfp1 --"dump sfp1"--------------+
```

Every arrow is a ZeroMQ REQ/REP pair: the sender blocks until the reply comes.

| component | state | operations | talks to |
|---|---|---|---|
| `logicbox_proxy` (trdboxd.cc) | REP socket, two `zmq_buffer_t`, the LogicBox | dump, trg, sfp, write, read | all clients, the hardware |
| `trd_subevent_builder` (subevd) | linear buffer of 64 KiB, header, two sockets | "read": query, append, search, reply; deadline | minidaq, trdboxd |
| `minidaq.py readevent` | event loop, output file | unblock, wait, read both links, write | trdboxd, both tasks |
| `su738` | one SFP card: receive FIFO, phase, configuration | dump, clear, optical test, phase scan, programming | trdboxd |
| `trdbox.py` | none | one command per call | trdboxd |
| `rawdata` parsers | list of expected words, position in link and page | read a page, process a link | files |
| legacy DIM server (trigger, data_acquisition, command) | busy flag, burst counter, run and file | commands; `read_event`, which nothing in src/ calls | DIM, `su738` |
| `trdmon`, `zmqSimulation`, init script, build files | display, timing test, service | - | - |

What is hard in it: the builder's buffer across timeouts and overflows; the
lockstep of two sockets on every way out of a loop; 16-bit sizes of buffers of
exactly 64 KiB; a process that ends while the others wait for it, and the
requests it leaves behind when it is restarted; four processes that share one FIFO pair through one proxy; a
phase scan whose array index follows where the hardware stops; two threads of
the legacy server that share flag, counter and file without a lock; a
counter that is read after the event it is to detect; segments that are joined
without looking at their status; cards and a file with the run number that
outlive the process that was changing them. `PROJECT.json` lists the hazards by line.

What makes each component correct:

* builder: nothing lost, repeated or reordered; a reply is one subevent; the
  buffer starts at a boundary and never overruns; each request is answered;
* proxy: the dumps of a link return its data once, in order; each command is
  answered while the process lives (it dies where it programs a card without
  `sfpprog.bin` or cannot write the file of a phase scan); a command acts on the
  card it names;
* cards: a test finds every fault within the loop it closes, and no other: test1
  and the phase scan turn the words round in the FPGA, test2 in the transceiver
  (TLK), and neither says anything of the fibre; a phase is reported for the
  position it was measured at; a card is left in normal operation; start-up ends
  whatever the hardware does;
* readout: the n-th event in the file is the n-th trigger's, whole; nothing is
  lost between the detector and the file; a readout that began ends; an
  unblocked trigger is followed by a readout;
* parsers: a link is understood as the format says, wherever pages cut it;
* restarts: one process at a time can be restarted, the others keep their
  lockstep and find back to the event boundaries;
* legacy server: events are not cut, reading data releases busy, the burst
  counter obeys the last command; tests leave the cards in normal operation and the FIFOs
  without test words; run numbers are fresh over restarts.

## 2. The modules

| module | models | source |
|---|---|---|
| `SubeventFormat` | what a subevent is and what `find_dword(0)` returns | trd_subevent_builder.cc:160-180 |
| `FindDword` | the loop of `find_dword`, with its read past the data | the same lines |
| `SubeventBuilder` | a builder task, its client and the proxy as environment | trd_subevent_builder.cc:18-216 |
| `MCSubeventBuilder` | the set of fragments for TLC | - |
| `LogicboxProxy` | trdboxd's request loop with any clients, the FIFOs and the trigger logic | trdboxd.cc:118-240, su738.cc:579-644 |
| `Readout` | minidaq, both tasks, trdboxd and the detector, joined by their sockets | minidaq.py:45-128 and the two above |
| `FeeParser` | TrdFeeParser: the list of expected words and what each dword does to it | trdfeeparser.py:120-526 |
| `CruParser` | the three readers that feed it: RDH pages with half-CRU payloads, o32 files, minidaq files | trdfeeparser.py:530-657, tfreader.py, o32reader.py, minidaqreader.py |
| `MCCruParser` | the payloads TLC reads | - |
| `SfpCard` | start-up of trdboxd and the card commands: optical test, phase scan, programming, and the process that dies in them and is started again | su738.cc:121-411, 676-889, 1144-1310; trdboxd.cc:69-217 |
| `MCSfpCard` | the cards TLC tries | - |
| `Restarts` | trdboxd, subevd and minidaq as processes that end and are started again, with the builders' actions of `SubeventBuilder` | subevd.cc, minidaq.py, trdboxd.cc, trd_subevent_builder.cc |
| `LegacyServer` | the command thread of the DIM server and a caller of `read_event`: trigger, burst counter, events | trigger.cc, data_acquisition.cc, command.cc |
| `CommandHandler` | the same server's commands for cards and runs, over ends and restarts of the process | command.cc, data_acquisition.cc:26-60, 222-256 |
| `SubeventBuilderProofs` (with `FindDword`'s), `LogicboxProxyProofs`, `ReadoutProofs`, `RestartsProofs`, `CruParserProofs` (with `FeeParser`'s), `SfpCardProofs`, `LegacyServerProofs`, `CommandHandlerProofs` | theorems | - |

**SubeventBuilder.** `pc` is "recv" while the task sits in `cmdsock.recv` and
"dump" while it sits in `ccbus.recv`; between those two calls nothing else
touches the task's state, so one action covers everything from one blocking
call to the next: `RecvRead` (lines 64-90), `RecvUnknown` (140-148), and the
three ways the loop goes on after `ccbus.recv` returns: `ReplyTimeout`,
`QueryAgain`, `ReplySubevent`. The unit of length is the dword; the modulus of
the 16-bit `payload_size` and the size of the buffer are both 16384 dwords,
the constant `MaxPayload`. The sockets are sequences of length 0 or 1.
`Expire` is the wall clock passing the deadline. `received`, `delivered` and
`overflowed` are history.

**LogicboxProxy.** One action per branch of `run()`. Its loop takes a request,
serves it and replies before the next, so a branch is one action. "prog" and
"phase" have a second outcome: they use a file that may not open, without a test,
and the process ends (`Die`, `alive`). Nobody is answered any more; what happens
to clients over a restart is in `Restarts`, and what a card looks like after one
in `SfpCard`. The hardware
(external) is a FIFO per card, the trigger's block flag and the pretrigger
counter. The 16-bit wrap of the reply's size is in `Dumped`, and `wrapped` notes
a dump that it made empty: its dwords are gone. Whether a pretrigger blocks the
trigger is left open, for "trg conf" can change it.

**Readout.** `mpc` is the statement readevent is at. The builders' actions are
those of `SubeventBuilder`, by INSTANCE; trdboxd's three branches that occur
are stated over the joined variables, and the run checks that the whole
implements both `SubeventBuilder` and `LogicboxProxy` (with `req`, `rep`,
`arrived` and `sent` defined from the joined state). The detector sends
dwords `<<t, k>>` for pretrigger t and then `eods` markers, one dword at a
time. `eods` and `autoblock` are set once, before the start.

**Restarts.** A process that ends takes with it what has reached it: subevd its
buffers and the reads it was handed, trdboxd the queries it was handed and any
of its replies that are still under way. A request whose addressee is not there
waits with its sender, and nobody repeats a request; a reply to a peer that has
gone is dropped, but its request is served all the same (`orphans`, and "gone"
in `queue`). That is how REQ and REP sockets over TCP behave, which is outside
src/. `at` says where a task's query is; "nowhere" is the query that was lost
with trdboxd and that `ccbus.recv` waits for without a deadline. trdboxd tests
the cards before it binds its socket, so that it starts with empty FIFOs and what
the detector sent meanwhile is missed. A request to terminate subevd
(`Terminate`) sets flags that no task reads, after which `joinAll` waits.
minidaq is reduced to its reads, which come at any time.

**FeeParser, CruParser.** `readlist` is the content of the list that the class
attribute `readlist_start` names: `reset()` gives it a second name, so the
parser never starts afresh, and `bound` says that it has been given. A dword is
its kind and the fields that later dwords depend on; `Accepts` gives the kinds
whose bits pass each parser function's pattern, which is more than the kind
meant. `crashed` is the TypeError of a `ParsingContext` attribute that no
header has set. In `CruParser` one block stands for the 32 bytes that are the
unit of a link's data and carries one dword; `pos`, `maxpos`, `link`, `unread`
and `hcruheader` are the variables of `TrdCruParser.read`, `page` counts the
RDHs. The payloads are chosen by the environment: `Intact` ones are what the
format allows (`Written` in `FeeParser`: after each dword, the kinds that the
front-end electronics may write next), `Damaged` ones have one unreadable dword. What happens once a
header is read where there is none depends on its bits and is not followed:
`pc = "astray"`. The tracklet formats other than run3, the default, are left
out; they differ in how tracklet words are decoded and not in the list.

**SfpCard.** `proc` is the procedure that runs and `step` the statement it has
reached; `Enter` and `Return` say which procedure calls which (a failed test
programs the card, programming is followed by the phase scan, start-up tests
both cards). A word is the set of its bits, so a test pattern, its shift and a
stuck bit are set operations; the error count is abstracted to `failed`. Outside
src/ are the card and its link (`hw`): at most one fault (a break, a dropped word,
a bit stuck at 0 or 1, two bits bridged) and its place (FPGA, TLK or fibre), the
two ends at which the clock manager (DCM) refuses a step, and the phases at which
the receiver works. `Way` says what the words pass in each configuration, from the
`spi_cnf` values of `opticalTest` (su738.cc:128-131), and a fault is met only
there: a dark fibre keeps the detector's data away and disturbs no test. The
process dies, as it does in the code, without `sfpprog.bin` (`NoFile`) and where
`phase_rx_lb.dat` cannot be opened (`ScanNoFile`, which leaves the card in a
loopback); `Restart` is the next process, whose constructor finds the cards as
they are. The detector may send at any time. Left out: I2C, `patt_check`, the
transmitter's scan and the third loopback, which nothing calls.

**LegacyServer.** These files are no longer built; they are modelled because
two threads would share `busy`, `burstcnt`, `run` and `out_file` with the locks
commented out. The second thread is not there in src/: the `pthread_create` of
`reader_thread_function` is commented out (data_acquisition.cc:56-62) and nothing
else calls it or `read_event`, nor does `commandHandler` read. The model has an
external caller that may call `read_event` at any time, again and again, or never
(`ReaderThread`; `ReadEvent` is what goes on within a call). A step is one access to one of these, `burstcnt--` is two, and
`place` says where each thread is inside `send_trigger`, which both can be in at
once. `mem_dump` is two steps, for the command thread can clear the FIFO in
between. `out_file` is "freed" after `fclose`: what writing to it does is either
nothing or a crash. `busy` starts with any value, since the constructor leaves it
unset. `raced` notes that one thread wrote the counter while the other was
between its test and its decrement. Stores are seen by the other thread in program order and at once: the
properties that hold do not depend on it.

**CommandHandler.** `todo` is what a command still has to do, one job per call of
`opticalTest`, `programSFP` and `RX_phase`, and `step` the hardware access the
first one has reached; `Begin` starts the next job where a procedure returns.
A burst is written in one step and read in another, so that a caller of
`read_event`, external as in `LegacyServer` and
reduced to `Enter`, `Dump` and `Leave`, can get in between. Programming leaves the
FPGA with the normal configuration or with none, and then it does not listen
(`Told`) and returns nothing (`Closed`); what the FIFO holds stays. `End` is the end of
the process at any step, which the code brings about itself where it passes a
null pointer to `fseek`, `fprintf` or `fclose` (`ProgramNoFile`, `ScanNoFile`,
`RunStopTwice`); cards and `run_no.txt` stay as they are and
`Restart` reads the number back. `run_no.txt` is emptied in one step and written
in another; read when empty it leaves `lastrun` at its initial value. What the
patterns are and how the phase scan works is in `SfpCard`.

## 3. The runs

| run | bounds | shows |
|---|---|---|
| `FindDword` | every buffer of 5 dwords, every size | the loop returns what `find_dword` of `SubeventFormat` says |
| `SubeventBuilder` | 1 link, 2 data dwords, buffer of 4, fragments of 0 to 3, 6 dwords in all | lockstep, no overrun, replies are subevents, nothing lost, every request answered |
| `LogicboxProxy` | 2 clients, all commands, 2 words, buffer of 2, 2 arrivals, 1 trigger | dumps lose nothing unless a command clears the FIFO or a dump fills the buffer exactly; every command is answered unless the process has ended |
| `Readout` | 2 links, 2 events of 2 dwords and 1 or 2 markers, with and without autoblock | events in step until a timeout, quiet readout, nothing lost end to end, a readout that began ends; the builders' and the proxy's specifications are implemented |
| `Restarts` | 1 link, 3 events of 2 dwords and a marker, each process ends at most once | lockstep and order over restarts, at most one damaged subevent per restart of trdboxd and two per restart of subevd, every read answered unless its subevd ended or the query was lost |
| `CruParser` | 2 links, 2 channels, pages of 8 blocks, 2 payloads, at most one damaged dword, three readers | the parser never runs out of expectations and keeps the format's order; the first link is understood as written over any pages; each call covers data of its own link, links start where the header says; reading a page ends |
| `SfpCard` | 2 cards, 4-bit words, 3 runs of 2 words, DCM of 2 steps each way, 2 tries, 1 detector dword | the test finds every fault in its loop and only those, over deaths and restarts; the scan measures what it writes and names phases rightly; all ends |
| `LegacyServer` | 3 commands, 2 triggers, events of 2 dwords, buffer of 3, bursts of 2 | segments are whole, buffers not overrun, a reading that has begun releases busy, the burst counter obeys the last command unless the threads raced for it |
| `CommandHandler` | 3 commands, 1 end of the process, bursts of 2 dwords, 2 patterns, 1 detector dword, one card with a cable | no card left in a loopback, no test words left, a sound card fails only if the reader disturbed it, run numbers fresh |
| `LostTrigger` | 2 events of 1 dword | violated: a pretrigger before the first reading of the counter is missed |
| `LinkNotReset` | as CruParser | violated, in a time frame: a new link is not started, its digits go to the half-chamber of the first |
| `RestartedIndependently` | 1 link, 2 events, trdboxd ends once | violated: a read is never answered after trdboxd was restarted with its query |

Why the bounds suffice. A builder's tasks share nothing, so one link shows
every behaviour of a task; a buffer of 4 and fragments of 3 overflow, wrap to
0 and hold two subevents with a partial third. Two clients are enough for
every interference at the proxy, which keeps no state per client, and two
dwords fill its buffer exactly. In the composed run a FIFO of 2 splits every
event over several dumps. Two pretriggers show the confusion of an event with
the next.

In `Restarts` the links meet only in the processes that end, and all their
sockets end with them, so one link shows every case; two would only multiply
the states. A FIFO of one event and three events let a restart cut an event,
damage the next with the query left behind, and find the boundary again. That
the bound on the damage counts restarts and not events was checked with four
events and two restarts of subevd as well. A buffer of 5 dwords takes one event
and a damaged one and overflows on more.

A page of 8 blocks and links of 0, 5 and more blocks put the page boundary at
every place of a link: before, inside and after its headers, between two links
and one block before the end of a page. A second payload and a second link are
what the list that is never reset needs to show itself.

Four bits give every kind of pair a pattern can confuse: neighbours, a pair
across the end of the mask, and the bit the mask leaves out. A DCM of two steps
each way has its ends before, at and after the places where the scan turns; the
second card is there to be disturbed by commands for the first. The faults tried
are those of the kinds and bits listed in `MCSfpCard`, some in the FPGA, where
both loops meet them, some in the TLK, which only test2 meets, and a dark fibre,
which neither does. In the legacy
server three commands suffice to start a run, to trigger and to disturb both; a
buffer of 3 dwords cuts the second of two overlapping events. In
`CommandHandler` they suffice for a test, the end of the process in it, and a
run after it; one card has the cable that closes the outer loop and the other
has the detector. Two patterns are a first and a last one, and two dwords are
a burst that can be lost in part. The code's four patterns of 15360 dwords are
covered by the proofs.

Deadlock is checked in `SubeventBuilder`, whose environment never stops. `CHECK_DEADLOCK FALSE` stands where the program ends:
the loop returns (`FindDword`), and readevent ends after `nevents` events or
waits for a trigger when the bound on pretriggers is used up (`Readout`,
`LostTrigger`), where the file does (`CruParser`, `LinkNotReset`), where
minidaq waits for a read that was lost (`Restarts`, `RestartedIndependently`),
and where the process can die or no command needs to come (`LogicboxProxy`,
`SfpCard`, `LegacyServer`, `CommandHandler`).

Fairness. Every thread that src/ starts runs when it can (WF of its actions);
trdboxd's loop takes each request while the process lives, and ZeroMQ's REP socket
queues its peers fairly, hence WF for each client's command (which outcome a
branch has is left open); the clock
advances, hence WF of `Expire`; what the detector owes arrives. No client is
obliged to send. `LostTrigger` also assumes that pretriggers keep coming while
the trigger is open: the counterexample needs no unfair scheduling. In
`Restarts` somebody starts trdboxd and subevd again (WF of `BoxStart` and
`SubStart`), and a request under way arrives while its addressee runs; nothing
is assumed of the detector, of minidaq or of the requests of processes that
have gone. The reader of a file is one thread that runs on to its end: WF of
`Read`, and none of `NewData`, for nobody owes it a longer file. A card
procedure is sequential code without a blocking call: WF of `Procedure` in
`SfpCard`, and nobody owes a process that died its `Restart`; `FindDword` and
`CommandHandler` are checked for safety only. In the legacy server a call of
`read_event` that has begun runs on (WF of `ReadEvent`) and its 30 s pass (WF of
`Expire`); that anybody calls it is not assumed, for nothing in src/ does, and
neither is anything of the links or the commands.

What the violated runs found. `LostTrigger`: the counter that a new trigger is
compared with is read after the unblock is confirmed (minidaq.py:53).
`LinkNotReset`: `reset()` gives the list a second name instead of copying it
(trdfeeparser.py:420); the run is about `TrdCruParser`, which calls it at the end of
each link and says "start new link" (649). `MiniDaqReader` never resets between
links, for it does so only while the list is None; `o32reader` calls `process`, and
with it the same `reset`, once per link. `RestartedIndependently`: the query is sent once and
awaited without a deadline (trd_subevent_builder.cc:95), so a restart of trdboxd
needs one of subevd.

## 4. The proofs

`LogicboxProxyProofs` proves `TypeOK` and `DumpsLoseNothing` for any number of
clients, any words and any size of the buffer. The invariant adds that no FIFO
holds more than the buffer, the assumption under which `Rest` is empty; a
client's steps touch neither FIFO nor history, and a dump moves what the FIFO
holds to what was sent.

`SubeventBuilderProofs` proves, for every set of links, fragment set, buffer
size and bound: `TypeOK`, `Lockstep`, `BufferFits`, `AnswerIsSubevent`,
`NothingLost` and `BoundaryAligned`. The invariant is their conjunction:
`Lockstep` supplies that a fragment is only ever taken in "dump" with nothing
else under way, `BufferFits` that the subevent found is shorter than the
modulus unless it fills the buffer (then the size is 0 and it is not found),
and the lemma on `find_dword` that what is cut off ends with its first run of
markers. One lemma per action; the assumptions are `ConstantsAssumption`. It also
proves `LoopFindsSubevent` of `FindDword` for every capacity and set of dwords:
before the index there is no marker while scanning, and from the first marker to
the index there are only markers in the inner loop.

`ReadoutProofs` proves every invariant of the composed readout and both
refinements, for any size of events, buffers and FIFOs and any number of events
and pretriggers. The inductive invariant is layered. `Base` has the types, the
lockstep of each builder, and which builders are at work at each statement of
readevent. `Counting` says that with autoblock at most one pretrigger is ahead
of the file, and that it has blocked the trigger: `QuietReadout`. `Streams`
says of each link that what was produced is what was received, what is on the
bus, in the FIFO and on the link; and that what was received is in the file, in
the event being collected, in the answer or in the buffer: `EndToEnd`. `InStep`
says, with autoblock and single markers, that the event of the newest pretrigger
is, per link that has had no timeout, as a whole on its way or as a whole
answered: `EventsInStep`. The last has the hypothesis `EventSize < MaxPayload`: a
link's data and the marker behind them fit the builder's buffer. The code does not
promise it for larger events, whose front is thrown away when the buffer is full.
For the refinements each step of the readout is shown to be a step of
`SubeventBuilder` and of `LogicboxProxy`, or to leave their variables alone. The assumptions say that
sizes are positive, that no FIFO holds as much as the buffer (the assumption of
`LogicboxProxy`), and that the marker is not a data dword.

`RestartsProofs` proves `TypeOK`, `LockstepKept`, `InOrder` and `DamageBounded`
for any number of links, restarts and events. What is on its way to minidaq on
a link is one sequence of words (`Coming`); a step hands some of its front over,
leaves it as it is, or, in a restart or overflow, takes a part out of its middle.
That keeps the data in order. A place where the words are no longer joined as
the detector has sent them is a gap, and so is the edge before the card while
trdboxd is down. `Paid`: the gaps, the queries left at trdboxd and the damaged
subevents are together no more than the restarts of trdboxd and twice those of
subevd. The end of trdboxd adds a gap, and its start loses words at that gap
only; the end of subevd adds a gap and may leave a query, which turns into a
gap when it is served; and a subevent that is no event holds a gap, for words
with none, data and then markers, are exactly one event (`WholeEvent`). The
bound alone is not inductive, since a damage is done long before it is sent.
The marker must not be a data dword.

`CruParserProofs` proves `AlwaysExpecting`, `InOrder`, `TypeOK`, `InPlace` and
`FirstLinkAsWritten` for every number of links and channels, every page size and every payload, damaged
ones included. For the list of expectations, that an entry which leads on
remains needs that it is not popped without another being appended, which the
lemmas `FollowShaped` and `FollowClosed` give (a function either appends closed
entries and then one open one, or nothing), and that the open entry is the last
needs that the popped one was the only open one. `ReaderStep` shows that the
readers touch the list by `Reset` and `Parse` only. For `InPlace` the invariant
says where each variable of `TrdCruParser.read` stands in the page and in the
header at every statement (`ReaderInv`, `Loop`), and where the links of a payload
lie in it (`Laid`); where a link starts is a recursive function, which
is unfolded at one link at a time.
`FirstLinkAsWritten` has a hypothesis on the intact payloads, `FormatAssumption`:
each link is `Written`, that is, each dword is followed by what the detector
writes behind it. TLC evaluates it on the runs' payloads. The invariant follows
the words: after n dwords of the link, the list of expectations is what the last
function that leads on, the one that took dword k, has appended, from its
(n-k+1)-th entry on (`Parsed`), each of these entries `Fits` what may stand at its
place, and the context is that of the headers read so far (`ContextOf`). `FitsTaken`
says that an entry which fits is taken by the function meant for the dword, `FollowFits`
that what this function appends fits what is written behind it, and `Progress`
that the reader's place in the link is the number of dwords parsed.

`SfpCardProofs` proves all five invariants of its run, and `ScanInArray` and
`NormalWhenIdle`, for any number of bits, runs and steps and any card. The scan's
invariant has a part for the way down (the position of the DCM is the phase as
long as the phase is not below the end) and one for the way up (rows from the
left limit to the phase have been stored), for the array index at a step depends
on where the scan turned. For `NormalWhenIdle` it says which cards can be in a
loopback: the one under test, at which steps, and after a death in a scan those
that the start-up has not come to yet (`Ahead`). `SoundCardPasses`
needs that the FIFO is empty when a burst is sent (`Drained`; where the loop drops
the first word it may hold one word, the odd one of the burst before), which rests
on the card being deaf to the detector at these steps (`Quiet`). `FaultFound` needs,
the other way round, that a loop which does not work has errors once pattern 1 is
over (`Failing`): a run begins with a bit alone, and what any fault of that bit does
to the word or its complement is seen. That every word written is followed by its
complement comes from a recursive function, unfolded at one word. The theorem's
hypothesis `NBits - 1 <= Runs` says that the runs begin with every bit but one, as
the code's 15 runs and 16 bits do; it is sufficient and not necessary, since the
words within a run shift the bit too.
The constants' assumption is that there is at least one run and that a bridge joins two
different bits.

`CommandHandlerProofs` proves all five invariants of its run for every length of
the bursts, every number of patterns, all cables and any number of commands and
ends of the process. `NumbersFresh` needs that no number taken is above
`lastrun`, that `run` is `lastrun` within start_run and that the file has it
outside. `NormalWhenIdle` needs the steps at which a card may be in a loopback; an
FPGA without a configuration is in none.
`NoTestWordsLeft` needs how long a FIFO can be between a burst and its reading:
a closed loop returns no more than is read, and while it is closed the detector
cannot send; an open one returns nothing. `SoundCardPasses` adds that the FIFO of
an undisturbed test is empty or holds exactly the burst. The type invariant says
further that a procedure's steps are only taken for jobs it is for.

`LegacyServerProofs` proves `CounterObeyed` for any number of commands and any
size of a burst. A range alone is not inductive: without a race, a thread that
is about to decrement has seen the counter positive and nobody has changed it
since, and what it has loaded is still the value; and the command thread, which
sets the counter, is not in send_trigger when it takes a command. It also proves
`TypeOK` and `SegmentsWhole`, for any size of the events and the buffer: what the
detector owes, the FIFO and the reader's buffer are, put together, whole events,
and a step either moves words along or throws away a front (`Segments`).

A theorem needs no run beside it: the type invariants of `FindDword`,
`SubeventBuilder`, `LogicboxProxy` and `CommandHandler`, `BoundaryAligned`,
`ScanInArray` and `NormalWhenIdle` of `SfpCard` are proved for every instance
and TLC does not check them again.

Only model-checked: the liveness properties (`EveryRequestAnswered`,
`EveryCommandAnswered`, `ReadoutEnds`, `PageEnds`, `ProcedureEnds`,
`ReadingReleasesBusy`, `AnsweredUnlessLost`), which are beyond the provers here. Every
invariant and action property of a passing run is stated by a theorem. What the
violated runs show is a behaviour, for which one instance is enough.

The provers cannot use an induction theorem that takes a predicate. Where a
proof goes over data (`FlattenSeq` over the written events, the starts of the
links, the words of a pattern, the events of a stream) it takes the least
counterexample instead: `LeastOne`, from the well-foundedness of < on the
naturals.

## 5. Not modelled

Left out for good: logging, option handling and configuration lookup, text
formatting, the build files, `zmqSimulation`, the service script, the terminal
widgets of `trdmon`. In the card driver the I2C functions, `patt_check` with its
generators, the third loopback of `SfpCard`'s test and the transmitter's scan
are called nowhere in the daemons. Of the legacy server the commands "rob power"
and "OPTwrite", the discriminator commands and the acknowledge service are left
out: they write registers or files that no other part reads. Undefined behaviour
that has no outcome to enumerate (a FIFO of more than 16384 dwords written past
the buffer, a card number other than 0 and 1) is excluded by an assumption. A
file system that is full is not modelled. A file that cannot be opened is:
`sfpprog.bin` and `phase_rx_lb.dat` in `SfpCard`, `LogicboxProxy` and
`CommandHandler`, the data file and `run_no.txt` in `CommandHandler`.

What the models follow but no run singles out: "sfp1 reset" acts on card 0 and
"sfpN phase" on the card an unset variable names (`Target` in `LogicboxProxy`);
"SFP programming completed" is logged whatever the FPGA says (`EndProg`); a
termination request leaves subevd waiting for its tasks (`Terminate`); 32 bytes
of data at the end of a page that look like padding are dropped (`swallowed` in
`CruParser`).

Four hazards have no property, because the code does go wrong there and no text
of the repository says otherwise. The models follow what comes of them:
stop_run closes the file while an event is written to it (data_acquisition.cc:252,
`WriteSegment` in `LegacyServer`); a link that has sent nothing counts as complete,
so the halves of an event may be of different triggers (data_acquisition.cc:306,
`compflag`); a run of markers split over two dumps puts a link one event out of
step (trd_subevent_builder.cc:171; `Readout` has runs of two markers, and
`EventsInStep` is about single ones); and a damaged HC0 or HC1 makes the parser use
a context that was never set (trdfeeparser.py:299, `Crash`). Of other hazards a
property covers a part and exempts the rest by name (`cleared`, `wrapped`, `raced`,
`aborted`, `stolen`, `hole`, `swallowed`); the notes in `PROJECT.json` say which.
