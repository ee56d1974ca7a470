------------------------ MODULE CommandHandlerProofs ------------------------
(***************************************************************************)
(* Theorems about CommandHandler, for every length of the bursts, every    *)
(* number of patterns and all cables, commands and ends of the process.    *)
(***************************************************************************)
EXTENDS CommandHandler, SequenceTheorems, TLAPS

JobSteps == {"config", "clear", "write", "read", "restore", "open"}

LEMMA FirstStepOf ==
    ASSUME NEW jobs
    PROVE  /\ FirstStep(jobs) \in {"idle", "open", "config"}
           /\ FirstStep(jobs) = "idle" <=> jobs = <<>>
BY DEF FirstStep

-----------------------------------------------------------------------------
(* The numbers of the runs: none taken is above lastrun, and between runs  *)
(* the file has the last one, so that a restart reads it back.             *)
NumInv ==
    /\ run \in Int /\ lastrun \in Int /\ run_no \in Int
    /\ taken \subseteq Int
    /\ hole \in BOOLEAN /\ reused \in BOOLEAN
    /\ ~alive => ~InStartRun
    /\ ~hole => /\ ~reused
                /\ \A n \in taken : n <= lastrun
                /\ InStartRun => run = lastrun
                /\ ~InStartRun => lastrun = run_no

LEMMA InitNumInv == Init => NumInv
<1> SUFFICES ASSUME Init PROVE NumInv
  OBVIOUS
<1>1. /\ alive = TRUE /\ step = "idle" /\ run = norun /\ lastrun = run_no
      /\ run_no \in {norun, 7}
      /\ taken = {} /\ hole = FALSE /\ reused = FALSE
  BY DEF Init, LastRun
<1>2. norun \in Int
  BY DEF norun
<1>3. /\ alive /\ ~reused /\ ~InStartRun /\ taken \subseteq Int
      /\ hole \in BOOLEAN /\ reused \in BOOLEAN
      /\ \A n \in taken : n <= lastrun
  BY <1>1 DEF InStartRun
<1>4. run \in Int /\ lastrun \in Int /\ run_no \in Int /\ lastrun = run_no
  BY <1>1, <1>2
<1> QED BY <1>3, <1>4 DEF NumInv

LEMMA EndNumInv ==
    ASSUME NumInv, End
    PROVE  NumInv'
<1>1. step' \in {"idle", "open", "config"}
  BY FirstStepOf DEF End, Begin
<1>2. ~InStartRun'
  BY <1>1 DEF InStartRun
<1>3. /\ run' = norun /\ UNCHANGED <<lastrun, run_no, taken, reused>>
      /\ hole' = (hole \/ InStartRun)
  BY DEF End
<1>4. hole' \in BOOLEAN
  BY <1>3 DEF InStartRun
<1>5. ASSUME ~hole' PROVE ~hole /\ ~InStartRun
  BY <1>3, <1>5 DEF NumInv, InStartRun
<1> QED BY <1>2, <1>3, <1>4, <1>5 DEF NumInv, norun

LEMMA NextNumInv == NumInv /\ [Next]_vars => NumInv'
<1> SUFFICES ASSUME NumInv, [Next]_vars PROVE NumInv'
  OBVIOUS
<1>1. ASSUME UNCHANGED <<alive, run, lastrun, run_no, numbers>>, InStartRun' <=> InStartRun
      PROVE  NumInv'
  BY <1>1, SMT DEF NumInv, numbers, InStartRun
<1>2. CASE OptTest \/ SfpArm \/ SfpProg
  <2>1. step = "idle" /\ step' \in {"idle", "open", "config"}
    BY <1>2, FirstStepOf DEF OptTest, SfpArm, SfpProg, Receive, At, Begin
  <2>2. UNCHANGED <<alive, run, lastrun, run_no, numbers>>
    BY <1>2 DEF OptTest, SfpArm, SfpProg, Receive, runs
  <2> QED BY <1>1, <2>1, <2>2 DEF InStartRun
<1>3. CASE SfpReset \/ Ignored
  BY <1>1, <1>3 DEF SfpReset, Ignored, Receive, runs, history, thread, InStartRun
<1>4. CASE RunStart
  <2>1. step = "idle" /\ step' = "fopen"
    BY <1>4 DEF RunStart, Receive, At
  <2>2. /\ run' = lastrun + 1 /\ lastrun' = lastrun + 1
        /\ taken' = taken \cup {lastrun + 1}
        /\ reused' = (reused \/ lastrun + 1 \in taken)
        /\ UNCHANGED <<alive, run_no, hole>> /\ alive
    BY <1>4 DEF RunStart, Receive, At
  <2> QED BY <2>1, <2>2 DEF NumInv, InStartRun
<1>5. CASE RunStop
  BY <1>5 DEF RunStop, Receive, At, NumInv, InStartRun, history, numbers, thread, norun
<1>6. CASE RunStopTwice \/ Die \/ ProgramNoFile \/ ScanNoFile
  BY <1>6, EndNumInv DEF RunStopTwice, Die, ProgramNoFile, ScanNoFile
<1>7. CASE Configure \/ Clear \/ WriteBurst
  BY <1>1, <1>7 DEF Configure, Clear, WriteBurst, At, runs, history, InStartRun
<1>8. CASE ReadBurst
  BY <1>1, <1>8 DEF ReadBurst, At, runs, history, InStartRun
<1>9. CASE Restore \/ Program
  <2>1. step \in {"restore", "open"} /\ step' \in {"idle", "open", "config"}
    BY <1>9, FirstStepOf DEF Restore, Program, At, Begin
  <2>2. UNCHANGED <<alive, run, lastrun, run_no, numbers>>
    BY <1>9 DEF Restore, Program, runs
  <2> QED BY <1>1, <2>1, <2>2 DEF InStartRun
<1>10. CASE OpenFile
  BY <1>1, <1>10 DEF OpenFile, At, history, InStartRun
<1>11. CASE Truncate
  <2>1. /\ alive' /\ step = "truncate" /\ UNCHANGED <<run, lastrun, taken, reused>>
        /\ InStartRun /\ norun \in Int
    BY <1>11 DEF Truncate, At, InStartRun, norun
  <2>2. CASE run_no' = norun /\ step' = "flush" /\ UNCHANGED hole
    BY <2>1, <2>2 DEF NumInv, InStartRun
  <2>3. CASE hole' = TRUE /\ step' = "idle" /\ UNCHANGED run_no
    BY <2>1, <2>3 DEF NumInv, InStartRun
  <2> QED BY <1>11, <2>2, <2>3 DEF Truncate
<1>12. CASE Flush
  <2>1. /\ alive' /\ step = "flush" /\ step' = "idle" /\ run_no' = run
        /\ UNCHANGED <<run, lastrun, taken, hole, reused>>
    BY <1>12 DEF Flush, At, history, numbers
  <2>2. InStartRun /\ ~InStartRun'
    BY <2>1 DEF InStartRun
  <2> QED BY <2>1, <2>2 DEF NumInv
<1>13. CASE Restart
  <2>1. UNCHANGED <<step, run, run_no, numbers>> /\ lastrun' = run_no
    BY <1>13 DEF Restart, thread, history, LastRun
  <2>2. ~InStartRun
    BY <1>13 DEF Restart, NumInv
  <2> QED BY <2>1, <2>2 DEF NumInv, InStartRun, numbers
<1>14. CASE Enter \/ Leave \/ \E c \in Card : Dump(c) \/ Arrive(c)
  BY <1>1, <1>14 DEF Enter, Leave, Dump, Arrive, runs, history, numbers, thread, InStartRun
<1>15. CASE UNCHANGED vars
  BY <1>1, <1>15 DEF vars, runs, history, thread, InStartRun
<1> QED BY <1>2, <1>3, <1>4, <1>5, <1>6, <1>7, <1>8, <1>9, <1>10, <1>11, <1>12, <1>13,
           <1>14, <1>15 DEF Next, Command, Procedure

\* The numbers of the runs are fresh (NumbersFresh), whatever happens to the
\* process, but for the gap between the two writes of start_run and for a
\* run_no.txt that cannot be opened (data_acquisition.cc:234, 40-48).
THEOREM RunNumbersFresh == Spec => []NumbersFresh
<1>1. NumInv => NumbersFresh
  BY DEF NumInv, NumbersFresh
<1> QED BY <1>1, InitNumInv, NextNumInv, PTL DEF Spec

-----------------------------------------------------------------------------
(* Sequences of words and of jobs.                                         *)
Words == Seq({"test", "event"})

LEMMA Cut ==
    ASSUME NEW w \in Words, NEW n \in Nat
    PROVE  /\ SubSeq(w, n + 1, Len(w)) \in Words
           /\ Len(SubSeq(w, n + 1, Len(w))) = IF n < Len(w) THEN Len(w) - n ELSE 0
           /\ Contains(SubSeq(w, n + 1, Len(w)), "test") => Contains(w, "test")
<1> DEFINE cut == SubSeq(w, n + 1, Len(w))
<1>1. Len(w) \in Nat /\ \A i \in 1..Len(w) : w[i] \in {"test", "event"}
  BY DEF Words
<1>2. /\ cut \in Seq({"test", "event"})
      /\ Len(cut) = IF n + 1 <= Len(w) THEN Len(w) - (n + 1) + 1 ELSE 0
      /\ \A i \in 1..Len(w) - (n + 1) + 1 : cut[i] = w[(n + 1) + i - 1]
  <2>1. \A i \in n + 1..Len(w) : w[i] \in {"test", "event"}
    BY <1>1
  <2>2. n + 1 \in Int /\ Len(w) \in Int
    BY <1>1
  <2> QED BY <2>1, <2>2, SubSeqProperties
<1> HIDE DEF cut
<1>3. Contains(cut, "test") => Contains(w, "test")
  <2> SUFFICES ASSUME NEW i \in 1..Len(cut), cut[i] = "test" PROVE Contains(w, "test")
    BY DEF Contains
  <2>1. i \in 1..Len(w) - (n + 1) + 1 /\ n + i \in 1..Len(w) /\ (n + 1) + i - 1 = n + i
    BY <1>1, <1>2
  <2>2. w[n + i] = "test"
    BY <1>2, <2>1
  <2> QED BY <2>1, <2>2 DEF Contains
<1>4. Len(cut) = IF n < Len(w) THEN Len(w) - n ELSE 0
  BY <1>1, <1>2
<1> QED BY <1>2, <1>3, <1>4 DEF cut, Words

LEMMA BurstOf ==
    ASSUME NEW w \in Words, NEW n \in Nat
    PROVE  /\ w \o [k \in 1..n |-> "test"] \in Words
           /\ Len(w \o [k \in 1..n |-> "test"]) = Len(w) + n
           /\ n = 0 => w \o [k \in 1..n |-> "test"] = w
<1> DEFINE burst == [k \in 1..n |-> "test"]
<1>1. burst \in Words /\ Len(burst) = n
  BY DEF Words
<1>2. n = 0 => burst = <<>>
  OBVIOUS
<1> HIDE DEF burst
<1>3. w \o burst \in Words /\ Len(w \o burst) = Len(w) + n
  BY <1>1, ConcatProperties DEF Words
<1>4. n = 0 => w \o burst = w
  BY <1>2, ConcatEmptySeq DEF Words
<1> QED BY <1>3, <1>4 DEF burst

LEMMA EventAppended ==
    ASSUME NEW w \in Words
    PROVE  /\ Append(w, "event") \in Words
           /\ Contains(Append(w, "event"), "test") => Contains(w, "test")
<1>1. /\ Append(w, "event") \in Words /\ Len(Append(w, "event")) = Len(w) + 1
      /\ \A i \in 1..Len(w) : Append(w, "event")[i] = w[i]
      /\ Append(w, "event")[Len(w) + 1] = "event"
      /\ Len(w) \in Nat
  BY AppendProperties DEF Words
<1> QED BY <1>1 DEF Contains

LEMMA TestsAreJobs ==
    ASSUME NEW c \in Card, NEW loops \in Seq(1..3), NEW arm \in BOOLEAN
    PROVE  Tests(c, loops, arm) \in Seq(Job)
<1>1. \A k \in DOMAIN loops :
          [proc |-> "test", card |-> c, loop |-> loops[k], arm |-> arm] \in Job
  BY DEF Job
<1>2. Len(loops) \in Nat /\ DOMAIN loops = 1..Len(loops)
  OBVIOUS
<1>3. Tests(c, loops, arm) \in [1..Len(loops) -> Job]
  BY <1>1, <1>2 DEF Tests
<1> QED BY <1>2, <1>3

LEMMA RenewalIsJobs ==
    ASSUME NEW c \in Card
    PROVE  Renewal(c) \in Seq(Job)
<1>1. [proc |-> "prog", card |-> c] \in Job /\ [proc |-> "phase", card |-> c] \in Job
  BY DEF Job
<1> QED BY <1>1 DEF Renewal

LEMMA Empty == <<>> \in Seq(Job) /\ <<>> \in Seq({"test", "event"})
OBVIOUS

LEMMA BothCards == 0 \in Card /\ 1 \in Card
BY DEF Card

LEMMA OneLoop == <<1>> \in Seq(1..3)
OBVIOUS

LEMMA LoopsInRange ==
    \A loops \in {<<1>>, <<2>>, <<3>>, <<1, 2, 3>>} : loops \in Seq(1..3)
<1>1. <<1>> \in Seq(1..3) /\ <<2>> \in Seq(1..3) /\ <<3>> \in Seq(1..3)
  OBVIOUS
<1>2. <<1, 2, 3>> \in Seq(1..3)
  OBVIOUS
<1> QED BY <1>1, <1>2

LEMMA JobCard ==
    ASSUME todo \in Seq(Job), todo # <<>>
    PROVE  /\ card \in Card /\ job.proc \in {"test", "prog", "phase"}
           /\ job.proc = "test" => job.loop \in 1..3 /\ job.arm \in BOOLEAN
<1>1. job \in Job
  BY DEF job
<1> QED BY <1>1 DEF Job, card

-----------------------------------------------------------------------------
(* The types.  A procedure runs the jobs it is for, and the pattern of the *)
(* next burst is one that exists.                                          *)
TestSteps == {"config", "clear", "write", "read", "restore"}

ProcedureFits ==
    /\ step \in TestSteps => job.proc \in {"test", "phase"}
    /\ step \in TestSteps \ {"restore"} => mode <= LastMode

StateInv == TypeOK /\ ProcedureFits

LEMMA NextJobs ==
    ASSUME NEW jobs \in Seq(Job), Begin(jobs)
    PROVE  /\ todo' \in Seq(Job) /\ mode' = 0 /\ ~failed' /\ ~stolen'
           /\ failed' \in BOOLEAN /\ stolen' \in BOOLEAN
           /\ step' \in {"idle", "config", "open"}
           /\ step' = "idle" <=> todo' = <<>>
           /\ step' \in TestSteps => job'.proc \in {"test", "phase"}
<1>1. todo' = jobs /\ mode' = 0 /\ failed' = FALSE /\ stolen' = FALSE
  BY DEF Begin
<1>2. step' \in {"idle", "config", "open"} /\ (step' = "idle" <=> jobs = <<>>)
  BY FirstStepOf DEF Begin
<1>3. ASSUME step' \in TestSteps PROVE Head(jobs).proc \in {"test", "phase"}
  <2>1. step' = "config"
    BY <1>2, <1>3 DEF TestSteps
  <2>2. jobs # <<>> /\ Head(jobs).proc # "prog"
    BY <2>1 DEF Begin, FirstStep
  <2>3. Head(jobs) \in Job
    BY <2>2
  <2> QED BY <2>2, <2>3 DEF Job
<1> QED BY <1>1, <1>2, <1>3 DEF job

LEMMA RestIsJobs ==
    ASSUME TypeOK, todo # <<>>
    PROVE  Tail(todo) \in Seq(Job) /\ AfterTest \in Seq(Job)
<1>1. todo \in Seq(Job) /\ Tail(todo) \in Seq(Job)
  BY DEF TypeOK
<1>2. Renewal(card) \in Seq(Job)
  BY <1>1, JobCard, RenewalIsJobs
<1>3. Renewal(card) \o Tail(todo) \in Seq(Job)
  BY <1>1, <1>2, ConcatProperties
<1> QED BY <1>1, <1>3 DEF AfterTest

LEMMA ToldConfig ==
    ASSUME TypeOK, NEW conf \in Config
    PROVE  Told(conf) \in [Card -> Config]
BY DEF TypeOK, Told

LEMMA InitStateInv == Init => StateInv
<1> SUFFICES ASSUME Init PROVE StateInv
  OBVIOUS
<1>1. {run, lastrun, run_no} \subseteq Int
  BY DEF Init, LastRun, norun
<1>2. TypeOK
  <2>1. /\ alive \in BOOLEAN /\ failed \in BOOLEAN /\ reading \in BOOLEAN
        /\ stolen \in BOOLEAN /\ hole \in BOOLEAN /\ reused \in BOOLEAN
    BY DEF Init
  <2>2. todo \in Seq(Job) /\ fifo \in [Card -> Seq({"test", "event"})]
    BY Empty DEF Init
  <2>3. /\ step = "idle" /\ todo = <<>> /\ out_file = "null" /\ taken = {}
        /\ config \in [Card -> Config] /\ sound \in [Card -> BOOLEAN]
        /\ aborted \in [Card -> BOOLEAN]
    BY DEF Init, Config
  <2>4. mode \in 0..LastMode + 1 /\ commands \in 0..MaxCommands /\ deaths \in 0..MaxDeaths
    BY ConstantsAssumption DEF Init
  <2> QED BY <1>1, <2>1, <2>2, <2>3, <2>4 DEF TypeOK
<1>3. ProcedureFits
  BY DEF Init, ProcedureFits, TestSteps
<1> QED BY <1>2, <1>3 DEF StateInv

LEMMA EndStateInv ==
    ASSUME StateInv, End, UNCHANGED commands \/ commands' \in 0..MaxCommands
    PROVE  StateInv'
<1>1. <<>> \in Seq(Job)
  OBVIOUS
<1>2. /\ todo' \in Seq(Job) /\ mode' = 0 /\ failed' \in BOOLEAN /\ stolen' \in BOOLEAN
      /\ todo' = <<>> /\ step' = "idle"
  BY <1>1, NextJobs DEF End, Begin, FirstStep
<1>3. /\ alive' = FALSE /\ reading' = FALSE /\ run' = norun /\ out_file' = "null"
      /\ deaths < MaxDeaths /\ deaths' = deaths + 1 /\ hole' = (hole \/ InStartRun)
      /\ aborted' = [c \in Card |-> aborted[c] \/ InProcedure(c)]
      /\ UNCHANGED <<lastrun, run_no, cards, taken, reused>>
  BY DEF End
<1>4. aborted' \in [Card -> BOOLEAN] /\ hole' \in BOOLEAN
  BY <1>3, Zenon DEF InStartRun, InProcedure
<1>5. deaths' \in 0..MaxDeaths /\ commands' \in 0..MaxCommands /\ norun \in Int
  BY <1>3, ConstantsAssumption DEF StateInv, TypeOK, norun
<1>6. /\ alive' \in BOOLEAN /\ reading' \in BOOLEAN /\ reused' \in BOOLEAN
      /\ run' \in Int /\ lastrun' \in Int /\ run_no' \in Int /\ taken' \subseteq Int
  BY <1>3, <1>5 DEF StateInv, TypeOK
<1>7. mode' \in 0..LastMode + 1
  BY <1>2, ConstantsAssumption
<1>8. TypeOK'
  BY <1>2, <1>3, <1>4, <1>5, <1>6, <1>7 DEF StateInv, TypeOK, cards
<1>9. ProcedureFits'
  BY <1>2 DEF ProcedureFits, TestSteps
<1> QED BY <1>8, <1>9 DEF StateInv

LEMMA NextStateInv == StateInv /\ [Next]_vars => StateInv'
<1> SUFFICES ASSUME StateInv, [Next]_vars PROVE StateInv'
  OBVIOUS
<1>0. /\ TypeOK /\ ProcedureFits
      /\ Burst \in Nat /\ LastMode \in Nat /\ MaxCommands \in Nat /\ MaxDeaths \in Nat
  BY ConstantsAssumption DEF StateInv
<1>1. ASSUME Receive PROVE /\ commands' \in 0..MaxCommands /\ step = "idle" /\ todo = <<>>
                           /\ UNCHANGED <<alive, deaths>>
  BY <1>0, <1>1 DEF Receive, At, TypeOK
<1>2. CASE OptTest \/ SfpArm \/ SfpProg
  <2>1. PICK jobs \in Seq(Job) : Begin(jobs)
    <3>1. CASE OptTest
      <4>1. PICK loops \in {<<1>>, <<2>>, <<3>>, <<1, 2, 3>>} :
                \/ \E c \in Card : Begin(Tests(c, loops, FALSE))
                \/ Begin(Tests(0, loops, FALSE) \o Tests(1, loops, FALSE))
        BY <3>1 DEF OptTest
      <4>2. loops \in Seq(1..3)
        BY LoopsInRange
      <4>3. \A c \in Card : Tests(c, loops, FALSE) \in Seq(Job)
        BY <4>2, TestsAreJobs
      <4>4. Tests(0, loops, FALSE) \in Seq(Job) /\ Tests(1, loops, FALSE) \in Seq(Job)
        BY <4>3, BothCards
      <4>5. Tests(0, loops, FALSE) \o Tests(1, loops, FALSE) \in Seq(Job)
        BY <4>4, ConcatProperties
      <4> QED BY <4>1, <4>3, <4>5
    <3>2. CASE SfpArm
      <4>1. Tests(0, <<1>>, TRUE) \in Seq(Job) /\ Tests(1, <<1>>, TRUE) \in Seq(Job)
        BY OneLoop, BothCards, TestsAreJobs
      <4> QED BY <3>2, <4>1, ConcatProperties DEF SfpArm
    <3>3. CASE SfpProg
      <4>1. Renewal(0) \in Seq(Job) /\ Renewal(1) \in Seq(Job)
        BY RenewalIsJobs DEF Card
      <4> QED BY <3>3, <4>1, ConcatProperties DEF SfpProg
    <3> QED BY <1>2, <3>1, <3>2, <3>3
  <2>2. Receive /\ UNCHANGED <<reading, runs, cards, aborted, numbers>>
    BY <1>2 DEF OptTest, SfpArm, SfpProg
  <2>3. TypeOK'
    BY <1>0, <1>1, <2>1, <2>2, NextJobs DEF TypeOK, runs, cards, numbers
  <2>4. ProcedureFits'
    BY <1>0, <2>1, NextJobs DEF ProcedureFits
  <2> QED BY <2>3, <2>4 DEF StateInv
<1>3. CASE SfpReset \/ Ignored \/ RunStop
  <2>1. fifo' \in [Card -> Seq({"test", "event"})]
    <3>1. CASE SfpReset
      BY <3>1, Empty DEF SfpReset
    <3>2. CASE Ignored \/ RunStop
      BY <1>0, <3>2 DEF Ignored, RunStop, cards, TypeOK
    <3> QED BY <1>3, <3>1, <3>2
  <2>2. run' \in Int /\ out_file' \in {"open", "null"} /\ UNCHANGED <<lastrun, run_no>>
    BY <1>0, <1>3 DEF SfpReset, Ignored, RunStop, runs, TypeOK, norun
  <2>3. /\ UNCHANGED <<thread, reading, config, sound, history>> /\ Receive
    BY <1>3 DEF SfpReset, Ignored, RunStop, cards
  <2>4. TypeOK'
    BY <1>0, <1>1, <2>1, <2>2, <2>3 DEF TypeOK, thread, history, numbers
  <2>5. ProcedureFits'
    BY <1>0, <2>3 DEF ProcedureFits, thread, job
  <2> QED BY <2>4, <2>5 DEF StateInv
<1>4. CASE RunStart
  <2>1. /\ run' = lastrun + 1 /\ lastrun' = lastrun + 1 /\ step' = "fopen" /\ Receive
        /\ taken' = taken \cup {lastrun + 1}
        /\ reused' = (reused \/ lastrun + 1 \in taken)
        /\ UNCHANGED <<todo, mode, failed, reading, out_file, run_no, cards, stolen, aborted,
                       hole>>
    BY <1>4 DEF RunStart
  <2>2. reused' \in BOOLEAN
    BY <2>1
  <2>3. {run', lastrun', run_no'} \subseteq Int /\ taken' \subseteq Int
    <3>1. lastrun \in Int /\ run_no \in Int /\ taken \subseteq Int
      BY <1>0 DEF TypeOK
    <3>2. lastrun + 1 \in Int
      BY <3>1
    <3> QED BY <2>1, <3>1, <3>2
  <2>4. TypeOK'
    BY <1>0, <1>1, <2>1, <2>2, <2>3 DEF TypeOK, cards
  <2>5. ProcedureFits'
    BY <2>1 DEF ProcedureFits, TestSteps
  <2> QED BY <2>4, <2>5 DEF StateInv
<1>5. CASE RunStopTwice \/ Die \/ ProgramNoFile \/ ScanNoFile
  <2>1. End /\ (UNCHANGED commands \/ commands' \in 0..MaxCommands)
    BY <1>0, <1>5 DEF RunStopTwice, Die, ProgramNoFile, ScanNoFile, TypeOK
  <2> QED BY <2>1, EndStateInv
<1>6. CASE Configure
  <2>1. /\ step = "config" /\ todo # <<>> /\ card \in Card
        /\ job.proc \in {"test", "phase"}
        /\ job.proc = "test" => job.loop \in 1..3
    BY <1>0, <1>6, JobCard DEF Configure, At, TypeOK, ProcedureFits, TestSteps
  <2>2. (IF job.proc = "phase" THEN "loop1" ELSE <<"loop1", "loop2", "loop3">>[job.loop])
        \in Config
    <3>1. CASE job.proc = "phase"
      BY <3>1 DEF Config
    <3>2. CASE job.proc # "phase"
      <4>1. job.loop = 1 \/ job.loop = 2 \/ job.loop = 3
        BY <2>1, <3>2
      <4> QED BY <3>2, <4>1 DEF Config
    <3> QED BY <3>1, <3>2
  <2>3. /\ config' \in [Card -> Config] /\ step' = "clear"
        /\ UNCHANGED <<alive, todo, mode, failed, reading, runs, fifo, sound, bounds, history>>
    BY <1>0, <1>6, <2>2, ToldConfig DEF Configure, TypeOK
  <2>4. TypeOK'
    BY <1>0, <2>1, <2>3 DEF TypeOK, runs, bounds, history, numbers
  <2>5. ProcedureFits'
    BY <1>0, <2>1, <2>3 DEF ProcedureFits, TestSteps, job
  <2> QED BY <2>4, <2>5 DEF StateInv
<1>7. CASE Clear
  <2>1. /\ step = "clear" /\ todo # <<>> /\ step' = "write"
        /\ fifo' \in [Card -> Seq({"test", "event"})]
        /\ UNCHANGED <<alive, todo, mode, failed, reading, runs, config, sound, bounds, history>>
    BY <1>0, <1>7, Empty DEF Clear, At, TypeOK
  <2>2. TypeOK'
    BY <1>0, <2>1 DEF TypeOK, runs, bounds, history, numbers
  <2>3. ProcedureFits'
    BY <1>0, <2>1 DEF ProcedureFits, TestSteps, job
  <2> QED BY <2>2, <2>3 DEF StateInv
<1>8. CASE WriteBurst
  <2>1. /\ step = "write" /\ todo # <<>> /\ card \in Card
    BY <1>0, <1>8, JobCard DEF WriteBurst, At, TypeOK
  <2>2. PICK n \in Returned : fifo' = [fifo EXCEPT ![card] = @ \o [k \in 1..n |-> "test"]]
    BY <1>8 DEF WriteBurst
  <2>3. n \in Nat /\ fifo[card] \in Words
    BY <1>0, <2>1 DEF Returned, TypeOK, Words
  <2>4. fifo' \in [Card -> Seq({"test", "event"})]
    BY <1>0, <2>1, <2>2, <2>3, BurstOf DEF TypeOK, Words
  <2>5. /\ step' = "read"
        /\ UNCHANGED <<alive, todo, mode, failed, reading, runs, config, sound, bounds, history>>
    BY <1>8 DEF WriteBurst
  <2>6. TypeOK'
    BY <1>0, <2>1, <2>4, <2>5 DEF TypeOK, runs, bounds, history, numbers
  <2>7. ProcedureFits'
    BY <1>0, <2>1, <2>5 DEF ProcedureFits, TestSteps, job
  <2> QED BY <2>6, <2>7 DEF StateInv
<1>9. CASE ReadBurst
  <2>1. /\ step = "read" /\ todo # <<>> /\ card \in Card /\ mode \in 0..LastMode
    BY <1>0, <1>9, JobCard DEF ReadBurst, At, TypeOK, ProcedureFits, TestSteps
  <2>2. /\ fifo' = [fifo EXCEPT ![card] = SubSeq(@, Burst + 1, Len(@))]
        /\ mode' = mode + 1 /\ step' = IF mode < LastMode THEN "write" ELSE "restore"
        /\ UNCHANGED <<alive, todo, reading, runs, config, sound, bounds, history>>
    BY <1>9 DEF ReadBurst
  <2>3. failed' \in BOOLEAN
    BY <1>0, <1>9 DEF ReadBurst, TypeOK
  <2>4. fifo' \in [Card -> Seq({"test", "event"})]
    BY <1>0, <2>1, <2>2, Cut DEF TypeOK, Words
  <2>5. mode' \in 0..LastMode + 1 /\ (step' = "write" => mode' <= LastMode)
    BY <1>0, <2>1, <2>2
  <2>6. TypeOK'
    BY <1>0, <2>1, <2>2, <2>3, <2>4, <2>5 DEF TypeOK, runs, bounds, history, numbers
  <2>7. ProcedureFits'
    BY <1>0, <2>1, <2>2, <2>5 DEF ProcedureFits, TestSteps, job
  <2> QED BY <2>6, <2>7 DEF StateInv
<1>10. CASE Restore \/ Program
  <2>1. todo # <<>> /\ card \in Card
    BY <1>0, <1>10, JobCard DEF Restore, Program, At, TypeOK
  <2>2. PICK jobs \in Seq(Job) : Begin(jobs)
    BY <1>0, <1>10, <2>1, RestIsJobs DEF Restore, Program
  <2>3. /\ UNCHANGED <<alive, reading, runs, fifo, bounds, numbers>>
        /\ sound' \in [Card -> BOOLEAN]
    <3>1. CASE Restore
      BY <1>0, <3>1 DEF Restore, TypeOK
    <3>2. CASE Program
      <4>1. PICK works \in BOOLEAN : sound' = [sound EXCEPT ![card] = works]
        BY <3>2 DEF Program
      <4>2. sound' \in [Card -> BOOLEAN]
        BY <1>0, <2>1, <4>1 DEF TypeOK
      <4> QED BY <3>2, <4>2 DEF Program
    <3> QED BY <1>10, <3>1, <3>2
  <2>4. config' \in [Card -> Config] /\ aborted' \in [Card -> BOOLEAN]
    <3>1. CASE Restore
      <4>1. config' \in [Card -> Config]
        BY <1>0, <3>1, ToldConfig DEF Restore, Config
      <4> QED BY <1>0, <2>1, <3>1, <4>1 DEF Restore, TypeOK
    <3>2. CASE Program
      <4>1. PICK conf \in {"normal", "none"} : config' = [config EXCEPT ![card] = conf]
        BY <3>2 DEF Program
      <4>2. conf \in Config
        BY DEF Config
      <4> QED BY <1>0, <2>1, <3>2, <4>1, <4>2 DEF Program, TypeOK
    <3> QED BY <1>10, <3>1, <3>2
  <2>5. /\ todo' \in Seq(Job) /\ mode' = 0 /\ failed' \in BOOLEAN /\ stolen' \in BOOLEAN
        /\ step' \in {"idle", "config", "open"} /\ (step' = "idle" <=> todo' = <<>>)
        /\ step' \in TestSteps => job'.proc \in {"test", "phase"}
    BY <2>2, NextJobs
  <2>6. mode' \in 0..LastMode + 1
    BY <1>0, <2>5
  <2>7. TypeOK'
    BY <1>0, <2>3, <2>4, <2>5, <2>6 DEF TypeOK, runs, bounds, numbers
  <2>8. ProcedureFits'
    BY <1>0, <2>5 DEF ProcedureFits
  <2> QED BY <2>7, <2>8 DEF StateInv
<1>11. CASE OpenFile \/ Truncate \/ Flush
  <2>1. /\ step \in {"fopen", "truncate", "flush"} /\ step' \in {"truncate", "flush", "idle"}
        /\ todo = <<>>
    BY <1>0, <1>11 DEF OpenFile, Truncate, Flush, At, TypeOK
  <2>2. run_no' \in Int /\ hole' \in BOOLEAN /\ out_file' \in {"open", "null"}
    <3>1. CASE OpenFile
      BY <1>0, <3>1 DEF OpenFile, TypeOK, history, numbers
    <3>2. CASE Truncate
      <4>1. norun \in Int /\ run_no \in Int /\ hole \in BOOLEAN /\ out_file \in {"open", "null"}
        BY <1>0 DEF TypeOK, norun
      <4>2. run_no' = norun \/ UNCHANGED run_no
        BY <3>2 DEF Truncate
      <4>3. hole' = TRUE \/ UNCHANGED hole
        BY <3>2 DEF Truncate
      <4> QED BY <3>2, <4>1, <4>2, <4>3 DEF Truncate
    <3>3. CASE Flush
      BY <1>0, <3>3 DEF Flush, TypeOK, history, numbers
    <3> QED BY <1>11, <3>1, <3>2, <3>3
  <2>3. UNCHANGED <<alive, todo, mode, failed, reading, run, lastrun, cards, bounds, stolen,
                    aborted, taken, reused>>
    BY <1>11 DEF OpenFile, Truncate, Flush, history, numbers
  <2>4. TypeOK'
    BY <1>0, <2>1, <2>2, <2>3 DEF TypeOK, cards, bounds
  <2>5. ProcedureFits'
    BY <2>1 DEF ProcedureFits, TestSteps
  <2> QED BY <2>4, <2>5 DEF StateInv
<1>12. CASE Restart \/ Enter \/ Leave
  <2>1. alive' \in BOOLEAN /\ reading' \in BOOLEAN /\ lastrun' \in Int
    BY <1>0, <1>12 DEF Restart, Enter, Leave, TypeOK, runs, LastRun
  <2>2. UNCHANGED <<thread, run, out_file, run_no, cards, bounds, history>>
    BY <1>12 DEF Restart, Enter, Leave, runs
  <2>3. TypeOK'
    BY <1>0, <2>1, <2>2 DEF TypeOK, thread, cards, bounds, history, numbers
  <2>4. ProcedureFits'
    BY <1>0, <2>2 DEF ProcedureFits, thread, job
  <2> QED BY <2>3, <2>4 DEF StateInv
<1>13. ASSUME NEW c \in Card, Dump(c) \/ Arrive(c) PROVE StateInv'
  <2>1. fifo[c] \in Words
    BY <1>0 DEF TypeOK, Words
  <2>2. fifo' \in [Card -> Seq({"test", "event"})]
    <3>1. CASE Dump(c)
      <4>1. PICK n \in DOMAIN fifo[c] :
                fifo' = [fifo EXCEPT ![c] = SubSeq(@, n + 1, Len(@))]
        BY <3>1 DEF Dump
      <4>2. n \in Nat
        BY <2>1 DEF Words
      <4> QED BY <1>0, <2>1, <4>1, <4>2, Cut DEF TypeOK, Words
    <3>2. CASE Arrive(c)
      BY <1>0, <2>1, <3>2, EventAppended DEF Arrive, TypeOK, Words
    <3> QED BY <1>13, <3>1, <3>2
  <2>3. stolen' \in BOOLEAN
    BY <1>0, <1>13 DEF Dump, Arrive, history, TypeOK
  <2>4. UNCHANGED <<alive, thread, reading, runs, config, sound, bounds, aborted, numbers>>
    BY <1>13 DEF Dump, Arrive, history
  <2>5. TypeOK'
    BY <1>0, <2>2, <2>3, <2>4 DEF TypeOK, thread, runs, bounds, numbers
  <2>6. ProcedureFits'
    BY <1>0, <2>4 DEF ProcedureFits, thread, job
  <2> QED BY <2>5, <2>6 DEF StateInv
<1>14. CASE UNCHANGED vars
  <2>1. TypeOK'
    BY <1>0, <1>14 DEF vars, TypeOK, thread, runs, cards, bounds, history, numbers
  <2>2. ProcedureFits'
    BY <1>0, <1>14 DEF vars, ProcedureFits, thread, job
  <2> QED BY <2>1, <2>2 DEF StateInv
<1> QED BY <1>2, <1>3, <1>4, <1>5, <1>6, <1>7, <1>8, <1>9, <1>10, <1>11, <1>12, <1>13,
           <1>14 DEF Next, Command, Procedure

\* The variables keep their types.
THEOREM HandlerTypeCorrect == Spec => []TypeOK
<1>1. StateInv => TypeOK
  BY DEF StateInv
<1> QED BY <1>1, InitStateInv, NextStateInv, PTL DEF Spec

-----------------------------------------------------------------------------
(* A card is in a loopback only at the steps between the two changes of    *)
(* its configuration.                                                      *)
LoopSteps == {"clear", "write", "read", "restore"}

NormInv ==
    \A c \in Card : config[c] \notin {"normal", "none"} /\ ~aborted[c]
                        => todo # <<>> /\ card = c /\ step \in LoopSteps

(* What the end of the process leaves of a procedure is marked.            *)
LEMMA EndMarks ==
    ASSUME TypeOK, End, NEW c \in Card
    PROVE  /\ aborted[c] => aborted'[c]
           /\ todo # <<>> /\ card = c /\ step \in LoopSteps => aborted'[c]
           /\ todo' = <<>> /\ step' = "idle" /\ UNCHANGED cards
<1>1. /\ aborted' = [d \in Card |-> aborted[d] \/ InProcedure(d)] /\ UNCHANGED cards
      /\ Begin(<<>>)
  BY DEF End
<1>2. todo' = <<>> /\ step' = "idle"
  BY <1>1 DEF Begin, FirstStep
<1>3. aborted'[c] = (aborted[c] \/ InProcedure(c))
  BY <1>1
<1>4. card = c /\ step \in LoopSteps => InProcedure(c)
  BY DEF InProcedure, LoopSteps
<1> QED BY <1>1, <1>2, <1>3, <1>4

LEMMA InitNormInv == Init => NormInv
BY DEF Init, NormInv

LEMMA NextNormInv == TypeOK /\ NormInv /\ [Next]_vars => NormInv'
<1> SUFFICES ASSUME TypeOK, NormInv, [Next]_vars PROVE NormInv'
  OBVIOUS
<1>0. /\ config \in [Card -> Config] /\ aborted \in [Card -> BOOLEAN]
      /\ step \in JobSteps <=> todo # <<>>
  BY DEF TypeOK, JobSteps
<1>1. ASSUME step \notin LoopSteps, UNCHANGED <<config, aborted>> PROVE NormInv'
  BY <1>1 DEF NormInv
<1>2. CASE OptTest \/ SfpArm \/ SfpProg \/ SfpReset \/ Ignored \/ RunStop \/ RunStart
  BY <1>1, <1>2 DEF OptTest, SfpArm, SfpProg, SfpReset, Ignored, RunStop, RunStart, Receive,
     At, cards, history, LoopSteps
<1>3. CASE RunStopTwice \/ Die \/ ProgramNoFile \/ ScanNoFile
  <2>1. End
    BY <1>3 DEF RunStopTwice, Die, ProgramNoFile, ScanNoFile
  <2> QED BY <2>1, EndMarks DEF NormInv, cards
<1>4. CASE Configure
  <2>1. /\ step = "config" /\ step' = "clear" /\ UNCHANGED <<todo, aborted>>
        /\ \A c \in Card : c # card => config'[c] = config[c]
    BY <1>0, <1>4 DEF Configure, Told, At, history
  <2>2. todo # <<>> /\ step \notin LoopSteps /\ step' \in LoopSteps /\ card' = card
    BY <1>0, <2>1 DEF JobSteps, LoopSteps, card, job
  <2> QED BY <2>1, <2>2 DEF NormInv
<1>5. CASE Clear \/ WriteBurst \/ ReadBurst
  <2>1. step \in LoopSteps /\ step' \in LoopSteps /\ UNCHANGED <<todo, config, aborted>>
    BY <1>5 DEF Clear, WriteBurst, ReadBurst, At, LoopSteps, history
  <2> QED BY <2>1 DEF NormInv, card, job
<1>6. CASE Restore \/ Program
  <2>1. /\ card \in Card => config'[card] \in {"normal", "none"}
        /\ \A c \in Card : c # card => config'[c] = config[c] /\ aborted'[c] = aborted[c]
    BY <1>0, <1>6 DEF Restore, Program, Told
  <2>2. \A c \in Card : c # card => config[c] \in {"normal", "none"} \/ aborted[c]
    BY DEF NormInv
  <2> QED BY <2>1, <2>2 DEF NormInv
<1>7. CASE OpenFile \/ Truncate \/ Flush
  BY <1>1, <1>7 DEF OpenFile, Truncate, Flush, At, cards, history, LoopSteps
<1>8. CASE Restart \/ Enter \/ Leave \/ \E c \in Card : Dump(c) \/ Arrive(c)
  <2>1. UNCHANGED <<thread, config, aborted>>
    BY <1>8 DEF Restart, Enter, Leave, Dump, Arrive, cards, history
  <2> QED BY <2>1 DEF NormInv, thread, card, job
<1>9. CASE UNCHANGED vars
  BY <1>9 DEF vars, thread, cards, history, NormInv, card, job
<1> QED BY <1>2, <1>3, <1>4, <1>5, <1>6, <1>7, <1>8, <1>9 DEF Next, Command, Procedure

\* Between procedures no card is in a loopback (NormalWhenIdle), whatever tests
\* failed and whatever other cards did (command.cc:212-318, 404-446), but for
\* the card the process ended with.
THEOREM HandlerLeavesCardsNormal == Spec => []NormalWhenIdle
<1>1. NormInv => NormalWhenIdle
  BY DEF NormInv, NormalWhenIdle, UnderWay
<1> QED BY <1>1, HandlerTypeCorrect, InitNormInv, NextNormInv, PTL DEF Spec

-----------------------------------------------------------------------------
(* Test words are in a FIFO only between a burst and its reading: a closed *)
(* loop returns no more than is read, and an open one nothing.             *)
NoTest(c) == ~Contains(fifo[c], "test")

BurstInv ==
    /\ step \in LoopSteps => config[card] # "normal"
    /\ step = "write" => Len(fifo[card]) = 0 \/ (~Closed /\ NoTest(card))
    /\ step = "read" => (Closed /\ Len(fifo[card]) <= Burst) \/ (~Closed /\ NoTest(card))
    /\ step = "restore" => NoTest(card)

WordInv ==
    /\ BurstInv
    /\ \A c \in Card : NoTest(c) \/ aborted[c] \/ (todo # <<>> /\ card = c /\ step = "read")

LEMMA EmptyNoTest ==
    ASSUME NEW w \in Words, Len(w) = 0
    PROVE  ~Contains(w, "test")
BY DEF Contains, Words

LEMMA InitWordInv == Init => WordInv
<1> SUFFICES ASSUME Init PROVE WordInv
  OBVIOUS
<1>1. step = "idle" /\ \A c \in Card : fifo[c] = <<>>
  BY DEF Init
<1>2. \A c \in Card : NoTest(c)
  BY <1>1, Empty, EmptyNoTest DEF NoTest, Words
<1> QED BY <1>1, <1>2 DEF WordInv, BurstInv, LoopSteps

LEMMA NextWordInv == StateInv /\ WordInv /\ [Next]_vars => WordInv'
<1> SUFFICES ASSUME StateInv, WordInv, [Next]_vars PROVE WordInv'
  OBVIOUS
<1>0. /\ TypeOK /\ ProcedureFits
      /\ config \in [Card -> Config] /\ aborted \in [Card -> BOOLEAN]
      /\ fifo \in [Card -> Words]
      /\ step \in JobSteps <=> todo # <<>>
      /\ Burst \in Nat
  BY ConstantsAssumption DEF StateInv, TypeOK, JobSteps, Words
<1>1. \A c \in Card : NoTest(c) \/ aborted[c] \/ (todo # <<>> /\ card = c /\ step = "read")
  BY DEF WordInv
<1>2. CASE \/ OptTest \/ SfpArm \/ SfpProg \/ Ignored \/ RunStop \/ RunStart
           \/ OpenFile \/ Truncate \/ Flush
  <2>1. /\ step # "read" /\ UNCHANGED <<fifo, aborted>>
        /\ step' \notin LoopSteps
    <3>1. CASE OptTest \/ SfpArm \/ SfpProg
      <4>1. step' \in {"idle", "config", "open"}
        BY <3>1, FirstStepOf DEF OptTest, SfpArm, SfpProg, Begin
      <4> QED BY <3>1, <4>1 DEF OptTest, SfpArm, SfpProg, Receive, At, cards, LoopSteps
    <3>2. CASE Ignored \/ RunStop \/ RunStart
      BY <3>2 DEF Ignored, RunStop, RunStart, Receive, At, thread, cards, history, LoopSteps
    <3>3. CASE OpenFile \/ Truncate \/ Flush
      BY <3>3 DEF OpenFile, Truncate, Flush, At, cards, history, LoopSteps
    <3> QED BY <1>2, <3>1, <3>2, <3>3
  <2> QED BY <1>1, <2>1 DEF WordInv, BurstInv, NoTest, LoopSteps
<1>3. CASE SfpReset
  <2>1. /\ step = "idle" /\ step' = "idle" /\ \A c \in Card : fifo'[c] = <<>>
    BY <1>3 DEF SfpReset, Receive, At, thread
  <2>2. \A c \in Card : NoTest(c)'
    BY <2>1, Empty, EmptyNoTest DEF NoTest, Words
  <2> QED BY <2>1, <2>2 DEF WordInv, BurstInv, LoopSteps
<1>4. CASE RunStopTwice \/ Die \/ ProgramNoFile \/ ScanNoFile
  <2>1. End
    BY <1>4 DEF RunStopTwice, Die, ProgramNoFile, ScanNoFile
  <2>2. \A c \in Card : (NoTest(c) \/ aborted[c])'
    BY <1>0, <1>1, <2>1, EndMarks DEF NoTest, cards, LoopSteps
  <2>3. step' = "idle"
    BY <2>1 DEF End, Begin, FirstStep
  <2> QED BY <2>2, <2>3 DEF WordInv, BurstInv, LoopSteps
<1>5. CASE Configure
  <2>1. /\ step = "config" /\ step' = "clear" /\ UNCHANGED <<todo, aborted, fifo>>
        /\ config' = [config EXCEPT ![card] = IF @ = "none" THEN @ ELSE
              IF job.proc = "phase" THEN "loop1" ELSE <<"loop1", "loop2", "loop3">>[job.loop]]
    BY <1>5 DEF Configure, Told, At, history
  <2>2. card \in Card /\ card' = card
    BY <1>0, <2>1, JobCard DEF TypeOK, JobSteps, card, job
  <2>3. config'[card] # "normal"
    <3>1. job.proc # "phase" => job.loop \in 1..3
      BY <1>0, <2>1, JobCard DEF TypeOK, JobSteps, ProcedureFits, TestSteps
    <3>2. CASE job.proc = "phase"
      BY <1>0, <2>1, <2>2, <3>2
    <3>3. CASE job.proc # "phase"
      <4>1. job.loop = 1 \/ job.loop = 2 \/ job.loop = 3
        BY <3>1, <3>3
      <4> QED BY <1>0, <2>1, <2>2, <3>3, <4>1
    <3> QED BY <3>2, <3>3
  <2> QED BY <1>1, <2>1, <2>2, <2>3 DEF WordInv, BurstInv, NoTest, LoopSteps
<1>6. CASE Clear
  <2>1. /\ step = "clear" /\ step' = "write" /\ UNCHANGED <<todo, aborted, config>>
        /\ fifo' = [fifo EXCEPT ![card] = <<>>]
    BY <1>6 DEF Clear, At, history
  <2>2. card \in Card /\ card' = card
    BY <1>0, <2>1, JobCard DEF TypeOK, JobSteps, card, job
  <2>3. fifo'[card] = <<>> /\ Len(fifo'[card]) = 0
    BY <1>0, <2>1, <2>2
  <2>4. NoTest(card)'
    BY <2>2, <2>3, Empty, EmptyNoTest DEF NoTest, Words
  <2>5. config[card] # "normal"
    BY <2>1 DEF WordInv, BurstInv, LoopSteps
  <2>6. \A c \in Card : c # card => NoTest(c)' = NoTest(c)
    BY <1>0, <2>1 DEF NoTest
  <2> QED BY <1>1, <2>1, <2>2, <2>3, <2>4, <2>5, <2>6 DEF WordInv, BurstInv
<1>7. CASE WriteBurst
  <2>1. /\ step = "write" /\ step' = "read" /\ UNCHANGED <<todo, aborted, config>>
    BY <1>7 DEF WriteBurst, At, history
  <2>2. card \in Card /\ card' = card /\ todo # <<>> /\ Closed' = Closed
    BY <1>0, <2>1, JobCard DEF TypeOK, JobSteps, card, job, Closed
  <2>3. PICK n \in Returned : fifo' = [fifo EXCEPT ![card] = @ \o [k \in 1..n |-> "test"]]
    BY <1>7 DEF WriteBurst
  <2>4. n \in Nat /\ n <= Burst /\ (~Closed => n = 0) /\ fifo[card] \in Words
    BY <1>0, <2>2 DEF Returned
  <2>5. /\ Len(fifo'[card]) = Len(fifo[card]) + n
        /\ n = 0 => fifo'[card] = fifo[card]
    BY <1>0, <2>2, <2>3, <2>4, BurstOf
  <2>6. (Closed /\ Len(fifo'[card]) <= Burst) \/ (~Closed /\ NoTest(card)')
    <3>1. CASE Closed
      BY <1>0, <2>1, <2>4, <2>5, <3>1 DEF WordInv, BurstInv
    <3>2. CASE ~Closed
      <4>1. NoTest(card)
        BY <2>1, <2>4, <3>2, EmptyNoTest DEF WordInv, BurstInv, NoTest
      <4> QED BY <2>2, <2>4, <2>5, <3>2, <4>1 DEF NoTest
    <3> QED BY <3>1, <3>2
  <2>7. config[card] # "normal"
    BY <2>1 DEF WordInv, BurstInv, LoopSteps
  <2>8. \A c \in Card : c # card => NoTest(c)' = NoTest(c)
    BY <1>0, <2>3 DEF NoTest
  <2> QED BY <1>1, <2>1, <2>2, <2>6, <2>7, <2>8 DEF WordInv, BurstInv
<1>8. CASE ReadBurst
  <2>1. /\ step = "read" /\ step' \in {"write", "restore"}
        /\ fifo' = [fifo EXCEPT ![card] = SubSeq(@, Burst + 1, Len(@))]
        /\ UNCHANGED <<todo, aborted, config>>
    BY <1>8 DEF ReadBurst, At, history
  <2>2. card \in Card /\ card' = card /\ Closed' = Closed
    BY <1>0, <2>1, JobCard DEF TypeOK, JobSteps, card, job, Closed
  <2>3. /\ fifo[card] \in Words /\ fifo'[card] \in Words
        /\ Len(fifo'[card]) = IF Burst < Len(fifo[card]) THEN Len(fifo[card]) - Burst ELSE 0
        /\ NoTest(card) => NoTest(card)'
    <3>1. fifo[card] \in Words
      BY <1>0, <2>2
    <3>2. fifo'[card] = SubSeq(fifo[card], Burst + 1, Len(fifo[card]))
      BY <1>0, <2>1, <2>2
    <3>3. Contains(fifo'[card], "test") => Contains(fifo[card], "test")
      <4>1. Contains(SubSeq(fifo[card], Burst + 1, Len(fifo[card])), "test")
                => Contains(fifo[card], "test")
        BY <1>0, <3>1, Cut, Zenon
      <4> QED BY <3>2, <4>1, Zenon
    <3>4. /\ fifo'[card] \in Words
          /\ Len(fifo'[card]) = IF Burst < Len(fifo[card]) THEN Len(fifo[card]) - Burst ELSE 0
      BY <1>0, <3>1, <3>2, Cut
    <3> QED BY <2>2, <3>1, <3>3, <3>4 DEF NoTest
  <2>4. NoTest(card)' /\ (Len(fifo'[card]) = 0 \/ ~Closed)
    <3>1. CASE Closed
      <4>1. Len(fifo[card]) <= Burst /\ Len(fifo[card]) \in Nat
        BY <2>1, <2>3, <3>1 DEF WordInv, BurstInv, Words
      <4>2. Len(fifo'[card]) = 0
        BY <1>0, <2>3, <4>1
      <4> QED BY <2>2, <2>3, <4>2, EmptyNoTest DEF NoTest
    <3>2. CASE ~Closed
      BY <2>1, <2>3, <3>2 DEF WordInv, BurstInv
    <3> QED BY <3>1, <3>2
  <2>5. config[card] # "normal"
    BY <2>1 DEF WordInv, BurstInv, LoopSteps
  <2>6. \A c \in Card : c # card => NoTest(c)' = NoTest(c)
    BY <1>0, <2>1 DEF NoTest
  <2>7. BurstInv'
    BY <2>1, <2>2, <2>4, <2>5 DEF BurstInv
  <2> QED BY <1>1, <2>1, <2>2, <2>4, <2>6, <2>7 DEF WordInv
<1>9. CASE Restore \/ Program
  <2>1. /\ step \in {"restore", "open"} /\ step' \in {"idle", "config", "open"}
        /\ UNCHANGED fifo
    BY <1>9, FirstStepOf DEF Restore, Program, At, Begin
  <2>2. card \in Card
    BY <1>0, <2>1, JobCard DEF TypeOK, JobSteps
  <2>3. \A c \in Card : NoTest(c)' = NoTest(c)
    BY <2>1 DEF NoTest
  <2>4. \A c \in Card : NoTest(c)' \/ aborted'[c]
    <3>1. CASE Restore
      <4>1. NoTest(card)
        BY <3>1 DEF Restore, At, WordInv, BurstInv
      <4>2. \A c \in Card : c # card => aborted'[c] = aborted[c]
        BY <1>0, <3>1 DEF Restore
      <4> QED BY <1>1, <2>1, <2>3, <4>1, <4>2
    <3>2. CASE Program
      BY <1>1, <2>1, <2>3, <3>2 DEF Program
    <3> QED BY <1>9, <3>1, <3>2
  <2> QED BY <2>1, <2>4 DEF WordInv, BurstInv, LoopSteps
<1>10. CASE Restart \/ Enter \/ Leave \/ UNCHANGED vars
  <2>1. UNCHANGED <<thread, config, fifo, aborted>>
    BY <1>10 DEF Restart, Enter, Leave, cards, history, vars
  <2> QED BY <2>1 DEF WordInv, BurstInv, NoTest, Closed, thread, card, job
<1>11. ASSUME NEW c \in Card, Dump(c) \/ Arrive(c) PROVE WordInv'
  <2>1. UNCHANGED <<thread, config, aborted>> /\ card' = card /\ Closed' = Closed
    BY <1>11 DEF Dump, Arrive, cards, history, thread, card, job, Closed
  <2>2. /\ \A d \in Card : d # c => fifo'[d] = fifo[d]
        /\ fifo[c] \in Words
    BY <1>0, <1>11 DEF Dump, Arrive
  <2>3. NoTest(c) => ~Contains(fifo'[c], "test")
    <3>1. CASE Dump(c)
      <4>1. PICK n \in DOMAIN fifo[c] :
                fifo' = [fifo EXCEPT ![c] = SubSeq(@, n + 1, Len(@))]
        BY <3>1 DEF Dump
      <4>2. n \in Nat
        BY <2>2 DEF Words
      <4> QED BY <1>0, <2>2, <4>1, <4>2, Cut DEF NoTest
    <3>2. CASE Arrive(c)
      BY <1>0, <2>2, <3>2, EventAppended DEF Arrive, NoTest
    <3> QED BY <1>11, <3>1, <3>2
  <2>4. Len(fifo'[c]) <= Len(fifo[c]) \/ (config[c] \in {"normal", "loop3"} /\ c \notin Cabled)
    <3>1. CASE Dump(c)
      <4>1. PICK n \in DOMAIN fifo[c] :
                fifo' = [fifo EXCEPT ![c] = SubSeq(@, n + 1, Len(@))]
        BY <3>1 DEF Dump
      <4>2. n \in Nat /\ Len(fifo[c]) \in Nat
        BY <2>2 DEF Words
      <4>3. Len(fifo'[c]) = IF n < Len(fifo[c]) THEN Len(fifo[c]) - n ELSE 0
        BY <1>0, <2>2, <4>1, <4>2, Cut
      <4> QED BY <4>2, <4>3
    <3>2. CASE Arrive(c)
      BY <3>2 DEF Arrive
    <3> QED BY <1>11, <3>1, <3>2
  <2>5. /\ Len(fifo[c]) \in Nat /\ Len(fifo'[c]) \in Nat
    <3>1. fifo'[c] \in Words
      BY <1>0, <1>11, NextStateInv DEF StateInv, TypeOK, Words
    <3> QED BY <2>2, <3>1 DEF Words
  <2>6. BurstInv'
    <3>1. CASE card = c /\ step \in LoopSteps
      <4>1. config[card] # "normal"
        BY <3>1 DEF WordInv, BurstInv
      <4>2. Len(fifo'[card]) <= Len(fifo[card]) \/ ~Closed
        BY <2>4, <3>1, <4>1 DEF Closed
      <4>3. step = "write" => Len(fifo'[card]) = 0 \/ (~Closed /\ NoTest(card)')
        <5> SUFFICES ASSUME step = "write"
                     PROVE  Len(fifo'[card]) = 0 \/ (~Closed /\ NoTest(card)')
          OBVIOUS
        <5>1. NoTest(c)
          BY <2>2, <3>1, EmptyNoTest DEF WordInv, BurstInv, NoTest
        <5> QED BY <2>1, <2>3, <2>5, <3>1, <4>2, <5>1 DEF WordInv, BurstInv, NoTest
      <4>4. step = "read" => (Closed /\ Len(fifo'[card]) <= Burst)
                             \/ (~Closed /\ NoTest(card)')
        BY <1>0, <2>1, <2>3, <2>5, <3>1, <4>2 DEF WordInv, BurstInv, NoTest
      <4>5. step = "restore" => NoTest(card)'
        BY <2>1, <2>3, <3>1 DEF WordInv, BurstInv, NoTest
      <4> QED BY <2>1, <4>1, <4>3, <4>4, <4>5 DEF BurstInv, thread
    <3>2. CASE step \notin LoopSteps
      BY <2>1, <3>2 DEF BurstInv, thread, LoopSteps
    <3>3. CASE card # c /\ step \in LoopSteps
      <4>1. card \in Card
        BY <1>0, <3>3, JobCard DEF TypeOK, JobSteps, LoopSteps
      <4>2. fifo'[card] = fifo[card]
        BY <2>2, <3>3, <4>1
      <4> QED BY <2>1, <4>2 DEF WordInv, BurstInv, NoTest, thread
    <3> QED BY <3>1, <3>2, <3>3
  <2>7. \A d \in Card : NoTest(d)' \/ aborted[d] \/ (todo # <<>> /\ card = d /\ step = "read")
    BY <1>1, <2>2, <2>3 DEF NoTest
  <2> QED BY <2>1, <2>6, <2>7 DEF WordInv, thread
<1> QED BY <1>2, <1>3, <1>4, <1>5, <1>6, <1>7, <1>8, <1>9, <1>10, <1>11
        DEF Next, Command, Procedure

\* No test word is left in a FIFO for a run to find (NoTestWordsLeft), for every
\* length of the bursts, every loss on an unsound card and any reader thread
\* (command.cc:212-318), but for the card the process ended with.
THEOREM HandlerLeavesNoTestWords == Spec => []NoTestWordsLeft
<1>1. WordInv => NoTestWordsLeft
  BY DEF WordInv, NoTestWordsLeft, NoTest, UnderWay
<1>2. Spec => []StateInv
  BY InitStateInv, NextStateInv, PTL DEF Spec
<1> QED BY <1>1, <1>2, InitWordInv, NextWordInv, PTL DEF Spec

-----------------------------------------------------------------------------
(* What a closed loop of a sound card holds while nobody else reads it.    *)
FullBurst == [k \in 1..Burst |-> "test"]

PassInv ==
    /\ step \in {"config", "clear"} => ~failed
    /\ step \in {"write", "read", "restore"} /\ sound[card] /\ Closed /\ ~stolen
           => /\ ~failed
              /\ step = "write" => fifo[card] = <<>>
              /\ step = "read" => fifo[card] = FullBurst

(* A burst written into an empty FIFO fills it, and one reading empties it.*)
LEMMA BurstThrough ==
    /\ Len(FullBurst) = Burst
    /\ <<>> \o FullBurst = FullBurst
    /\ SubSeq(FullBurst, Burst + 1, Len(FullBurst)) = <<>>
<1>1. Burst \in Nat
  BY ConstantsAssumption
<1>2. FullBurst \in Words /\ Len(FullBurst) = Burst
  BY <1>1 DEF FullBurst, Words
<1>3. <<>> \o FullBurst = FullBurst
  BY <1>2, ConcatEmptySeq DEF Words
<1>4. SubSeq(FullBurst, Burst + 1, Len(FullBurst)) \in Words
      /\ Len(SubSeq(FullBurst, Burst + 1, Len(FullBurst))) = 0
  BY <1>1, <1>2, Cut
<1> QED BY <1>2, <1>3, <1>4, EmptySeq DEF Words

LEMMA InitPassInv == Init => PassInv
BY DEF Init, PassInv

LEMMA NextPassInv == StateInv /\ WordInv /\ PassInv /\ [Next]_vars => PassInv'
<1> SUFFICES ASSUME StateInv, WordInv, PassInv, [Next]_vars PROVE PassInv'
  OBVIOUS
<1>0. /\ TypeOK
      /\ config \in [Card -> Config] /\ fifo \in [Card -> Words] /\ sound \in [Card -> BOOLEAN]
      /\ failed \in BOOLEAN /\ stolen \in BOOLEAN
      /\ step \in JobSteps <=> todo # <<>>
      /\ Burst \in Nat
  BY ConstantsAssumption DEF StateInv, TypeOK, JobSteps, Words
<1>1. ASSUME step' \notin TestSteps PROVE PassInv'
  BY <1>1 DEF PassInv, TestSteps
<1>2. ASSUME NEW jobs, Begin(jobs) PROVE PassInv'
  <2>1. step' \in {"idle", "config", "open"} /\ ~failed'
    BY <1>2, FirstStepOf DEF Begin
  <2> QED BY <2>1 DEF PassInv
<1>3. CASE OptTest \/ SfpArm \/ SfpProg \/ RunStopTwice \/ Die \/ ProgramNoFile
           \/ ScanNoFile \/ Restore \/ Program
  <2>1. \E jobs : Begin(jobs)
    BY <1>3 DEF OptTest, SfpArm, SfpProg, RunStopTwice, Die, ProgramNoFile, ScanNoFile, Restore,
       Program, End
  <2> QED BY <1>2, <2>1
<1>4. CASE SfpReset \/ Ignored \/ RunStop \/ RunStart \/ OpenFile \/ Truncate \/ Flush
  <2>1. step' \notin TestSteps
    BY <1>4 DEF SfpReset, Ignored, RunStop, RunStart, OpenFile, Truncate, Flush, Receive, At,
       thread, TestSteps
  <2> QED BY <1>1, <2>1
<1>5. CASE Configure
  BY <1>5 DEF Configure, At, PassInv
<1>6. CASE Clear
  <2>1. /\ step = "clear" /\ step' = "write" /\ UNCHANGED <<todo, failed>>
        /\ fifo' = [fifo EXCEPT ![card] = <<>>]
    BY <1>6 DEF Clear, At
  <2>2. card \in Card /\ card' = card /\ ~failed
    BY <1>0, <2>1, JobCard DEF TypeOK, JobSteps, card, job, PassInv
  <2> QED BY <1>0, <2>1, <2>2 DEF PassInv
<1>7. CASE WriteBurst
  <2>1. /\ step = "write" /\ step' = "read"
        /\ UNCHANGED <<todo, failed, config, sound, stolen>>
    BY <1>7 DEF WriteBurst, At, history
  <2>2. card \in Card /\ card' = card /\ Closed' = Closed
    BY <1>0, <2>1, JobCard DEF TypeOK, JobSteps, card, job, Closed
  <2>3. ASSUME sound[card], Closed, ~stolen PROVE ~failed /\ fifo'[card] = FullBurst
    <3>1. ~failed /\ fifo[card] = <<>>
      BY <2>1, <2>3 DEF PassInv
    <3>2. Returned = {Burst}
      BY <2>3 DEF Returned
    <3>3. fifo'[card] = fifo[card] \o FullBurst
      BY <1>0, <1>7, <2>2, <3>2 DEF WriteBurst, FullBurst
    <3> QED BY <3>1, <3>3, BurstThrough
  <2> QED BY <2>1, <2>2, <2>3 DEF PassInv
<1>8. CASE ReadBurst
  <2>1. /\ step = "read" /\ step' \in {"write", "restore"}
        /\ UNCHANGED <<todo, config, sound, stolen>>
        /\ fifo' = [fifo EXCEPT ![card] = SubSeq(@, Burst + 1, Len(@))]
    BY <1>8 DEF ReadBurst, At, history
  <2>2. card \in Card /\ card' = card /\ Closed' = Closed
    BY <1>0, <2>1, JobCard DEF TypeOK, JobSteps, card, job, Closed
  <2>3. ASSUME sound[card], Closed, ~stolen PROVE ~failed' /\ fifo'[card] = <<>>
    <3>1. ~failed /\ fifo[card] = FullBurst
      BY <2>1, <2>3 DEF PassInv
    <3>2. failed' = failed
      BY <1>8, <2>3, <3>1 DEF ReadBurst, FullBurst
    <3> QED BY <1>0, <2>1, <2>2, <3>1, <3>2, BurstThrough
  <2> QED BY <2>1, <2>2, <2>3 DEF PassInv
<1>9. CASE Restart \/ Enter \/ Leave \/ UNCHANGED vars
  <2>1. UNCHANGED <<thread, config, fifo, sound, stolen>>
    BY <1>9 DEF Restart, Enter, Leave, cards, history, vars
  <2> QED BY <2>1 DEF PassInv, Closed, thread, card, job
<1>10. ASSUME NEW c \in Card, Dump(c) PROVE PassInv'
  <2>1. /\ UNCHANGED <<thread, config, sound>> /\ card' = card /\ Closed' = Closed
        /\ stolen' = (stolen \/ (step = "read" /\ c = card))
    BY <1>10 DEF Dump, thread, card, job, Closed
  <2>2. PICK n \in DOMAIN fifo[c] : fifo' = [fifo EXCEPT ![c] = SubSeq(@, n + 1, Len(@))]
    BY <1>10 DEF Dump
  <2>3. fifo[c] # <<>>
    BY <2>2
  <2>4. \A d \in Card : d # c => fifo'[d] = fifo[d]
    BY <1>0, <2>2
  <2>5. ASSUME step \in {"write", "read", "restore"}, sound[card], Closed, ~stolen'
        PROVE  /\ ~failed
               /\ step = "write" => fifo'[card] = <<>>
               /\ step = "read" => fifo'[card] = FullBurst
    <3>1. card \in Card /\ ~stolen /\ ~(step = "read" /\ c = card)
      BY <1>0, <2>1, <2>5, JobCard DEF TypeOK, JobSteps
    <3> QED BY <2>3, <2>4, <2>5, <3>1 DEF PassInv
  <2> QED BY <2>1, <2>5 DEF PassInv, thread
<1>11. ASSUME NEW c \in Card, Arrive(c) PROVE PassInv'
  <2>1. /\ UNCHANGED <<thread, config, sound, stolen>> /\ card' = card /\ Closed' = Closed
        /\ config[c] \in {"normal", "loop3"} /\ c \notin Cabled
        /\ \A d \in Card : d # c => fifo'[d] = fifo[d]
    BY <1>0, <1>11 DEF Arrive, history, thread, card, job, Closed
  <2>2. ASSUME step \in {"write", "read", "restore"}, Closed
        PROVE  fifo'[card] = fifo[card]
    <3>1. card \in Card
      BY <1>0, <2>2, JobCard DEF TypeOK, JobSteps
    <3>2. card # c
      BY <2>1, <2>2 DEF WordInv, BurstInv, LoopSteps, Closed
    <3> QED BY <2>1, <3>1, <3>2
  <2> QED BY <2>1, <2>2 DEF PassInv, thread
<1> QED BY <1>3, <1>4, <1>5, <1>6, <1>7, <1>8, <1>9, <1>10, <1>11 DEF Next, Command, Procedure

\* A sound card fails a test only if the reader thread emptied its FIFO during
\* a burst (SoundCardPasses), for every number of patterns and every length of
\* the bursts (command.cc:212-318).
THEOREM HandlerPassesSoundCards == Spec => []SoundCardPasses
<1>1. PassInv => SoundCardPasses
  BY DEF PassInv, SoundCardPasses
<1>2. Spec => []StateInv
  BY InitStateInv, NextStateInv, PTL DEF Spec
<1>3. Spec => []WordInv
  BY <1>2, InitWordInv, NextWordInv, PTL DEF Spec
<1> QED BY <1>1, <1>2, <1>3, InitPassInv, NextPassInv, PTL DEF Spec
=============================================================================
