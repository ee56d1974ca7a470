---------------------------- MODULE ReadoutProofs ----------------------------
(***************************************************************************)
(* Theorems about the composed data acquisition: minidaq.py, the two       *)
(* subevent builders, trdboxd and the detector, for every size of events,  *)
(* buffers and FIFOs and every number of events and pretriggers.           *)
(*                                                                         *)
(* The invariants are layered.  Base holds the types and the request-reply *)
(* protocols; on top of it Counting bounds the pretriggers ahead of the    *)
(* file, Streams follows every dword from the detector to the file, and    *)
(* InStep follows the event of the newest pretrigger.  From Streams the    *)
(* histories of LogicboxProxy are computed, and with them the two          *)
(* refinements.  A FlattenSeq over the written events is unfolded by a     *)
(* least counterexample (LeastOne) instead of an induction principle.      *)
(***************************************************************************)
EXTENDS Readout, SequenceTheorems, WellFoundedInduction, TLAPS

Less == {p \in Nat \X Nat : p[1] < p[2]}

(* < on the naturals, as a relation that WFMin takes.                      *)
LEMMA LessWellFounded == IsWellFoundedOn(Less, Nat)
BY NatLessThanWellFounded, SMT DEF OpToRel, Less

(* Induction, as the least counterexample.                                 *)
LEMMA LeastOne ==
    ASSUME NEW T \in SUBSET Nat, T # {}
    PROVE  \E n \in T : \A m \in T : ~(m < n)
<1>1. \E n \in T : \A m \in T : ~(<<m, n>> \in Less)
  BY LessWellFounded, WFMin
<1> QED BY <1>1 DEF Less

(* What the LET of FlattenSeq defines.                                     *)
Flattens(g, ss, n) ==
    g = [i \in 1..n |-> IF i = 1 THEN ss[i] ELSE g[i - 1] \o ss[i]]

(* Such a function exists for every number of sequences.                   *)
LEMMA FlattensExists ==
    ASSUME NEW S, NEW ss \in Seq(Seq(S)), NEW n \in Nat
    PROVE  \E g : Flattens(g, ss, n)
<1> DEFINE T == {k \in Nat : ~ \E g : Flattens(g, ss, k)}
<1>1. SUFFICES ASSUME T # {} PROVE FALSE
  OBVIOUS
<1>2. PICK k \in T : \A m \in T : ~(m < k)
  BY <1>1, LeastOne
<1>3. k # 0
  <2>1. Flattens([i \in 1..0 |-> ss], ss, 0)
    BY DEF Flattens
  <2> QED BY <2>1, <1>2
<1>4. k - 1 \in Nat /\ k - 1 < k
  BY <1>3
<1>5. PICK g : Flattens(g, ss, k - 1)
  BY <1>2, <1>4
<1> DEFINE h == [i \in 1..k |-> IF i < k THEN g[i]
                                ELSE IF k = 1 THEN ss[1] ELSE g[k - 1] \o ss[k]]
<1>6. \A i \in 1..k : h[i] = IF i = 1 THEN ss[i] ELSE h[i - 1] \o ss[i]
  <2> TAKE i \in 1..k
  <2>1. CASE i < k
    <3>1. i \in 1..(k - 1) /\ (i # 1 => i - 1 \in 1..k /\ i - 1 < k)
      BY <2>1
    <3>2. g[i] = IF i = 1 THEN ss[i] ELSE g[i - 1] \o ss[i]
      BY <1>5, <3>1 DEF Flattens
    <3> QED BY <2>1, <3>1, <3>2
  <2>2. CASE i = k
    <3>1. i # 1 => i - 1 \in 1..k /\ i - 1 < k
      BY <2>2
    <3> QED BY <2>2, <3>1
  <2> QED BY <2>1, <2>2
<1>7. Flattens(h, ss, k)
  <2> HIDE DEF h
  <2>1. h = [i \in 1..k |-> h[i]]
    BY DEF h
  <2> QED BY <1>6, <2>1 DEF Flattens
<1> QED BY <1>2, <1>7

(* FlattenSeq is what it defines, at the last position.                    *)
LEMMA FlattenSeqDef ==
    ASSUME NEW S, NEW ss \in Seq(Seq(S)), Len(ss) # 0
    PROVE  \E g : Flattens(g, ss, Len(ss)) /\ FlattenSeq(ss) = g[Len(ss)]
<1> DEFINE g == CHOOSE g : Flattens(g, ss, Len(ss))
<1>1. Flattens(g, ss, Len(ss))
  BY FlattensExists
<1>2. FlattenSeq(ss) = g[Len(ss)]
  BY DEF FlattenSeq, Flattens
<1> QED BY <1>1, <1>2

(* Nothing flattened is nothing.                                           *)
LEMMA FlattenSeqEmpty == FlattenSeq(<<>>) = <<>>
BY DEF FlattenSeq

(* Appending a sequence to those that are flattened appends it at the end. *)
LEMMA FlattenSeqAppend ==
    ASSUME NEW S, NEW ss \in Seq(Seq(S)), NEW x \in Seq(S)
    PROVE  /\ FlattenSeq(ss) \in Seq(S)
           /\ FlattenSeq(Append(ss, x)) = FlattenSeq(ss) \o x
<1> DEFINE tt == Append(ss, x)
           n == Len(ss)
<1>1. /\ tt \in Seq(Seq(S)) /\ Len(tt) = n + 1 /\ n \in Nat /\ Len(tt) # 0
      /\ \A i \in 1..n : tt[i] = ss[i]
      /\ tt[n + 1] = x
  BY AppendProperties
<1> HIDE DEF tt
<1>2. PICK h : Flattens(h, tt, Len(tt)) /\ FlattenSeq(tt) = h[Len(tt)]
  BY <1>1, FlattenSeqDef
<1>3. h[n + 1] = IF n + 1 = 1 THEN tt[n + 1] ELSE h[(n + 1) - 1] \o tt[n + 1]
  <2>1. n + 1 \in 1..Len(tt)
    BY <1>1
  <2> QED BY <1>2, <2>1 DEF Flattens
<1>4. CASE n = 0
  <2>1. ss = <<>> /\ FlattenSeq(ss) = <<>>
    BY <1>4, FlattenSeqEmpty, EmptySeq
  <2>2. FlattenSeq(tt) = x
    BY <1>1, <1>2, <1>3, <1>4
  <2> QED BY <2>1, <2>2, ConcatEmptySeq, EmptySeq DEF tt
<1>5. CASE n # 0
  <2>1. PICK g : Flattens(g, ss, n) /\ FlattenSeq(ss) = g[n]
    BY <1>5, FlattenSeqDef
  <2>2. \A i \in 1..n : g[i] \in Seq(S) /\ h[i] = g[i]
    <3> DEFINE T == {k \in 1..n : ~(g[k] \in Seq(S) /\ h[k] = g[k])}
    <3>1. SUFFICES ASSUME T # {} PROVE FALSE
      OBVIOUS
    <3>2. T \in SUBSET Nat
      OBVIOUS
    <3>3. PICK k \in T : \A i \in T : ~(i < k)
      <4> HIDE DEF T
      <4> QED BY <3>1, <3>2, LeastOne
    <3>4. k \in 1..n /\ k \in 1..Len(tt)
      BY <1>1
    <3>5. /\ g[k] = IF k = 1 THEN ss[k] ELSE g[k - 1] \o ss[k]
          /\ h[k] = IF k = 1 THEN tt[k] ELSE h[k - 1] \o tt[k]
      BY <1>2, <2>1, <3>4 DEF Flattens
    <3>6. ss[k] \in Seq(S) /\ tt[k] = ss[k]
      BY <1>1, <3>4
    <3>7. CASE k = 1
      BY <3>5, <3>6, <3>7
    <3>8. CASE k # 1
      <4>1. k - 1 \in 1..n /\ k - 1 < k
        BY <3>4, <3>8
      <4>2. g[k - 1] \in Seq(S) /\ h[k - 1] = g[k - 1]
        BY <3>3, <4>1
      <4> QED BY <3>5, <3>6, <3>8, <4>2, ConcatProperties
    <3> QED BY <3>7, <3>8
  <2>3. n \in 1..n /\ (n + 1) - 1 = n /\ n + 1 # 1
    BY <1>1, <1>5
  <2>4. FlattenSeq(ss) \in Seq(S) /\ h[n] = FlattenSeq(ss)
    BY <2>1, <2>2, <2>3
  <2> QED BY <1>1, <1>2, <1>3, <2>3, <2>4 DEF tt
<1> QED BY <1>4, <1>5

-----------------------------------------------------------------------------
(* Position k of period p + 1, when positions are counted from 1.          *)
LEMMA Division ==
    ASSUME NEW L \in Nat \ {0}, NEW p \in Nat, NEW k \in 1..L
    PROVE  /\ (p * L + k - 1) \div L = p
           /\ (p * L + k - 1) % L = k - 1
OBVIOUS

(* Of t periods, the period and the position of the k-th dword.            *)
LEMMA DivisionBounds ==
    ASSUME NEW L \in Nat \ {0}, NEW t \in Nat, NEW k \in 1..t * L
    PROVE  /\ 1 + (k - 1) \div L \in 1..t
           /\ 1 + ((k - 1) % L) \in 1..L
OBVIOUS

-----------------------------------------------------------------------------
(* What the assumption on the constants says.                              *)
LEMMA Constants ==
    /\ EventSize \in Nat \ {0} /\ EodRun \in Nat \ {0} /\ nevents \in Nat \ {0}
    /\ MaxTriggers \in Nat \ {0} /\ FifoBound \in Nat \ {0}
    /\ MaxPayload \in Nat \ {0} /\ FifoBound < MaxPayload
    /\ SFP = {0, 1}
BY ConstantsAssumption DEF SFP

(* The builders and the readout have the same dwords.                      *)
LEMMA SameWord == SB!Word = Word /\ EOD \in Word
BY DEF SB!Word, Word

(* An event is Period words, the marker behind the data.                   *)
LEMMA EventWords ==
    ASSUME eods \in 1..EodRun, NEW t \in 1..MaxTriggers
    PROVE  /\ Period \in Nat \ {0}
           /\ Event(t) \in Seq(Word)
           /\ Len(Event(t)) = Period
           /\ \A k \in 1..Period : (Event(t)[k] = EOD <=> k > EventSize)
<1>1. Period \in Nat \ {0}
  BY Constants DEF Period
<1>2. ASSUME NEW k \in 1..Period PROVE /\ Event(t)[k] \in Word
                                       /\ Event(t)[k] = EOD <=> k > EventSize
  <2>1. Event(t)[k] = IF k <= EventSize THEN <<t, k>> ELSE EOD
    BY DEF Event
  <2>2. k <= EventSize => <<t, k>> \in (1..MaxTriggers) \X (1..EventSize)
    BY Constants, <1>1
  <2> QED BY <1>1, <2>1, <2>2, Constants, ConstantsAssumption DEF Word
<1>3. Event(t) = [k \in 1..Period |-> Event(t)[k]]
  BY DEF Event
<1>4. Event(t) \in [1..Period -> Word]
  BY <1>2, <1>3
<1> QED BY <1>1, <1>2, <1>4

(* What was produced for t pretriggers is t periods of dwords.             *)
LEMMA ProducedWords ==
    ASSUME eods \in 1..EodRun, NEW t \in 0..MaxTriggers
    PROVE  /\ t * Period \in Nat
           /\ Produced(t) \in Seq(Word)
           /\ Len(Produced(t)) = t * Period
<1>1. Period \in Nat \ {0}
  BY Constants DEF Period
<1>2. t * Period \in Nat
  BY <1>1
<1>3. ASSUME NEW k \in 1..t * Period
      PROVE  Event(1 + (k - 1) \div Period)[1 + ((k - 1) % Period)] \in Word
  <2>1. 1 + (k - 1) \div Period \in 1..t /\ 1 + ((k - 1) % Period) \in 1..Period
    BY <1>1, DivisionBounds
  <2>2. 1 + (k - 1) \div Period \in 1..MaxTriggers
    <3> DEFINE q == 1 + (k - 1) \div Period
    <3>1. q \in 1..t
      BY <2>1
    <3> HIDE DEF q
    <3>2. q \in 1..MaxTriggers
      BY <3>1, Constants
    <3> QED BY <3>2 DEF q
  <2>3. /\ Event(1 + (k - 1) \div Period) \in Seq(Word)
        /\ Len(Event(1 + (k - 1) \div Period)) = Period
    BY <2>2, EventWords
  <2> QED BY <2>1, <2>3
<1>4. Produced(t) \in [1..t * Period -> Word]
  BY <1>3 DEF Produced
<1> HIDE DEF Produced
<1> QED BY <1>2, <1>4

(* Each pretrigger adds its event at the end.                              *)
LEMMA ProducedNext ==
    ASSUME eods \in 1..EodRun, NEW t \in 0..(MaxTriggers - 1)
    PROVE  Produced(t + 1) = Produced(t) \o Event(t + 1)
<1> DEFINE n == t * Period
<1>1. Period \in Nat \ {0} /\ t + 1 \in 0..MaxTriggers /\ t \in 0..MaxTriggers
      /\ t + 1 \in 1..MaxTriggers
  BY Constants DEF Period
<1>2. n \in Nat /\ (t + 1) * Period = n + Period
  BY <1>1
<1>3. /\ Produced(t) \in Seq(Word) /\ Len(Produced(t)) = n
      /\ Produced(t + 1) \in Seq(Word) /\ Len(Produced(t + 1)) = n + Period
      /\ Event(t + 1) \in Seq(Word) /\ Len(Event(t + 1)) = Period
  BY <1>1, <1>2, ProducedWords, EventWords
<1>4. /\ Produced(t) \o Event(t + 1) \in Seq(Word)
      /\ Len(Produced(t) \o Event(t + 1)) = n + Period
      /\ \A k \in 1..n + Period : (Produced(t) \o Event(t + 1))[k] =
            IF k <= n THEN Produced(t)[k] ELSE Event(t + 1)[k - n]
  <2> DEFINE u == Produced(t)
             v == Event(t + 1)
  <2>1. u \in Seq(Word) /\ Len(u) = n /\ v \in Seq(Word) /\ Len(v) = Period
    BY <1>3
  <2> HIDE DEF u, v, n
  <2>2. /\ u \o v \in Seq(Word)
        /\ Len(u \o v) = n + Period
        /\ \A k \in 1..n + Period : (u \o v)[k] = IF k <= n THEN u[k] ELSE v[k - n]
    BY <2>1, ConcatProperties
  <2> QED BY <2>2 DEF u, v
<1>5. ASSUME NEW k \in 1..n + Period
      PROVE  Produced(t + 1)[k] = (Produced(t) \o Event(t + 1))[k]
  <2>1. Produced(t + 1)[k] = Event(1 + (k - 1) \div Period)[1 + ((k - 1) % Period)]
    BY <1>2 DEF Produced
  <2>2. CASE k <= n
    <3>1. Produced(t)[k] = Event(1 + (k - 1) \div Period)[1 + ((k - 1) % Period)]
      BY <1>2, <2>2 DEF Produced
    <3> QED BY <1>4, <2>1, <2>2, <3>1
  <2>3. CASE ~(k <= n)
    <3> DEFINE j == k - n
    <3>1. j \in 1..Period /\ k = n + j
      BY <1>1, <1>2, <2>3
    <3>2. (n + j - 1) \div Period = t /\ (n + j - 1) % Period = j - 1
      BY <1>1, <3>1, Division
    <3>3. 1 + (k - 1) \div Period = t + 1 /\ 1 + ((k - 1) % Period) = k - n
      BY <1>1, <1>2, <3>1, <3>2
    <3> QED BY <1>4, <2>1, <2>3, <3>3
  <2> QED BY <2>2, <2>3
<1> HIDE DEF n
<1> QED BY <1>3, <1>4, <1>5, SeqEqual

(* Before the first pretrigger nothing is produced.                        *)
LEMMA ProducedNothing ==
    ASSUME eods \in 1..EodRun
    PROVE  Produced(0) = <<>>
<1>1. 0 \in 0..MaxTriggers /\ 0 * Period = 0
  BY Constants DEF Period
<1> QED BY <1>1, ProducedWords, EmptySeq
-----------------------------------------------------------------------------
(* The inductive invariants, each on top of those before it.               *)

AtMostOne(S) == {<<>>} \cup {<<x>> : x \in S}

Types ==
    /\ pc \in [SFP -> {"recv", "dump"}]
    /\ request \in [SFP -> {<<>>, <<"read">>}]
    /\ answer \in [SFP -> AtMostOne(SB!Answer)]
    /\ query \in [SFP -> BOOLEAN]
    /\ fragment \in [SFP -> AtMostOne(Seq(Word))]
    /\ expired \in [SFP -> BOOLEAN]
    /\ buffer \in [SFP -> Seq(Word)]
    /\ payload_size \in [SFP -> 0..(MaxPayload - 1)]
    /\ status \in [SFP -> {0, 1}]
    /\ received \in [SFP -> Seq(Word)]
    /\ delivered \in [SFP -> Seq(Word)]
    /\ overflowed \in [SFP -> BOOLEAN]
    /\ fifo \in [SFP -> Seq(Word)]
    /\ blocked \in BOOLEAN /\ pre_cnt \in 0..MaxTriggers
    /\ autoblock \in BOOLEAN /\ eods \in 1..EodRun
    /\ link \in [SFP -> Seq(Word)]
    /\ mpc \in {"unblock", "confirm", "baseline", "poll", "read0", "read1",
                "collect", "done"}
    /\ cmd \in {<<>>, <<Cmd("unblock")>>, <<Cmd("count")>>}
    /\ reply \in AtMostOne([data : {<<>>}, value : 0..MaxTriggers])
    /\ cnt \in 0..MaxTriggers
    /\ data \in AtMostOne(SB!Answer)
    /\ file \in Seq([1..2 -> SB!Answer])

(* The request-reply protocol of each builder, and the room it has.        *)
Builders ==
    \A s \in SFP :
        /\ pc[s] = "recv" => ~query[s] /\ fragment[s] = <<>>
        /\ pc[s] = "dump" =>
             /\ request[s] = <<>> /\ answer[s] = <<>>
             /\ query[s] <=> fragment[s] = <<>>
             /\ payload_size[s] = 0 /\ status[s] = 0
        /\ request[s] = <<>> \/ answer[s] = <<>>
        /\ Len(buffer[s]) <= MaxPayload
        /\ Len(fifo[s]) <= FifoBound

(* Builder s has no read to serve and none to be collected.                *)
Idle(s) == pc[s] = "recv" /\ request[s] = <<>> /\ answer[s] = <<>>

(* Which builders are at work at each statement of readevent.              *)
Reading ==
    /\ mpc \notin {"read0", "read1", "collect"} => \A s \in SFP : Idle(s)
    /\ mpc = "read0" => \A s \in SFP : Idle(s)
    /\ mpc = "read1" => Idle(1)
    /\ mpc # "collect" => data = <<>>
    /\ data # <<>> => Idle(0)

(* minidaq's lockstep with trdboxd.                                        *)
Asking ==
    /\ cmd = <<>> \/ reply = <<>>
    /\ mpc \notin {"confirm", "baseline", "poll"} => cmd = <<>> /\ reply = <<>>
    /\ mpc = "confirm" => cmd = <<Cmd("unblock")>> \/ reply # <<>>
    /\ mpc \in {"baseline", "poll"} => cmd = <<Cmd("count")>> \/ reply # <<>>

(* With autoblock at most one pretrigger is ahead of the file, and it has  *)
(* blocked the trigger; a count that is read lies between the two.         *)
Ahead == IF blocked THEN 1 ELSE 0

Counting ==
    autoblock =>
        /\ mpc \in {"unblock", "done"} \/ cmd = <<Cmd("unblock")>> =>
             blocked /\ pre_cnt = Len(file)
        /\ mpc \in {"baseline", "poll"} \/ (mpc = "confirm" /\ cmd = <<>>) =>
             pre_cnt = Len(file) + Ahead
        /\ mpc \in {"baseline", "poll"} /\ reply # <<>> =>
             Head(reply).value \in Len(file)..pre_cnt
        /\ mpc = "poll" => cnt \in Len(file)..pre_cnt
        /\ mpc \in {"read0", "read1", "collect"} =>
             blocked /\ cnt = Len(file) /\ pre_cnt = Len(file) + 1

(* The way from the detector to a builder, and from there to the file.     *)
Way(s) ==
    Produced(pre_cnt) = received[s] \o Contents(fragment[s]) \o fifo[s] \o link[s]

Kept(s) ==
    overflowed[s] \/ received[s] = Filed(s) \o Answered(s) \o buffer[s]

Streams == \A s \in SFP : Way(s) /\ Kept(s)

(* With autoblock and single markers: the event of the newest pretrigger   *)
(* is on its way as a whole, or answered as a whole, on every link that    *)
(* has not had a timeout.                                                  *)
InFlight(s) == buffer[s] \o Contents(fragment[s]) \o fifo[s] \o link[s]

Answers(s) == IF Len(data) > s THEN <<data[s + 1]>> ELSE answer[s]

Clean(s) == \A n \in 1..Len(file) : file[n][s + 1].status = 0

FileInStep(s) ==
    \A e \in 1..Len(file) :
        (\A n \in 1..e : file[n][s + 1].status = 0) => file[e][s + 1].payload = Event(e)

LinkInStep(s) ==
    Clean(s) =>
        IF pre_cnt = Len(file) THEN InFlight(s) = <<>>
        ELSE IF Answers(s) = <<>> THEN InFlight(s) = Event(pre_cnt)
        ELSE Head(Answers(s)).status = 0 =>
               Head(Answers(s)).payload = Event(pre_cnt) /\ InFlight(s) = <<>>

InStep == autoblock /\ eods = 1 => \A s \in SFP : FileInStep(s) /\ LinkInStep(s)

Base == Types /\ Builders /\ Reading /\ Asking

-----------------------------------------------------------------------------
(* A socket with at most one message.                                      *)
LEMMA OneOf ==
    ASSUME NEW S, NEW x \in AtMostOne(S)
    PROVE  /\ x \in Seq(S) /\ Len(x) <= 1
           /\ x # <<>> => Head(x) \in S /\ x = <<Head(x)>> /\ Len(x) = 1
<1>1. CASE x = <<>>
  BY <1>1, EmptySeq
<1>2. CASE x # <<>>
  <2>1. PICK a \in S : x = <<a>>
    BY <1>2 DEF AtMostOne
  <2>2. <<a>> \in Seq(S) /\ Len(<<a>>) = 1 /\ Head(<<a>>) = a
    OBVIOUS
  <2> QED BY <2>1, <2>2
<1> QED BY <1>1, <1>2

(* A message is there.                                                     *)
LEMMA NotEmpty == \A x : <<x>> # <<>>
OBVIOUS

(* The segments of the two links make an event.                            *)
LEMMA Pair ==
    ASSUME NEW S, NEW a \in S, NEW b \in S
    PROVE  Append(<<a>>, b) = <<a, b>>
<1>1. <<a>> \in Seq(S) /\ Len(<<a>>) = 1 /\ <<a>>[1] = a
  OBVIOUS
<1>2. /\ Append(<<a>>, b) \in Seq(S) /\ Len(Append(<<a>>, b)) = 2
      /\ Append(<<a>>, b)[1] = a /\ Append(<<a>>, b)[2] = b
  BY <1>1, AppendProperties
<1>3. /\ <<a, b>> \in Seq(S) /\ Len(<<a, b>>) = 2
      /\ <<a, b>>[1] = a /\ <<a, b>>[2] = b
  OBVIOUS
<1>4. \A i \in 1..2 : Append(<<a>>, b)[i] = <<a, b>>[i]
  BY <1>2, <1>3
<1> QED BY <1>2, <1>3, <1>4, SeqEqual

(* A message sent on an empty socket.                                      *)
LEMMA OneIs ==
    ASSUME NEW S, NEW a \in S
    PROVE  <<a>> \in AtMostOne(S) /\ <<a>> # <<>> /\ <<>> \in AtMostOne(S) /\ Head(<<a>>) = a
BY DEF AtMostOne

(* The types imply the type invariant of the runs.                         *)
LEMMA TypesTypeOK == Types => TypeOK
<1> SUFFICES ASSUME Types PROVE TypeOK
  OBVIOUS
<1>1. SB!TypeOK
  <2>1. request \in [SFP -> Seq(SB!Command)]
    <3>1. <<>> \in Seq(SB!Command) /\ <<"read">> \in Seq(SB!Command)
      BY DEF SB!Command
    <3> QED BY <3>1 DEF Types
  <2>2. answer \in [SFP -> Seq(SB!Answer)]
    <3>1. \A s \in SFP : answer[s] \in Seq(SB!Answer)
      BY OneOf DEF Types
    <3> QED BY <3>1 DEF Types
  <2>3. fragment \in [SFP -> Seq(Seq(Word))]
    <3>1. \A s \in SFP : fragment[s] \in Seq(Seq(Word))
      BY OneOf DEF Types
    <3> QED BY <3>1 DEF Types
  <2> QED BY <2>1, <2>2, <2>3, SameWord DEF SB!TypeOK, Types
<1>2. reply \in Seq([data : {<<>>}, value : 0..MaxTriggers])
  BY OneOf DEF Types
<1>3. data \in Seq(SB!Answer) /\ Len(data) <= 1
  <2>1. data \in AtMostOne(SB!Answer)
    BY DEF Types
  <2> QED BY <2>1, OneOf
<1>4. {blocked, autoblock} \subseteq BOOLEAN
  BY DEF Types
<1> QED BY <1>1, <1>2, <1>3, <1>4, SameWord DEF TypeOK, Types

(* Base holds when all programs start.                                     *)
LEMMA InitBase == Init => Base
<1> SUFFICES ASSUME Init PROVE Base
  OBVIOUS
<1> USE DEF Init, SB!Init
<1>1. Types
  <2>1. <<>> \in Seq(Word) /\ <<>> \in Seq([1..2 -> SB!Answer])
    OBVIOUS
  <2>2. <<>> \in AtMostOne(Seq(Word)) /\ <<>> \in AtMostOne(SB!Answer)
        /\ <<>> \in AtMostOne([data : {<<>>}, value : 0..MaxTriggers])
    BY DEF AtMostOne
  <2> QED BY <2>1, <2>2, Constants DEF Types
<1>2. Builders
  <2>1. \A s \in SFP : Len(buffer[s]) = 0 /\ Len(fifo[s]) = 0
    OBVIOUS
  <2> QED BY <2>1, Constants DEF Builders
<1>3. Reading /\ Asking
  BY DEF Reading, Asking, Idle
<1> QED BY <1>1, <1>2, <1>3 DEF Base

-----------------------------------------------------------------------------
(* find_dword and process_fragment, as in SubeventBuilderProofs.           *)
LEMMA FindDword ==
    ASSUME NEW b \in Seq(Word)
    PROVE  /\ SB!find_dword(b) \in 0..Len(b)
           /\ SB!find_dword(b) # 0 => SB!IsSubeventEnd(b, SB!find_dword(b))
<1>1. CASE SB!HasSubevent(b)
  BY <1>1 DEF SB!HasSubevent, SB!find_dword
<1>2. CASE ~SB!HasSubevent(b)
  BY <1>2 DEF SB!find_dword
<1> QED BY <1>1, <1>2

(* payload_size for what a buffer may hold: 0 for a full buffer.           *)
LEMMA HeaderField ==
    ASSUME NEW m \in Nat \ {0}, NEW n \in 0..m
    PROVE  n % m = IF n = m THEN 0 ELSE n
<1>1. CASE n = m
  BY <1>1, SMT
<1>2. CASE n < m
  BY <1>2, SMT
<1> QED BY <1>1, <1>2

(* A buffer is its front followed by its rest.                             *)
LEMMA CutBuffer ==
    ASSUME NEW b \in Seq(Word), NEW n \in 0..Len(b)
    PROVE  /\ SubSeq(b, 1, n) \in Seq(Word)
           /\ SubSeq(b, n + 1, Len(b)) \in Seq(Word)
           /\ Len(SubSeq(b, n + 1, Len(b))) <= Len(b)
           /\ b = SubSeq(b, 1, n) \o SubSeq(b, n + 1, Len(b))
<1>1. /\ SubSeq(b, n + 1, Len(b)) \in Seq(Word)
      /\ Len(SubSeq(b, n + 1, Len(b))) = Len(b) - n
  BY SubSeqProperties
<1>2. SubSeq(b, 1, n) \o SubSeq(b, n + 1, Len(b)) = SubSeq(b, 1, Len(b))
  <2>1. 1 \in 1..(Len(b) + 1) /\ n \in (1 - 1)..Len(b) /\ Len(b) \in n..Len(b)
    OBVIOUS
  <2> QED BY <2>1, ConcatAdjacentSubSeq
<1>3. SubSeq(b, 1, Len(b)) = b
  BY SubSeqFull
<1>4. SubSeq(b, 1, n) \in Seq(Word)
  BY SubSeqProperties
<1>5. Len(SubSeq(b, n + 1, Len(b))) <= Len(b)
  <2> DEFINE m == Len(SubSeq(b, n + 1, Len(b)))
  <2>1. m = Len(b) - n /\ Len(b) \in Nat
    BY <1>1
  <2> HIDE DEF m
  <2>2. m <= Len(b)
    BY <2>1
  <2> QED BY <2>2 DEF m
<1> QED BY <1>1, <1>2, <1>3, <1>4, <1>5

(* What a receipt finds and what process_fragment makes of it.             *)
LEMMA Received ==
    ASSUME Base, NEW s \in SFP, SB!RecvFragment(s)
    PROVE  /\ pc[s] = "dump" /\ query[s] = FALSE
           /\ request[s] = <<>> /\ answer[s] = <<>>
           /\ payload_size[s] = 0 /\ status[s] = 0
           /\ fragment[s] # <<>> /\ fragment[s] = <<Head(fragment[s])>>
           /\ Head(fragment[s]) \in Seq(Word)
           /\ SB!Filled(s) \in Seq(Word)
           /\ Len(SB!Filled(s)) <= MaxPayload
           /\ ~SB!Overflows(buffer[s], Head(fragment[s])) =>
                SB!Filled(s) = buffer[s] \o Head(fragment[s])
           /\ SB!FoundSize(s) \in 0..(MaxPayload - 1)
           /\ SB!FoundSize(s) # 0 =>
                /\ SB!FoundSize(s) \in 1..Len(SB!Filled(s))
                /\ SB!IsSubeventEnd(SB!Filled(s), SB!FoundSize(s))
<1> DEFINE f == Head(fragment[s])
<1>1. /\ pc[s] = "dump" /\ query[s] = FALSE
      /\ request[s] = <<>> /\ answer[s] = <<>>
      /\ payload_size[s] = 0 /\ status[s] = 0
      /\ fragment[s] # <<>>
  BY DEF SB!RecvFragment, Base, Types, Builders
<1>2. fragment[s] = <<f>> /\ f \in Seq(Word)
  BY <1>1, OneOf DEF Base, Types
<1>3. buffer[s] \in Seq(Word) /\ Len(buffer[s]) <= MaxPayload
  BY DEF Base, Types, Builders
<1>4. CASE SB!Overflows(buffer[s], f)
  <2>1. SB!Filled(s) = <<>> /\ SB!FoundSize(s) = 0
    BY <1>1, <1>4 DEF SB!Filled, SB!FoundSize
  <2>2. SB!Filled(s) \in Seq(Word) /\ Len(SB!Filled(s)) <= MaxPayload
    BY <2>1, Constants, EmptySeq
  <2>3. SB!FoundSize(s) \in 0..(MaxPayload - 1)
    BY <2>1, Constants
  <2> QED BY <1>1, <1>2, <1>4, <2>1, <2>2, <2>3
<1>5. CASE ~SB!Overflows(buffer[s], f)
  <2> DEFINE b == buffer[s] \o f
  <2>1. b \in Seq(Word) /\ Len(b) = Len(buffer[s]) + Len(f)
    BY <1>2, <1>3, ConcatProperties
  <2>2. SB!Filled(s) = b
    BY <1>5 DEF SB!Filled
  <2> HIDE DEF b
  <2>3. ~(Len(f) > MaxPayload - Len(buffer[s]))
    BY <1>5 DEF SB!Overflows
  <2>4. Len(b) \in Nat /\ Len(b) <= MaxPayload
    <3>1. Len(f) \in Nat /\ Len(buffer[s]) \in Nat
      BY <1>2, <1>3
    <3> HIDE DEF f
    <3> QED BY <2>1, <2>3, <3>1, Constants
  <2>5. SB!FoundSize(s) = IF f = <<>> THEN 0 ELSE SB!find_dword(b) % MaxPayload
    BY <1>1, <1>5 DEF SB!FoundSize, b
  <2>6. SB!find_dword(b) \in 0..Len(b)
    BY <2>1, FindDword
  <2>7. SB!find_dword(b) \in 0..MaxPayload
    BY <2>4, <2>6, Constants
  <2>8. SB!find_dword(b) % MaxPayload =
            IF SB!find_dword(b) = MaxPayload THEN 0 ELSE SB!find_dword(b)
    BY <2>7, HeaderField, Constants
  <2>9. \/ SB!FoundSize(s) = 0
        \/ SB!FoundSize(s) = SB!find_dword(b) /\ SB!find_dword(b) # MaxPayload
    BY <2>5, <2>8
  <2>10. SB!FoundSize(s) # 0 => SB!IsSubeventEnd(b, SB!FoundSize(s))
    BY <2>1, <2>9, FindDword
  <2>11. SB!FoundSize(s) \in 0..(MaxPayload - 1)
    BY <2>7, <2>9, Constants
  <2>12. SB!FoundSize(s) # 0 => SB!FoundSize(s) \in 1..Len(b)
    BY <2>4, <2>6, <2>9
  <2>13. SB!Filled(s) = buffer[s] \o f
    BY <2>2 DEF b
  <2> QED BY <1>1, <1>2, <2>1, <2>2, <2>4, <2>10, <2>11, <2>12, <2>13
<1> QED BY <1>4, <1>5

-----------------------------------------------------------------------------
(* Base and a builder that takes a read request.                           *)
LEMMA RecvReadBase ==
    ASSUME Base, NEW s \in SFP, SB!RecvRead(s), UNCHANGED <<boxVars, daqVars>>
    PROVE  Base'
<1> USE DEF Base, SB!RecvRead, boxVars, daqVars, setup, SB!history
<1>1. Types'
  BY Constants DEF Types
<1>2. request[s] # <<>> /\ answer[s] = <<>> /\ fragment[s] = <<>>
  BY NotEmpty DEF Builders
<1>3. Builders'
  <2>1. /\ pc'[s] = "dump" /\ request'[s] = <<>> /\ query'[s] = TRUE
        /\ payload_size'[s] = 0 /\ status'[s] = 0
        /\ \A r \in SFP \ {s} :
              /\ pc'[r] = pc[r] /\ request'[r] = request[r] /\ query'[r] = query[r]
              /\ payload_size'[r] = payload_size[r] /\ status'[r] = status[r]
    BY DEF Types
  <2>2. answer' = answer /\ fragment' = fragment /\ buffer' = buffer /\ fifo' = fifo
    OBVIOUS
  <2> QED BY <1>2, <2>1, <2>2 DEF Builders
<1>4. (Reading /\ Asking)'
  <2>1. \A r \in SFP \ {s} : pc'[r] = pc[r] /\ request'[r] = request[r] /\ answer'[r] = answer[r]
    BY DEF Types
  <2>2. ~Idle(s)
    BY <1>2 DEF Idle
  <2> QED BY <2>1, <2>2 DEF Reading, Asking, Idle
<1> QED BY <1>1, <1>3, <1>4

(* Base and the deadline of a builder.                                     *)
LEMMA ExpireBase ==
    ASSUME Base, NEW s \in SFP, Expire(s)
    PROVE  Base'
<1> USE DEF Base, Expire, SB!Expire, boxVars, daqVars, setup, SB!history,
            SB!cmdsock, SB!ccbus, SB!header
<1>1. Types' /\ Builders'
  BY DEF Types, Builders
<1>2. (Reading /\ Asking)'
  BY DEF Reading, Asking, Idle
<1> QED BY <1>1, <1>2

(* What the receipt of a fragment does to the variables it changes.        *)
LEMMA ReceivedTypes ==
    ASSUME Base, NEW s \in SFP, SB!RecvFragment(s)
    PROVE  /\ fragment' = [fragment EXCEPT ![s] = <<>>]
           /\ fragment' \in [SFP -> AtMostOne(Seq(Word))]
           /\ received' = [received EXCEPT ![s] = @ \o Head(fragment[s])]
           /\ received' \in [SFP -> Seq(Word)]
           /\ overflowed' \in [SFP -> BOOLEAN]
           /\ overflowed'[s] = (overflowed[s] \/ SB!Overflows(buffer[s], Head(fragment[s])))
           /\ \A r \in SFP \ {s} : overflowed'[r] = overflowed[r]
           /\ request' = request /\ expired' = expired
<1> DEFINE f == Head(fragment[s])
           o == SB!Overflows(buffer[s], f)
<1>1. f \in Seq(Word)
  BY Received
<1>2. /\ fragment' = [fragment EXCEPT ![s] = <<>>]
      /\ received' = [received EXCEPT ![s] = @ \o f]
      /\ overflowed' = [overflowed EXCEPT ![s] = @ \/ o]
      /\ request' = request /\ expired' = expired
  BY DEF SB!RecvFragment
<1>3. o \in BOOLEAN
  BY DEF SB!Overflows
<1> HIDE DEF f, o
<1>4. received[s] \o f \in Seq(Word)
  BY <1>1, ConcatProperties DEF Base, Types
<1>5. received' \in [SFP -> Seq(Word)]
  BY <1>2, <1>4 DEF Base, Types
<1>6. /\ overflowed' \in [SFP -> BOOLEAN]
      /\ overflowed'[s] = (overflowed[s] \/ o)
      /\ \A r \in SFP \ {s} : overflowed'[r] = overflowed[r]
  BY <1>2, <1>3 DEF Base, Types
<1>7. fragment' \in [SFP -> AtMostOne(Seq(Word))]
  BY <1>2 DEF Base, Types, AtMostOne
<1> QED BY <1>2, <1>5, <1>6, <1>7 DEF f, o

(* What a builder answers.                                                 *)
LEMMA AnswerType ==
    ASSUME NEW st \in {0, 1}, NEW p \in Seq(Word)
    PROVE  /\ [status |-> st, payload |-> p] \in SB!Answer
           /\ <<[status |-> st, payload |-> p]>> \in AtMostOne(SB!Answer)
           /\ <<[status |-> st, payload |-> p]>> # <<>>
<1>1. [status |-> st, payload |-> p] \in SB!Answer
  BY SameWord DEF SB!Answer
<1> QED BY <1>1, OneIs

(* Base and a builder that gives up after its deadline.                    *)
LEMMA ReplyTimeoutBase ==
    ASSUME Base, NEW s \in SFP, SB!ReplyTimeout(s), UNCHANGED <<boxVars, daqVars>>
    PROVE  Base'
<1> USE DEF Base
<1>1. SB!RecvFragment(s)
  BY DEF SB!ReplyTimeout
<1>2. <<[status |-> 1, payload |-> <<>>]>> \in AtMostOne(SB!Answer)
  BY EmptySeq, AnswerType
<1>3. Types'
  <2>1. /\ fragment' \in [SFP -> AtMostOne(Seq(Word))]
        /\ received' \in [SFP -> Seq(Word)]
        /\ overflowed' \in [SFP -> BOOLEAN]
        /\ request' = request /\ expired' = expired
        /\ SB!Filled(s) \in Seq(Word)
    BY <1>1, Received, ReceivedTypes
  <2>2. /\ payload_size' \in [SFP -> 0..(MaxPayload - 1)]
        /\ status' \in [SFP -> {0, 1}]
        /\ pc' \in [SFP -> {"recv", "dump"}]
        /\ buffer' \in [SFP -> Seq(Word)]
        /\ answer' \in [SFP -> AtMostOne(SB!Answer)]
    BY <1>2, <2>1, Constants DEF SB!ReplyTimeout, Types
  <2>3. UNCHANGED <<query, delivered, boxVars, daqVars>>
    BY DEF SB!ReplyTimeout
  <2> QED BY <2>1, <2>2, <2>3 DEF Types, boxVars, setup, daqVars
<1>4. /\ query[s] = FALSE /\ request[s] = <<>> /\ pc[s] = "dump"
      /\ Len(SB!Filled(s)) <= MaxPayload
      /\ fragment' = [fragment EXCEPT ![s] = <<>>]
      /\ request' = request
  BY <1>1, Received, ReceivedTypes
<1>5. Builders'
  BY <1>4 DEF SB!ReplyTimeout, Types, Builders, boxVars
<1>6. Reading'
  BY <1>4 DEF SB!ReplyTimeout, Types, Reading, Idle, daqVars
<1>7. Asking'
  BY DEF Asking, daqVars
<1> QED BY <1>3, <1>5, <1>6, <1>7

(* Base and a builder that asks for more.                                  *)
LEMMA QueryAgainBase ==
    ASSUME Base, NEW s \in SFP, SB!QueryAgain(s), UNCHANGED <<boxVars, daqVars>>
    PROVE  Base'
<1> USE DEF Base
<1>1. SB!RecvFragment(s)
  BY DEF SB!QueryAgain
<1>2. Types'
  <2>1. /\ fragment' \in [SFP -> AtMostOne(Seq(Word))]
        /\ received' \in [SFP -> Seq(Word)]
        /\ overflowed' \in [SFP -> BOOLEAN]
        /\ request' = request /\ expired' = expired
        /\ SB!Filled(s) \in Seq(Word)
    BY <1>1, Received, ReceivedTypes
  <2>2. /\ payload_size' \in [SFP -> 0..(MaxPayload - 1)]
        /\ query' \in [SFP -> BOOLEAN]
        /\ buffer' \in [SFP -> Seq(Word)]
    BY <2>1, Constants DEF SB!QueryAgain, Types
  <2>3. UNCHANGED <<pc, status, answer, delivered, boxVars, daqVars>>
    BY DEF SB!QueryAgain
  <2> QED BY <2>1, <2>2, <2>3 DEF Types, boxVars, setup, daqVars
<1>3. /\ request[s] = <<>> /\ answer[s] = <<>> /\ pc[s] = "dump"
      /\ status[s] = 0
      /\ Len(SB!Filled(s)) <= MaxPayload
      /\ fragment' = [fragment EXCEPT ![s] = <<>>]
      /\ request' = request
  BY <1>1, Received, ReceivedTypes
<1>4. Builders'
  BY <1>3 DEF SB!QueryAgain, Types, Builders, boxVars
<1>5. Reading'
  BY <1>3 DEF SB!QueryAgain, Types, Reading, Idle, daqVars
<1>6. Asking'
  BY DEF Asking, daqVars
<1> QED BY <1>2, <1>4, <1>5, <1>6

(* Base and a builder that answers with a subevent.                        *)
LEMMA ReplySubeventBase ==
    ASSUME Base, NEW s \in SFP, SB!ReplySubevent(s), UNCHANGED <<boxVars, daqVars>>
    PROVE  Base'
<1> USE DEF Base
<1> DEFINE n == SB!FoundSize(s)
           b == SB!Filled(s)
           p == SubSeq(b, 1, n)
           q == SubSeq(b, n + 1, Len(b))
<1>1. SB!RecvFragment(s)
  BY DEF SB!ReplySubevent
<1>2. /\ b \in Seq(Word) /\ Len(b) <= MaxPayload
      /\ n \in 0..(MaxPayload - 1) /\ n \in 1..Len(b)
      /\ status[s] = 0 /\ request[s] = <<>> /\ answer[s] = <<>>
      /\ query[s] = FALSE /\ pc[s] = "dump"
  <2>1. n # 0
    BY <1>1, Received DEF SB!ReplySubevent
  <2> QED BY <1>1, <2>1, Received
<1>3. /\ payload_size' = [payload_size EXCEPT ![s] = n]
      /\ buffer' = [buffer EXCEPT ![s] = q]
      /\ answer' = [answer EXCEPT ![s] = <<[status |-> status[s], payload |-> p]>>]
      /\ delivered' = [delivered EXCEPT ![s] = @ \o p]
      /\ pc' = [pc EXCEPT ![s] = "recv"]
      /\ UNCHANGED <<query, status>>
  BY DEF SB!ReplySubevent
<1> HIDE DEF n, b
<1>4. p \in Seq(Word) /\ q \in Seq(Word) /\ Len(q) <= MaxPayload
  <2>1. p \in Seq(Word) /\ q \in Seq(Word) /\ Len(q) <= Len(b)
    BY <1>2, CutBuffer
  <2> HIDE DEF p, q
  <2> QED BY <1>2, <2>1, Constants
<1> HIDE DEF p, q
<1>5. <<[status |-> status[s], payload |-> p]>> \in AtMostOne(SB!Answer)
  BY <1>2, <1>4, AnswerType
<1>6. Types'
  <2>1. /\ fragment' \in [SFP -> AtMostOne(Seq(Word))]
        /\ received' \in [SFP -> Seq(Word)]
        /\ overflowed' \in [SFP -> BOOLEAN]
        /\ request' = request /\ expired' = expired
    BY <1>1, ReceivedTypes
  <2>2. delivered[s] \o p \in Seq(Word)
    BY <1>4, ConcatProperties DEF Types
  <2>3. /\ payload_size' \in [SFP -> 0..(MaxPayload - 1)]
        /\ pc' \in [SFP -> {"recv", "dump"}]
        /\ buffer' \in [SFP -> Seq(Word)]
        /\ delivered' \in [SFP -> Seq(Word)]
    BY <1>2, <1>3, <1>4, <2>2 DEF Types
  <2>4. answer' \in [SFP -> AtMostOne(SB!Answer)]
    BY <1>3, <1>5 DEF Types
  <2> QED BY <1>3, <2>1, <2>3, <2>4 DEF Types, boxVars, setup, daqVars
<1>7. fragment' = [fragment EXCEPT ![s] = <<>>] /\ request' = request
  BY <1>1, ReceivedTypes
<1>8. Builders'
  BY <1>2, <1>3, <1>4, <1>7 DEF Types, Builders, boxVars
<1>9. Reading'
  BY <1>2, <1>3, <1>7 DEF Types, Reading, Idle, daqVars
<1>10. Asking'
  BY DEF Asking, daqVars
<1> QED BY <1>6, <1>8, <1>9, <1>10

-----------------------------------------------------------------------------
(* What a dump takes of a FIFO that does not fill the buffer: all of it.   *)
LEMMA DumpedAll ==
    ASSUME NEW w \in Seq(Word), Len(w) <= FifoBound
    PROVE  LP!Dumped(w) = w /\ LP!Rest(w) = <<>> /\ ~LP!Wraps(w)
<1>1. Len(w) \in Nat /\ Len(w) < MaxPayload
  BY Constants
<1>2. LP!nread(w) = Len(w)
  BY <1>1, Constants DEF LP!nread, LP!RX_FIFO_SIZE
<1>3. Len(w) % MaxPayload = Len(w)
  BY <1>1, Constants, HeaderField
<1>4. LP!Dumped(w) = w
  BY <1>2, <1>3, SubSeqFull DEF LP!Dumped
<1>5. LP!Rest(w) = <<>>
  BY <1>1, <1>2, SubSeqEmpty DEF LP!Rest
<1>6. ~LP!Wraps(w)
  BY <1>1, <1>2, <1>3, EmptySeq DEF LP!Wraps
<1> QED BY <1>4, <1>5, <1>6

(* Base and trdboxd, which empties the FIFO into its reply.                *)
LEMMA ServeDumpBase ==
    ASSUME Base, NEW s \in SFP, ServeDump(s)
    PROVE  /\ Base'
           /\ fragment[s] = <<>>
           /\ fragment' = [fragment EXCEPT ![s] = <<fifo[s]>>]
           /\ fifo' = [fifo EXCEPT ![s] = <<>>]
<1> USE DEF Base
<1>1. fifo[s] \in Seq(Word) /\ Len(fifo[s]) <= FifoBound
  BY DEF Types, Builders
<1>2. LP!Dumped(fifo[s]) = fifo[s] /\ LP!Rest(fifo[s]) = <<>>
  BY <1>1, DumpedAll
<1>3. /\ query' = [query EXCEPT ![s] = FALSE]
      /\ fragment' = [fragment EXCEPT ![s] = <<fifo[s]>>]
      /\ fifo' = [fifo EXCEPT ![s] = <<>>]
      /\ query[s]
      /\ UNCHANGED <<pc, request, answer, expired, buffer, payload_size, status,
                     received, delivered, overflowed, blocked, pre_cnt, setup, link, daqVars>>
  BY <1>2 DEF ServeDump
<1>4. fragment[s] = <<>> /\ <<fifo[s]>> # <<>>
  BY <1>3, NotEmpty DEF Types, Builders
<1>5. Types'
  <2>1. fragment' \in [SFP -> AtMostOne(Seq(Word))]
    BY <1>1, <1>3, OneIs DEF Types
  <2>2. fifo' \in [SFP -> Seq(Word)] /\ query' \in [SFP -> BOOLEAN]
    BY <1>3, EmptySeq DEF Types
  <2> QED BY <1>3, <2>1, <2>2 DEF Types, setup, daqVars
<1>6. Builders'
  <2>1. Len(<<>>) = 0 /\ 0 <= FifoBound
    BY Constants
  <2> QED BY <1>3, <1>4, <2>1 DEF Types, Builders
<1>7. (Reading /\ Asking)'
  BY <1>3 DEF Reading, Asking, Idle, daqVars
<1> QED BY <1>3, <1>4, <1>5, <1>6, <1>7

(* Base and a pretrigger.                                                  *)
LEMMA PretriggerBase ==
    ASSUME Base, Pretrigger
    PROVE  Base'
<1> USE DEF Base, Pretrigger, builderVars, setup, daqVars
<1>1. Event(pre_cnt + 1) \in Seq(Word)
  <2>1. pre_cnt + 1 \in 1..MaxTriggers
    BY Constants DEF Types
  <2> QED BY <2>1, EventWords DEF Types
<1>2. \A s \in SFP : link[s] \o Event(pre_cnt + 1) \in Seq(Word)
  BY <1>1, ConcatProperties DEF Types
<1>3. Types'
  <2>1. link' \in [SFP -> Seq(Word)]
    BY <1>2
  <2>2. pre_cnt' \in 0..MaxTriggers /\ blocked' \in BOOLEAN
    BY Constants DEF Types
  <2> QED BY <2>1, <2>2 DEF Types
<1>4. (Builders /\ Reading /\ Asking)'
  BY DEF Builders, Reading, Asking, Idle
<1> QED BY <1>3, <1>4

(* Base and a dword that reaches the FIFO.                                 *)
LEMMA ArriveBase ==
    ASSUME Base, NEW s \in SFP, Arrive(s)
    PROVE  Base'
<1> USE DEF Base, Arrive, builderVars, setup, daqVars
<1>1. /\ link[s] \in Seq(Word) /\ link[s] # <<>> /\ fifo[s] \in Seq(Word)
      /\ Head(link[s]) \in Word /\ Tail(link[s]) \in Seq(Word)
  BY HeadTailProperties DEF Types
<1>2. /\ Append(fifo[s], Head(link[s])) \in Seq(Word)
      /\ Len(Append(fifo[s], Head(link[s]))) <= FifoBound
  <2>1. /\ Append(fifo[s], Head(link[s])) \in Seq(Word)
        /\ Len(Append(fifo[s], Head(link[s]))) = Len(fifo[s]) + 1
    BY <1>1, AppendProperties
  <2>2. Len(fifo[s]) \in Nat /\ Len(fifo[s]) < FifoBound
    BY <1>1
  <2> QED BY <2>1, <2>2, Constants
<1>3. Types'
  BY <1>1, <1>2 DEF Types
<1>4. Builders'
  BY <1>2 DEF Types, Builders
<1>5. (Reading /\ Asking)'
  BY DEF Reading, Asking, Idle
<1> QED BY <1>3, <1>4, <1>5

(* trdboxd answering minidaq, and readevent's statements but the reads and *)
(* the collecting: only mpc, cmd, reply and cnt change.                    *)
LEMMA AskingBase ==
    ASSUME Base,
           \/ ServeUnblock \/ ServeCount
           \/ SendUnblock \/ Confirmed \/ Baseline \/ PollAgain \/ Triggered
    PROVE  Base'
<1> USE DEF Base
<1>1. UNCHANGED <<builderVars, fifo, pre_cnt, setup, link, data, file>>
  BY DEF ServeUnblock, ServeCount, SendUnblock, Confirmed, Baseline, PollAgain,
         Triggered, boxVars
<1>2. Builders'
  BY <1>1 DEF Builders, builderVars
<1>3. CASE ServeUnblock
  <2>1. reply' \in AtMostOne([data : {<<>>}, value : 0..MaxTriggers]) /\ reply' # <<>>
    <3>1. LP!Text \in [data : {<<>>}, value : 0..MaxTriggers]
      BY Constants DEF LP!Text
    <3> QED BY <1>3, <3>1, OneIs DEF ServeUnblock
  <2>2. cmd' = <<>> /\ blocked' = FALSE /\ UNCHANGED <<mpc, cnt>>
    BY <1>3 DEF ServeUnblock
  <2>3. Types'
    BY <1>1, <2>1, <2>2 DEF Types, builderVars, setup
  <2>4. cmd # <<>> /\ cmd # <<Cmd("count")>> /\ cmd = <<Cmd("unblock")>>
    BY <1>3, NotEmpty DEF ServeUnblock, Cmd
  <2>5. (Reading /\ Asking)'
    BY <1>1, <2>1, <2>2, <2>4 DEF Reading, Asking, Idle, builderVars
  <2> QED BY <1>2, <2>3, <2>5
<1>4. CASE ServeCount
  <2>1. reply' \in AtMostOne([data : {<<>>}, value : 0..MaxTriggers]) /\ reply' # <<>>
    <3>1. [data |-> <<>>, value |-> pre_cnt] \in [data : {<<>>}, value : 0..MaxTriggers]
      BY DEF Types
    <3> QED BY <1>4, <3>1, OneIs DEF ServeCount
  <2>2. cmd' = <<>> /\ UNCHANGED <<blocked, mpc, cnt>>
    BY <1>4 DEF ServeCount, boxVars
  <2>3. Types'
    BY <1>1, <2>1, <2>2 DEF Types, builderVars, setup
  <2>4. cmd # <<>>
    BY <1>4, NotEmpty DEF ServeCount
  <2>5. (Reading /\ Asking)'
    BY <1>1, <2>1, <2>2, <2>4 DEF Reading, Asking, Idle, builderVars
  <2> QED BY <1>2, <2>3, <2>5
<1>5. CASE SendUnblock \/ Confirmed \/ Baseline \/ PollAgain \/ Triggered
  <2>1. reply # <<>> => Head(reply).value \in 0..MaxTriggers
    <3>1. reply # <<>> => Head(reply) \in [data : {<<>>}, value : 0..MaxTriggers]
      BY OneOf DEF Types
    <3> QED BY <3>1
  <2>2. blocked' = blocked /\ reply' \in {reply, <<>>}
    BY <1>5 DEF SendUnblock, Confirmed, Baseline, PollAgain, Triggered, boxVars
  <2>3. Types'
    <3>1. /\ mpc' \in {"unblock", "confirm", "baseline", "poll", "read0"}
          /\ cmd' \in {cmd, <<Cmd("unblock")>>, <<Cmd("count")>>}
          /\ cnt' \in {cnt, Head(reply).value} /\ (cnt' # cnt => reply # <<>>)
      BY <1>5 DEF SendUnblock, Confirmed, Baseline, PollAgain, Triggered, Types
    <3>2. cnt' \in 0..MaxTriggers
      BY <2>1, <3>1 DEF Types
    <3>3. reply' \in AtMostOne([data : {<<>>}, value : 0..MaxTriggers])
      BY <2>2 DEF Types, AtMostOne
    <3> QED BY <1>1, <2>2, <3>1, <3>2, <3>3 DEF Types, builderVars, setup
  <2>4. (Reading /\ Asking)'
    <3>1. UNCHANGED <<pc, request, answer, data>>
      BY <1>1 DEF builderVars
    <3>2. <<Cmd("unblock")>> # <<>> /\ <<Cmd("count")>> # <<>>
      BY NotEmpty
    <3>3. Reading'
      BY <1>5, <3>1 DEF SendUnblock, Confirmed, Baseline, PollAgain, Triggered,
                        Reading, Idle
    <3>4. Asking'
      BY <1>5, <3>2 DEF SendUnblock, Confirmed, Baseline, PollAgain, Triggered, Asking
    <3> QED BY <3>3, <3>4
  <2> QED BY <1>2, <2>3, <2>4
<1> QED BY <1>3, <1>4, <1>5

(* Base and minidaq, which sends a read.                                   *)
LEMMA SendReadBase ==
    ASSUME Base, NEW s \in SFP, SendRead(s)
    PROVE  Base'
<1> USE DEF Base
<1>1. /\ mpc = IF s = 0 THEN "read0" ELSE "read1"
      /\ request' = [request EXCEPT ![s] = <<"read">>]
      /\ mpc' = IF s = 0 THEN "read1" ELSE "collect"
      /\ UNCHANGED <<pc, answer, query, fragment, expired, buffer, payload_size,
                     status, received, delivered, overflowed, boxVars, cmd, reply,
                     cnt, data, file>>
  BY DEF SendRead
<1>2. s = 0 \/ s = 1
  BY Constants
<1>3. Idle(s) /\ data = <<>> /\ cmd = <<>> /\ reply = <<>>
  BY <1>1, <1>2 DEF Reading, Asking
<1>4. Types'
  BY <1>1, <1>2 DEF Types, boxVars, setup
<1>5. Builders'
  BY <1>1, <1>3 DEF Types, Builders, Idle, boxVars
<1>6. (Reading /\ Asking)'
  BY <1>1, <1>2, <1>3, Constants DEF Types, Reading, Asking, Idle
<1> QED BY <1>4, <1>5, <1>6

(* The first answer goes to data, the second completes the event.          *)
LEMMA CollectBase ==
    ASSUME Base, Collect
    PROVE  /\ Base'
           /\ LET s == Len(data)
              IN  /\ s \in SFP
                  /\ mpc = "collect" /\ answer[s] # <<>>
                  /\ answer' = [answer EXCEPT ![s] = <<>>]
                  /\ Head(answer[s]) \in SB!Answer
                  /\ s = 0 => /\ data = <<>> /\ data' = <<Head(answer[0])>>
                              /\ file' = file /\ mpc' = mpc
                  /\ s = 1 => /\ data = <<Head(data)>> /\ Head(data) \in SB!Answer
                              /\ data' = <<>>
                              /\ file' = Append(file, <<Head(data), Head(answer[1])>>)
                              /\ mpc' \in {"done", "unblock"}
<1> USE DEF Base
<1> DEFINE s == Len(data)
<1>1. /\ mpc = "collect"
      /\ answer[s] # <<>>
      /\ answer' = [answer EXCEPT ![s] = <<>>]
      /\ IF s = 1
         THEN /\ file' = Append(file, Append(data, Head(answer[s])))
              /\ data' = <<>>
              /\ mpc' = IF Len(file') = nevents THEN "done" ELSE "unblock"
         ELSE /\ data' = Append(data, Head(answer[s]))
              /\ UNCHANGED <<file, mpc>>
      /\ UNCHANGED <<pc, request, query, fragment, expired, buffer, payload_size,
                     status, received, delivered, overflowed, boxVars, cmd,
                     reply, cnt>>
  BY DEF Collect
<1>2. \/ s = 0 /\ data = <<>>
      \/ s = 1 /\ data = <<Head(data)>> /\ Head(data) \in SB!Answer
  <2>1. data \in AtMostOne(SB!Answer)
    BY DEF Types
  <2> QED BY <2>1, OneOf, EmptySeq
<1>3. s \in SFP
  BY <1>2, Constants
<1>4. Head(answer[s]) \in SB!Answer
  BY <1>1, <1>3, OneOf DEF Types
<1> HIDE DEF s
<1>5. CASE s = 0
  <2>1. data' = <<Head(answer[0])>> /\ file' = file /\ mpc' = mpc
    BY <1>1, <1>2, <1>5
  <2>2. Types'
    <3>1. data' \in AtMostOne(SB!Answer)
      BY <1>4, <1>5, <2>1, OneIs
    <3>2. answer' \in [SFP -> AtMostOne(SB!Answer)]
      BY <1>1 DEF Types, AtMostOne
    <3> QED BY <1>1, <2>1, <3>1, <3>2 DEF Types, boxVars, setup
  <2>3. Builders'
    BY <1>1, <1>3 DEF Types, Builders, boxVars
  <2>4. (Reading /\ Asking)'
    <3>1. Idle(0)'
      BY <1>1, <1>3, <1>5 DEF Types, Builders, Idle
    <3> QED BY <1>1, <2>1, <3>1 DEF Reading, Asking
  <2> QED BY <1>1, <1>2, <1>3, <1>4, <1>5, <2>1, <2>2, <2>3, <2>4 DEF s
<1>6. CASE s = 1
  <2>1. /\ data' = <<>> /\ mpc' \in {"done", "unblock"}
        /\ file' = Append(file, <<Head(data), Head(answer[1])>>)
    <3>1. Append(<<Head(data)>>, Head(answer[1])) = <<Head(data), Head(answer[1])>>
      BY <1>2, <1>4, <1>6, Pair
    <3>2. data = <<Head(data)>>
      BY <1>2, <1>6
    <3> QED BY <1>1, <1>6, <3>1, <3>2
  <2>2. Types'
    <3>1. data' \in AtMostOne(SB!Answer)
      BY <2>1 DEF AtMostOne
    <3>2. answer' \in [SFP -> AtMostOne(SB!Answer)]
      BY <1>1 DEF Types, AtMostOne
    <3>3. <<Head(data), Head(answer[1])>> \in [1..2 -> SB!Answer]
      BY <1>2, <1>4, <1>6
    <3>4. file' \in Seq([1..2 -> SB!Answer])
      BY <2>1, <3>3, AppendProperties DEF Types
    <3> QED BY <1>1, <2>1, <3>1, <3>2, <3>4 DEF Types, boxVars, setup
  <2>3. Builders'
    BY <1>1, <1>3 DEF Types, Builders, boxVars
  <2>4. (Reading /\ Asking)'
    <3>1. Idle(1)'
      BY <1>1, <1>3, <1>6 DEF Types, Builders, Idle
    <3>2. Idle(0)'
      <4>1. data # <<>>
        BY <1>2, <1>6, NotEmpty
      <4>2. Idle(0)
        BY <4>1 DEF Reading
      <4> QED BY <1>1, <1>6, <4>2, Constants DEF Types, Idle
    <3> QED BY <1>1, <2>1, <3>1, <3>2, Constants DEF Reading, Asking
  <2> QED BY <1>1, <1>2, <1>3, <1>4, <1>6, <2>1, <2>2, <2>3, <2>4 DEF s
<1> QED BY <1>2, <1>5, <1>6

(* Base and a step that changes nothing.                                   *)
LEMMA StutterBase ==
    ASSUME Base, UNCHANGED vars
    PROVE  Base'
BY DEF Base, vars, builderVars, boxVars, setup, daqVars, Types, Builders, Reading,
       Asking, Idle

(* Every step keeps the types and the protocols.                           *)
LEMMA NextBase == Base /\ [Next]_vars => Base'
<1> SUFFICES ASSUME Base, [Next]_vars PROVE Base'
  OBVIOUS
<1>1. CASE Minidaq
  BY <1>1, AskingBase, SendReadBase, CollectBase DEF Minidaq
<1>2. CASE ServeUnblock \/ ServeCount
  BY <1>2, AskingBase
<1>3. CASE Pretrigger
  BY <1>3, PretriggerBase
<1>4. ASSUME NEW s \in SFP, Build(s) PROVE Base'
  BY <1>4, RecvReadBase, ReplyTimeoutBase, QueryAgainBase, ReplySubeventBase DEF Build
<1>5. ASSUME NEW s \in SFP, Expire(s) \/ ServeDump(s) \/ Arrive(s) PROVE Base'
  BY <1>5, ExpireBase, ServeDumpBase, ArriveBase
<1>6. CASE UNCHANGED vars
  BY <1>6, StutterBase
<1> QED BY <1>1, <1>2, <1>3, <1>4, <1>5, <1>6 DEF Next

-----------------------------------------------------------------------------
(* Counting: with autoblock no pretrigger is accepted but the one that     *)
(* readevent waits for.                                                    *)
LEMMA InitCounting == Init => Counting
BY DEF Init, Counting

(* Every step keeps the pretriggers and the file in step.                  *)
LEMMA NextCounting ==
    ASSUME Base, Base', Counting, [Next]_vars
    PROVE  Counting'
<1> SUFFICES ASSUME autoblock' PROVE Counting'
  BY DEF Counting
<1>0. /\ pre_cnt \in Nat /\ Len(file) \in Nat /\ cnt \in Nat
      /\ blocked \in BOOLEAN /\ autoblock \in BOOLEAN
      /\ reply # <<>> => Head(reply).value \in Nat
  <2>1. reply # <<>> => Head(reply) \in [data : {<<>>}, value : 0..MaxTriggers]
    BY OneOf DEF Base, Types
  <2>2. reply # <<>> => Head(reply).value \in Nat
    BY <2>1, Constants
  <2>3. pre_cnt \in Nat /\ cnt \in Nat /\ blocked \in BOOLEAN /\ autoblock \in BOOLEAN
    BY Constants DEF Base, Types
  <2>4. Len(file) \in Nat
    BY LenProperties DEF Base, Types
  <2> QED BY <2>2, <2>3, <2>4
<1>1. autoblock' = autoblock
  BY DEF Next, Minidaq, SendUnblock, Confirmed, Baseline, PollAgain, Triggered,
         SendRead, Collect, ServeUnblock, ServeCount, Pretrigger, Build, Expire,
         ServeDump, Arrive, boxVars, setup, vars
<1>2. CASE UNCHANGED <<blocked, pre_cnt, mpc, cmd, reply, cnt, file>>
  BY <1>1, <1>2 DEF Counting, Ahead
<1>3. CASE ServeUnblock
  <2>1. /\ cmd = <<Cmd("unblock")>> /\ cmd' = <<>> /\ blocked' = FALSE /\ mpc = "confirm"
        /\ UNCHANGED <<pre_cnt, mpc, cnt, file>>
    BY <1>3, NotEmpty DEF ServeUnblock, Base, Asking, Cmd
  <2>2. pre_cnt = Len(file)
    BY <1>1, <2>1 DEF Counting
  <2> QED BY <1>0, <2>1, <2>2, NotEmpty DEF Counting, Ahead
<1>4. CASE ServeCount
  <2>1. /\ cmd = <<Cmd("count")>> /\ cmd' = <<>> /\ Head(reply').value = pre_cnt
        /\ UNCHANGED <<blocked, pre_cnt, mpc, cnt, file>> /\ mpc \in {"baseline", "poll"}
    BY <1>4, NotEmpty DEF ServeCount, Base, Asking, Cmd, boxVars
  <2> QED BY <1>0, <1>1, <2>1, NotEmpty DEF Counting, Ahead
<1>5. CASE Pretrigger
  <2>1. /\ ~blocked /\ blocked' = TRUE /\ pre_cnt' = pre_cnt + 1
        /\ UNCHANGED <<mpc, cmd, reply, cnt, file>>
    BY <1>1, <1>5 DEF Pretrigger, daqVars
  <2> QED BY <1>0, <1>1, <2>1 DEF Counting, Ahead
<1>6. CASE SendUnblock \/ Confirmed \/ Baseline \/ PollAgain
  <2>1. UNCHANGED <<blocked, pre_cnt, file>>
    BY <1>6 DEF SendUnblock, Confirmed, Baseline, PollAgain, boxVars
  <2>2. CASE SendUnblock
    BY <1>0, <1>1, <2>1, <2>2, NotEmpty DEF SendUnblock, Counting, Ahead, Cmd
  <2>3. CASE Confirmed
    <3>1. cmd = <<>>
      BY <2>3 DEF Confirmed, Base, Asking
    <3> QED BY <1>0, <1>1, <2>1, <2>3, <3>1, NotEmpty DEF Confirmed, Counting, Ahead, Cmd
  <2>4. CASE Baseline
    BY <1>0, <1>1, <2>1, <2>4, NotEmpty DEF Baseline, Counting, Ahead, Cmd
  <2>5. CASE PollAgain
    BY <1>0, <1>1, <2>1, <2>5, NotEmpty DEF PollAgain, Counting, Ahead, Cmd
  <2> QED BY <1>6, <2>2, <2>3, <2>4, <2>5
<1>7. CASE Triggered
  <2>1. UNCHANGED <<blocked, pre_cnt, file, cmd, cnt>> /\ mpc' = "read0" /\ reply' = <<>>
        /\ mpc = "poll" /\ reply # <<>> /\ Head(reply).value > cnt
    BY <1>7 DEF Triggered, boxVars
  <2>2. /\ Head(reply).value \in Len(file)..pre_cnt /\ cnt \in Len(file)..pre_cnt
        /\ pre_cnt = Len(file) + Ahead
    BY <1>1, <2>1 DEF Counting
  <2>3. blocked /\ cnt = Len(file) /\ pre_cnt = Len(file) + 1
    BY <1>0, <2>1, <2>2 DEF Ahead
  <2>4. cmd = <<>>
    BY <2>1 DEF Base, Asking
  <2> QED BY <2>1, <2>3, <2>4, NotEmpty DEF Counting
<1>8. CASE \E s \in SFP : SendRead(s)
  <2>1. /\ mpc \in {"read0", "read1"} /\ mpc' \in {"read1", "collect"}
        /\ UNCHANGED <<blocked, pre_cnt, cmd, reply, cnt, file>>
    BY <1>8 DEF SendRead, boxVars
  <2>2. cmd = <<>>
    BY <2>1 DEF Base, Asking
  <2> QED BY <1>1, <2>1, <2>2, NotEmpty DEF Counting
<1>9. CASE Collect
  <2>1. mpc = "collect" /\ UNCHANGED <<blocked, pre_cnt, cmd, reply, cnt>>
    BY <1>9 DEF Collect, boxVars
  <2>2. cmd = <<>> /\ blocked /\ pre_cnt = Len(file) + 1
    BY <1>1, <2>1 DEF Counting, Base, Asking
  <2>3. CASE file' = file /\ mpc' = mpc
    BY <1>1, <2>1, <2>2, <2>3 DEF Counting, Ahead
  <2>4. CASE /\ mpc' \in {"done", "unblock"} /\ Len(file') = Len(file) + 1
    BY <1>0, <2>1, <2>2, <2>4, NotEmpty DEF Counting
  <2>5. \/ file' = file /\ mpc' = mpc
        \/ /\ mpc' \in {"done", "unblock"}
           /\ Len(file') = Len(file) + 1
    <3> DEFINE s == Len(data)
    <3>1. CASE s = 0
      BY <1>9, <3>1, CollectBase
    <3>2. CASE s = 1
      <4>1. /\ Head(data) \in SB!Answer /\ Head(answer[1]) \in SB!Answer
            /\ file' = Append(file, <<Head(data), Head(answer[1])>>)
            /\ mpc' \in {"done", "unblock"}
        BY <1>9, <3>2, CollectBase
      <4>2. <<Head(data), Head(answer[1])>> \in [1..2 -> SB!Answer]
        BY <4>1
      <4>3. Len(file') = Len(file) + 1
        BY <4>1, <4>2, AppendProperties DEF Base, Types
      <4> QED BY <4>1, <4>3
    <3>3. s \in SFP
      BY <1>9, CollectBase
    <3> QED BY <3>1, <3>2, <3>3, Constants
  <2> QED BY <2>3, <2>4, <2>5
<1>10. CASE \E s \in SFP : Build(s) \/ Expire(s) \/ ServeDump(s) \/ Arrive(s)
  <2>1. UNCHANGED <<blocked, pre_cnt, mpc, cmd, reply, cnt, file>>
    BY <1>10 DEF Build, Expire, ServeDump, Arrive, boxVars, daqVars
  <2> QED BY <1>2, <2>1
<1>11. CASE UNCHANGED vars
  BY <1>2, <1>11 DEF vars, boxVars, daqVars
<1> QED BY <1>3, <1>4, <1>5, <1>6, <1>7, <1>8, <1>9, <1>10, <1>11 DEF Next, Minidaq

-----------------------------------------------------------------------------
(* Streams: nothing is lost, repeated or reordered on the way.             *)

(* The dwords of link s in the events written.                             *)
Payloads(s) == [e \in 1..Len(file) |-> file[e][s + 1].payload]

Collected(s) == IF Len(data) > s THEN data[s + 1].payload ELSE <<>>

(* The words of link s in the file, as a flattened sequence of payloads.   *)
LEMMA FiledWords ==
    ASSUME Base, NEW s \in SFP
    PROVE  /\ Payloads(s) \in Seq(Seq(Word))
           /\ FlattenSeq(Payloads(s)) \in Seq(Word)
           /\ Collected(s) \in Seq(Word)
           /\ Filed(s) = FlattenSeq(Payloads(s)) \o Collected(s)
           /\ Filed(s) \in Seq(Word)
           /\ Answered(s) \in Seq(Word)
           /\ Contents(fragment[s]) \in Seq(Word)
<1>1. Payloads(s) \in Seq(Seq(Word))
  <2>1. ASSUME NEW e \in 1..Len(file) PROVE file[e][s + 1].payload \in Seq(Word)
    <3>1. file[e] \in [1..2 -> SB!Answer]
      BY DEF Base, Types
    <3>2. s + 1 \in 1..2
      BY Constants
    <3> QED BY <3>1, <3>2, SameWord DEF SB!Answer
  <2>2. Len(file) \in Nat
    BY LenProperties DEF Base, Types
  <2>3. Payloads(s) \in [1..Len(file) -> Seq(Word)]
    BY <2>1 DEF Payloads
  <2> QED BY <2>2, <2>3
<1>2. FlattenSeq(Payloads(s)) \in Seq(Word)
  BY <1>1, EmptySeq, FlattenSeqAppend
<1>3. Collected(s) \in Seq(Word)
  <2>1. data \in Seq(SB!Answer) /\ Len(data) <= 1
    BY OneOf DEF Base, Types
  <2>2. Len(data) > s => s + 1 \in 1..Len(data)
    BY <2>1, Constants
  <2>3. Len(data) > s => data[s + 1] \in SB!Answer
    BY <2>1, <2>2, ElementOfSeq
  <2> QED BY <2>3, EmptySeq, SameWord DEF Collected, SB!Answer
<1>4. Filed(s) = FlattenSeq(Payloads(s)) \o Collected(s)
  BY DEF Filed, Payloads, Collected
<1>5. Filed(s) \in Seq(Word)
  BY <1>2, <1>3, <1>4, ConcatProperties
<1>6. Answered(s) \in Seq(Word)
  <2>1. answer[s] # <<>> => Head(answer[s]) \in SB!Answer
    BY OneOf DEF Base, Types
  <2> QED BY <2>1, EmptySeq, SameWord DEF Answered, SB!Answer
<1>7. Contents(fragment[s]) \in Seq(Word)
  BY OneOf, EmptySeq DEF Contents, Base, Types
<1> QED BY <1>1, <1>2, <1>3, <1>4, <1>5, <1>6, <1>7

(* Concatenation is associative; fixed to words for the provers.           *)
LEMMA WordsAssociate ==
    ASSUME NEW x \in Seq(Word), NEW y \in Seq(Word), NEW z \in Seq(Word)
    PROVE  (x \o y) \o z = x \o (y \o z)
BY ConcatAssociative

(* A step that moves nothing between the detector and builder s.           *)
LEMMA WaySame ==
    ASSUME NEW s \in SFP, Way(s), UNCHANGED <<eods, pre_cnt>>,
           UNCHANGED <<received[s], fragment[s], fifo[s], link[s]>>
    PROVE  Way(s)'
<1>1. Produced(pre_cnt)' = Produced(pre_cnt)
  BY DEF Produced, Event, Period
<1> QED BY <1>1 DEF Way, Contents

(* A step that moves nothing between builder s and the file.               *)
LEMMA KeptSame ==
    ASSUME NEW s \in SFP, Kept(s), UNCHANGED <<file, data>>,
           UNCHANGED <<overflowed[s], received[s], answer[s], buffer[s]>>
    PROVE  Kept(s)'
BY DEF Kept, Filed, Answered

(* The receipt of a fragment moves it on.                                  *)
LEMMA WayReceived ==
    ASSUME Base, Base', NEW s \in SFP, Way(s), SB!RecvFragment(s),
           UNCHANGED <<eods, pre_cnt, fifo, link>>
    PROVE  Way(s)'
<1> DEFINE f == Head(fragment[s])
<1>1. /\ fragment[s] # <<>> /\ f \in Seq(Word)
      /\ fragment' = [fragment EXCEPT ![s] = <<>>]
      /\ received' = [received EXCEPT ![s] = @ \o f]
  BY Received, ReceivedTypes
<1>2. Produced(pre_cnt)' = Produced(pre_cnt)
  BY DEF Produced, Event, Period
<1>3. Contents(fragment[s]) = f /\ Contents(fragment[s])' = <<>>
  BY <1>1 DEF Contents, Base, Types
<1>4. received'[s] = received[s] \o f
  BY <1>1 DEF Base, Types
<1> HIDE DEF f
<1>5. received'[s] \o <<>> = received'[s]
  BY <1>1, <1>4, ConcatEmptySeq DEF Base, Types
<1> QED BY <1>2, <1>3, <1>4, <1>5 DEF Way

(* A fragment received is in the answer and in the buffer, or they         *)
(* overflowed.                                                             *)
LEMMA KeptReceived ==
    ASSUME Base, Base', NEW s \in SFP, Kept(s), SB!RecvFragment(s),
           UNCHANGED <<file, data>>,
           SB!Filled(s) = Answered(s)' \o buffer'[s]
    PROVE  Kept(s)'
<1> DEFINE f == Head(fragment[s])
<1>1. /\ f \in Seq(Word) /\ answer[s] = <<>>
      /\ received' = [received EXCEPT ![s] = @ \o f]
      /\ overflowed'[s] = (overflowed[s] \/ SB!Overflows(buffer[s], f))
      /\ ~SB!Overflows(buffer[s], f) => SB!Filled(s) = buffer[s] \o f
  BY Received, ReceivedTypes
<1>2. CASE overflowed'[s]
  BY <1>2 DEF Kept
<1>3. CASE ~overflowed'[s]
  <2>1. ~overflowed[s] /\ SB!Filled(s) = buffer[s] \o f
    BY <1>1, <1>3
  <2>2. received'[s] = received[s] \o f
    BY <1>1 DEF Base, Types
  <2>3. received[s] = Filed(s) \o <<>> \o buffer[s]
    BY <1>1, <2>1 DEF Kept, Answered
  <2>4. Filed(s)' = Filed(s)
    BY DEF Filed
  <2>5. /\ Filed(s) \in Seq(Word) /\ Answered(s)' \in Seq(Word)
        /\ buffer[s] \in Seq(Word) /\ buffer'[s] \in Seq(Word)
    <3>1. Filed(s) \in Seq(Word)
      BY FiledWords
    <3>2. Answered(s)' \in Seq(Word)
      <4>1. answer'[s] # <<>> => Head(answer'[s]) \in SB!Answer
        BY OneOf DEF Base, Types
      <4> QED BY <4>1, EmptySeq, SameWord DEF Answered, SB!Answer
    <3> QED BY <3>1, <3>2 DEF Base, Types
  <2> HIDE DEF f
  <2>6. received[s] = Filed(s) \o buffer[s]
    BY <2>3, <2>5, ConcatEmptySeq
  <2>7. received'[s] = Filed(s) \o (Answered(s)' \o buffer'[s])
    <3>1. (Filed(s) \o buffer[s]) \o f = Filed(s) \o (buffer[s] \o f)
      BY <1>1, <2>5, WordsAssociate
    <3> QED BY <2>1, <2>2, <2>6, <3>1
  <2>8. received'[s] = (Filed(s) \o Answered(s)') \o buffer'[s]
    BY <2>5, <2>7, WordsAssociate
  <2> QED BY <2>4, <2>8 DEF Kept
<1> QED BY <1>2, <1>3

(* A dump moves the words of the FIFO into the reply.                      *)
LEMMA WayDumped ==
    ASSUME Base, NEW s \in SFP, Way(s), ServeDump(s)
    PROVE  Way(s)'
<1>1. /\ fragment[s] = <<>>
      /\ fragment' = [fragment EXCEPT ![s] = <<fifo[s]>>]
      /\ fifo' = [fifo EXCEPT ![s] = <<>>]
  BY ServeDumpBase
<1>2. UNCHANGED <<received, link, pre_cnt, eods>>
  BY DEF ServeDump, setup
<1>3. Produced(pre_cnt)' = Produced(pre_cnt)
  BY <1>2 DEF Produced, Event, Period
<1>4. /\ Contents(fragment[s]) = <<>> /\ Contents(fragment[s])' = fifo[s]
      /\ fifo'[s] = <<>>
  BY <1>1, NotEmpty DEF Contents, Base, Types
<1>5. /\ received[s] \o <<>> = received[s]
      /\ (received[s] \o fifo[s]) \o <<>> = received[s] \o fifo[s]
  <2>1. received[s] \in Seq(Word) /\ fifo[s] \in Seq(Word)
    BY DEF Base, Types
  <2>2. received[s] \o fifo[s] \in Seq(Word)
    BY <2>1, ConcatProperties
  <2> QED BY <2>1, <2>2, ConcatEmptySeq
<1> QED BY <1>2, <1>3, <1>4, <1>5 DEF Way

(* The first word of the link becomes the last of the FIFO.                *)
LEMMA Shift ==
    ASSUME NEW x \in Seq(Word), NEW u \in Seq(Word), NEW v \in Seq(Word), v # <<>>
    PROVE  (x \o Append(u, Head(v))) \o Tail(v) = (x \o u) \o v
<1> DEFINE h == Head(v)
           t == Tail(v)
<1>1. h \in Word /\ t \in Seq(Word) /\ <<h>> \in Seq(Word)
  BY HeadTailProperties
<1>2. v = <<h>> \o t
  <2>1. Len(<<h>>) = 1 /\ <<h>>[1] = h /\ Len(v) \in Nat \ {0}
    BY <1>1, EmptySeq
  <2>2. Len(t) = Len(v) - 1 /\ \A i \in 1..Len(t) : t[i] = v[i + 1]
    BY HeadTailProperties
  <2>3. h = v[1]
    OBVIOUS
  <2> HIDE DEF h, t
  <2>4. /\ <<h>> \o t \in Seq(Word) /\ Len(<<h>> \o t) = 1 + Len(t)
        /\ \A i \in 1..1 + Len(t) :
              (<<h>> \o t)[i] = IF i <= 1 THEN <<h>>[i] ELSE t[i - 1]
    BY <1>1, <2>1, ConcatProperties
  <2>5. Len(<<h>> \o t) = Len(v)
    BY <2>1, <2>2, <2>4
  <2>6. ASSUME NEW i \in 1..Len(v) PROVE (<<h>> \o t)[i] = v[i]
    <3>1. i \in 1..1 + Len(t)
      BY <2>1, <2>2
    <3>2. CASE i = 1
      BY <2>1, <2>3, <2>4, <3>1, <3>2
    <3>3. CASE i # 1
      <4>1. i - 1 \in 1..Len(t) /\ ~(i <= 1) /\ (i - 1) + 1 = i
        BY <3>1, <3>3, <2>1, <2>2
      <4> QED BY <2>2, <2>4, <3>1, <4>1
    <3> QED BY <3>2, <3>3
  <2> QED BY <2>4, <2>5, <2>6, SeqEqual
<1> HIDE DEF h, t
<1>3. Append(u, h) = u \o <<h>>
  BY <1>1, AppendIsConcat
<1>4. (x \o (u \o <<h>>)) \o t = ((x \o u) \o <<h>>) \o t
  BY <1>1, WordsAssociate
<1>5. x \o u \in Seq(Word)
  BY ConcatProperties
<1>6. ((x \o u) \o <<h>>) \o t = (x \o u) \o (<<h>> \o t)
  BY <1>1, <1>5, WordsAssociate
<1> QED BY <1>2, <1>3, <1>4, <1>6 DEF h, t

(* An arrival moves one word from the link to the FIFO.                    *)
LEMMA WayArrived ==
    ASSUME Base, NEW s \in SFP, Way(s), Arrive(s)
    PROVE  Way(s)'
<1>1. /\ link[s] # <<>> /\ fifo'[s] = Append(fifo[s], Head(link[s]))
      /\ link'[s] = Tail(link[s])
      /\ UNCHANGED <<received, fragment, pre_cnt, eods>>
  BY DEF Arrive, Base, Types, builderVars, setup
<1>2. Produced(pre_cnt)' = Produced(pre_cnt)
  BY <1>1 DEF Produced, Event, Period
<1>3. /\ received[s] \o Contents(fragment[s]) \in Seq(Word)
      /\ fifo[s] \in Seq(Word) /\ link[s] \in Seq(Word)
  BY FiledWords, ConcatProperties DEF Base, Types
<1>4. Contents(fragment[s])' = Contents(fragment[s])
  BY <1>1 DEF Contents
<1> DEFINE x == received[s] \o Contents(fragment[s])
<1>5. Produced(pre_cnt) = (x \o fifo[s]) \o link[s]
  BY DEF Way
<1>6. (x \o Append(fifo[s], Head(link[s]))) \o Tail(link[s]) = (x \o fifo[s]) \o link[s]
  <2> HIDE DEF x
  <2>1. x \in Seq(Word)
    BY <1>3 DEF x
  <2> QED BY <1>1, <1>3, <2>1, Shift
<1>7. x' = x
  BY <1>1, <1>4
<1>8. Produced(pre_cnt)' = (x' \o fifo'[s]) \o link'[s]
  <2> HIDE DEF x
  <2> QED BY <1>1, <1>2, <1>5, <1>6, <1>7
<1> QED BY <1>8 DEF Way

(* A pretrigger adds its event behind what was produced.                   *)
LEMMA WayPretrigger ==
    ASSUME Base, NEW s \in SFP, Way(s), Pretrigger
    PROVE  Way(s)'
<1> DEFINE t == pre_cnt + 1
<1>1. /\ t \in 1..MaxTriggers /\ pre_cnt \in 0..(MaxTriggers - 1) /\ pre_cnt' = t
      /\ link'[s] = link[s] \o Event(t)
      /\ UNCHANGED <<received, fragment, fifo, eods>>
      /\ eods \in 1..EodRun
  <2>1. pre_cnt \in 0..MaxTriggers /\ pre_cnt < MaxTriggers /\ pre_cnt' = t
    BY DEF Pretrigger, Base, Types
  <2>2. t \in 1..MaxTriggers /\ pre_cnt \in 0..(MaxTriggers - 1)
    BY <2>1, Constants
  <2>3. link' = [r \in SFP |-> link[r] \o Event(t)]
    BY DEF Pretrigger
  <2> QED BY <2>1, <2>2, <2>3 DEF Pretrigger, Base, Types, builderVars, setup
<1>2. Produced(pre_cnt)' = Produced(pre_cnt) \o Event(t)
  <2>1. Produced(pre_cnt)' = Produced(t)
    BY <1>1 DEF Produced, Event, Period
  <2> QED BY <1>1, <2>1, ProducedNext
<1>3. Event(t) \in Seq(Word)
  BY <1>1, EventWords
<1>4. /\ received[s] \o Contents(fragment[s]) \o fifo[s] \in Seq(Word)
      /\ link[s] \in Seq(Word)
  BY FiledWords, ConcatProperties DEF Base, Types
<1> HIDE DEF t
<1>5. Contents(fragment[s])' = Contents(fragment[s])
  BY <1>1 DEF Contents
<1> DEFINE x == received[s] \o Contents(fragment[s]) \o fifo[s]
<1>6. Produced(pre_cnt) = x \o link[s]
  BY DEF Way
<1>7. (x \o link[s]) \o Event(t) = x \o (link[s] \o Event(t))
  <2> HIDE DEF x
  <2>1. x \in Seq(Word)
    BY <1>4 DEF x
  <2> QED BY <1>3, <1>4, <2>1, WordsAssociate
<1>8. x' = x
  BY <1>1, <1>5
<1>9. Produced(pre_cnt)' = x' \o link'[s]
  <2> HIDE DEF x
  <2> QED BY <1>1, <1>2, <1>6, <1>7, <1>8
<1> QED BY <1>9 DEF Way

(* Collecting moves an answer to data, or data and an answer to the file.  *)
LEMMA FiledCollected ==
    ASSUME Base, Base', NEW s \in SFP, Collect
    PROVE  Filed(s)' \o Answered(s)' = Filed(s) \o Answered(s)
<1> DEFINE c == Len(data)
<1>1. c = 0 \/ c = 1
  BY CollectBase, Constants
<1>2. s = 0 \/ s = 1
  BY Constants
<1>3. /\ answer[c] # <<>> /\ answer' = [answer EXCEPT ![c] = <<>>]
  BY CollectBase
<1>4. /\ Payloads(s) \in Seq(Seq(Word))
      /\ FlattenSeq(Payloads(s)) \in Seq(Word)
      /\ Collected(s) \in Seq(Word)
      /\ Filed(s) = FlattenSeq(Payloads(s)) \o Collected(s)
      /\ Filed(s) \in Seq(Word)
      /\ Answered(s) \in Seq(Word)
  BY FiledWords
<1>5. Filed(s)' = FlattenSeq(Payloads(s)') \o Collected(s)'
  BY DEF Filed, Payloads, Collected
<1> HIDE DEF c
<1>6. CASE c = 0
  <2>1. data = <<>> /\ data' = <<Head(answer[0])>> /\ file' = file
    BY <1>6, CollectBase DEF c
  <2>2. Payloads(s)' = Payloads(s)
    BY <2>1 DEF Payloads
  <2>3. CASE s = 0
    <3>1. Collected(s) = <<>> /\ Collected(s)' = Answered(s) /\ Answered(s)' = <<>>
      <4>1. /\ Len(data) = 0 /\ Len(data') = 1 /\ data'[0 + 1] = Head(answer[0])
        BY <2>1
      <4>2. Answered(s) = Head(answer[0]).payload /\ Answered(s)' = <<>>
        BY <1>3, <1>6, <2>3 DEF Answered, Base, Types
      <4> QED BY <2>3, <4>1, <4>2 DEF Collected
    <3> QED BY <1>4, <1>5, <2>2, <3>1, ConcatEmptySeq
  <2>4. CASE s = 1
    <3>1. Collected(s) = <<>> /\ Collected(s)' = <<>>
      <4>1. Len(data) = 0 /\ Len(data') = 1
        BY <2>1
      <4> QED BY <2>4, <4>1 DEF Collected
    <3>2. Answered(s)' = Answered(s)
      BY <1>3, <1>6, <2>4, Constants DEF Answered, Base, Types
    <3> QED BY <1>4, <1>5, <2>2, <3>1, <3>2
  <2> QED BY <1>2, <2>3, <2>4
<1>7. CASE c = 1
  <2> DEFINE d == Head(data)
             a == Head(answer[1])
             x == IF s = 0 THEN d.payload ELSE a.payload
  <2>1. /\ data = <<d>> /\ d \in SB!Answer /\ a \in SB!Answer /\ data' = <<>>
        /\ file' = Append(file, <<d, a>>)
    BY <1>7, CollectBase DEF c
  <2>2. x \in Seq(Word)
    BY <2>1, SameWord DEF SB!Answer
  <2>3. Payloads(s)' = Append(Payloads(s), x)
    <3>1. <<d, a>> \in [1..2 -> SB!Answer] /\ <<d, a>>[1] = d /\ <<d, a>>[2] = a
      BY <2>1
    <3>2. file \in Seq([1..2 -> SB!Answer])
      BY DEF Base, Types
    <3> HIDE DEF d, a
    <3>3. /\ Len(file') = Len(file) + 1 /\ file'[Len(file) + 1] = <<d, a>>
          /\ \A e \in 1..Len(file) : file'[e] = file[e]
          /\ Len(file) \in Nat
      BY <2>1, <3>1, <3>2, AppendProperties
    <3>4. <<d, a>>[s + 1].payload = x
      BY <1>2, <3>1
    <3> HIDE DEF x
    <3>5. Payloads(s) \in Seq(Seq(Word)) /\ Len(Payloads(s)) = Len(file)
      BY <1>4, <3>3 DEF Payloads
    <3>6. Payloads(s)' = [e \in 1..Len(file) + 1 |-> file'[e][s + 1].payload]
      BY <3>3 DEF Payloads
    <3>7. ASSUME NEW e \in 1..Len(file) + 1
          PROVE  file'[e][s + 1].payload =
                   IF e = Len(file) + 1 THEN x ELSE Payloads(s)[e]
      BY <3>3, <3>4 DEF Payloads
    <3>8. /\ Append(Payloads(s), x) \in Seq(Seq(Word))
          /\ Len(Append(Payloads(s), x)) = Len(file) + 1
          /\ \A e \in 1..Len(file) : Append(Payloads(s), x)[e] = Payloads(s)[e]
          /\ Append(Payloads(s), x)[Len(file) + 1] = x
      BY <2>2, <3>5, AppendProperties
    <3>9. ASSUME NEW e \in 1..Len(file) + 1
          PROVE  Append(Payloads(s), x)[e] =
                   IF e = Len(file) + 1 THEN x ELSE Payloads(s)[e]
      BY <3>3, <3>8
    <3>10. Payloads(s)' \in [1..Len(file) + 1 -> Seq(Word)]
      <4>1. ASSUME NEW e \in 1..Len(file) + 1
            PROVE  file'[e][s + 1].payload \in Seq(Word)
        BY <2>2, <3>3, <3>5, <3>7
      <4> QED BY <3>6, <4>1
    <3>11. Payloads(s)' \in Seq(Seq(Word)) /\ Len(Payloads(s)') = Len(file) + 1
      BY <3>3, <3>10
    <3>12. \A e \in 1..Len(file) + 1 : Payloads(s)'[e] = Append(Payloads(s), x)[e]
      BY <3>6, <3>7, <3>9
    <3> QED BY <3>8, <3>11, <3>12, SeqEqual
  <2>4. FlattenSeq(Payloads(s)') = FlattenSeq(Payloads(s)) \o x
    BY <1>4, <2>2, <2>3, FlattenSeqAppend
  <2>5. Len(data) = 1 /\ data[0 + 1] = d /\ Len(data') = 0
    BY <2>1
  <2>6. Collected(s)' = <<>>
    BY <1>2, <2>5 DEF Collected
  <2>7. FlattenSeq(Payloads(s)) \o x \in Seq(Word)
    BY <1>4, <2>2, ConcatProperties
  <2>8. Filed(s)' = FlattenSeq(Payloads(s)) \o x
    BY <1>5, <2>4, <2>6, <2>7, ConcatEmptySeq
  <2>9. CASE s = 0
    <3>1. Collected(s) = x
      BY <2>5, <2>9 DEF Collected
    <3>2. Answered(s)' = Answered(s)
      BY <1>3, <1>7, <2>9, Constants DEF Answered, Base, Types
    <3> QED BY <1>4, <2>8, <3>1, <3>2
  <2>10. CASE s = 1
    <3>1. Collected(s) = <<>>
      BY <2>5, <2>10 DEF Collected
    <3>2. Answered(s) = x /\ Answered(s)' = <<>>
      BY <1>3, <1>7, <2>10, Constants DEF Answered, Base, Types
    <3> QED BY <1>4, <2>7, <2>8, <3>1, <3>2, ConcatEmptySeq
  <2> QED BY <1>2, <2>9, <2>10
<1> QED BY <1>1, <1>6, <1>7

(* minidaq moves an answer into the event, and the event into the file.    *)
LEMMA KeptCollected ==
    ASSUME Base, Base', NEW s \in SFP, Kept(s), Collect
    PROVE  Kept(s)'
<1>1. UNCHANGED <<overflowed, received, buffer>>
  BY DEF Collect
<1>2. Filed(s)' \o Answered(s)' = Filed(s) \o Answered(s)
  BY FiledCollected
<1> QED BY <1>1, <1>2 DEF Kept

(* Nothing is on the way when all programs start.                          *)
LEMMA InitStreams == Init => Streams
<1> SUFFICES ASSUME Init, NEW s \in SFP PROVE Way(s) /\ Kept(s)
  BY DEF Streams
<1>1. <<>> \o <<>> = <<>>
  BY EmptySeq, ConcatEmptySeq
<1>2. Way(s)
  <2>1. Produced(pre_cnt) = <<>>
    BY ProducedNothing DEF Init
  <2> QED BY <1>1, <2>1 DEF Init, SB!Init, Way, Contents
<1>3. Kept(s)
  <2>1. file = <<>> /\ data = <<>> /\ Len(file) = 0 /\ Len(data) = 0
    BY DEF Init
  <2>2. [e \in 1..Len(file) |-> file[e][s + 1].payload] = <<>>
    <3>1. [e \in 1..Len(file) |-> file[e][s + 1].payload] \in [1..0 -> Seq(Word)]
      BY <2>1
    <3> QED BY <3>1
  <2>3. Filed(s) = <<>>
    BY <1>1, <2>1, <2>2, FlattenSeqEmpty, Constants DEF Filed
  <2> QED BY <1>1, <2>3 DEF Init, SB!Init, Kept, Answered
<1> QED BY <1>2, <1>3

(* A step of a builder loses no word, except in the overflow reset.        *)
LEMMA BuildStreams ==
    ASSUME Base, Base', Streams, NEW s \in SFP, Build(s)
    PROVE  Streams'
<1> SUFFICES ASSUME NEW r \in SFP PROVE Way(r)' /\ Kept(r)'
  BY DEF Streams
<1>1. Way(r) /\ Kept(r) /\ UNCHANGED <<eods, pre_cnt, fifo, link, file, data>>
  BY DEF Streams, Build, boxVars, setup, daqVars
<1>2. CASE SB!RecvRead(s)
  <2>1. UNCHANGED <<received, fragment, overflowed, answer, buffer>>
    BY <1>2 DEF SB!RecvRead, SB!history
  <2> QED BY <1>1, <2>1, WaySame, KeptSame
<1>3. CASE SB!ReplyTimeout(s) \/ SB!QueryAgain(s) \/ SB!ReplySubevent(s)
  <2>1. SB!RecvFragment(s)
    BY <1>3 DEF SB!ReplyTimeout, SB!QueryAgain, SB!ReplySubevent
  <2>2. CASE r # s
    <3>1. UNCHANGED <<received[r], fragment[r], overflowed[r]>>
      <4>1. /\ fragment' = [fragment EXCEPT ![s] = <<>>]
            /\ received' = [received EXCEPT ![s] = @ \o Head(fragment[s])]
            /\ overflowed'[r] = overflowed[r]
        BY <2>1, <2>2, ReceivedTypes
      <4> QED BY <2>2, <4>1 DEF Base, Types
    <3>2. UNCHANGED <<answer[r], buffer[r]>>
      BY <1>3, <2>2 DEF SB!ReplyTimeout, SB!QueryAgain, SB!ReplySubevent, Base, Types
    <3> QED BY <1>1, <3>1, <3>2, WaySame, KeptSame
  <2>3. CASE r = s
    <3>1. Way(s)'
      BY <1>1, <2>1, <2>3, WayReceived
    <3>2. SB!Filled(s) \in Seq(Word) /\ answer[s] = <<>>
      BY <2>1, Received
    <3>3. SB!Filled(s) = Answered(s)' \o buffer'[s]
      <4>1. CASE SB!ReplyTimeout(s)
        <5>1. buffer'[s] = SB!Filled(s)
          BY <4>1 DEF SB!ReplyTimeout, Base, Types
        <5>2. Answered(s)' = <<>>
          <6>1. answer'[s] = <<[status |-> 1, payload |-> <<>>]>>
            BY <4>1 DEF SB!ReplyTimeout, Base, Types
          <6> QED BY <6>1, NotEmpty DEF Answered
        <5> QED BY <3>2, <5>1, <5>2, ConcatEmptySeq
      <4>2. CASE SB!QueryAgain(s)
        <5>1. buffer'[s] = SB!Filled(s) /\ answer'[s] = <<>>
          BY <3>2, <4>2 DEF SB!QueryAgain, Base, Types
        <5> QED BY <3>2, <5>1, ConcatEmptySeq DEF Answered
      <4>3. CASE SB!ReplySubevent(s)
        <5> DEFINE n == SB!FoundSize(s)
                   b == SB!Filled(s)
        <5>1. n \in 1..Len(b)
          <6>1. n # 0
            BY <2>1, <4>3, Received DEF SB!ReplySubevent
          <6> QED BY <2>1, <6>1, Received
        <5>2. /\ buffer'[s] = SubSeq(b, n + 1, Len(b))
              /\ answer'[s] = <<[status |-> status[s], payload |-> SubSeq(b, 1, n)]>>
          BY <4>3 DEF SB!ReplySubevent, Base, Types
        <5> HIDE DEF n, b
        <5>3. Answered(s)' = SubSeq(b, 1, n)
          BY <5>2, NotEmpty DEF Answered
        <5>4. b = SubSeq(b, 1, n) \o SubSeq(b, n + 1, Len(b))
          <6>1. b \in Seq(Word)
            BY <3>2 DEF b
          <6>2. n \in 0..Len(b)
            BY <5>1
          <6> QED BY <6>1, <6>2, CutBuffer
        <5> QED BY <5>2, <5>3, <5>4 DEF b
      <4> QED BY <1>3, <4>1, <4>2, <4>3
    <3>4. Kept(s)'
      BY <1>1, <2>1, <2>3, <3>3, KeptReceived
    <3> QED BY <2>3, <3>1, <3>4
  <2> QED BY <2>2, <2>3
<1> QED BY <1>2, <1>3 DEF Build

(* No step loses, repeats or reorders a word.                              *)
LEMMA NextStreams ==
    ASSUME Base, Base', Streams, [Next]_vars
    PROVE  Streams'
<1>1. CASE \E s \in SFP : Build(s)
  BY <1>1, BuildStreams
<1>2. CASE UNCHANGED <<builderVars, fifo, pre_cnt, setup, link, data, file>>
  <2>1. \A r \in SFP : Way(r)'
    BY <1>2, WaySame DEF Streams, builderVars, setup
  <2>2. \A r \in SFP : Kept(r)'
    BY <1>2, KeptSame DEF Streams, builderVars
  <2> QED BY <2>1, <2>2 DEF Streams
<1>3. CASE \/ ServeUnblock \/ ServeCount
           \/ SendUnblock \/ Confirmed \/ Baseline \/ PollAgain \/ Triggered
  <2>1. UNCHANGED <<builderVars, fifo, pre_cnt, setup, link, data, file>>
    BY <1>3 DEF ServeUnblock, ServeCount, SendUnblock, Confirmed, Baseline,
                PollAgain, Triggered, boxVars
  <2> QED BY <1>2, <2>1
<1>4. CASE \E s \in SFP : SendRead(s) \/ Expire(s)
  <2>1. UNCHANGED <<received, fragment, overflowed, answer, buffer, fifo, pre_cnt,
                    eods, link, data, file>>
    BY <1>4 DEF SendRead, Expire, SB!Expire, boxVars, setup, daqVars, SB!cmdsock,
                SB!ccbus, SB!header, SB!history
  <2> QED BY <2>1, WaySame, KeptSame DEF Streams
<1>5. ASSUME NEW s \in SFP, ServeDump(s) PROVE Streams'
  <2>1. \A r \in SFP : Way(r)'
    <3> TAKE r \in SFP
    <3>1. CASE r = s
      BY <1>5, <3>1, WayDumped DEF Streams
    <3>2. CASE r # s
      <4>1. UNCHANGED <<eods, pre_cnt, received[r], fragment[r], fifo[r], link[r]>>
        BY <1>5, <3>2 DEF ServeDump, setup, Base, Types
      <4> QED BY <4>1, WaySame DEF Streams
    <3> QED BY <3>1, <3>2
  <2>2. UNCHANGED <<file, data, overflowed, received, answer, buffer>>
    BY <1>5 DEF ServeDump, daqVars
  <2> QED BY <2>1, <2>2, KeptSame DEF Streams
<1>6. ASSUME NEW s \in SFP, Arrive(s) PROVE Streams'
  <2>1. \A r \in SFP : Way(r)'
    <3> TAKE r \in SFP
    <3>1. CASE r = s
      BY <1>6, <3>1, WayArrived DEF Streams
    <3>2. CASE r # s
      <4>1. UNCHANGED <<eods, pre_cnt, received[r], fragment[r], fifo[r], link[r]>>
        BY <1>6, <3>2 DEF Arrive, setup, builderVars, Base, Types
      <4> QED BY <4>1, WaySame DEF Streams
    <3> QED BY <3>1, <3>2
  <2>2. UNCHANGED <<file, data, overflowed, received, answer, buffer>>
    BY <1>6 DEF Arrive, builderVars, daqVars
  <2> QED BY <2>1, <2>2, KeptSame DEF Streams
<1>7. CASE Pretrigger
  <2>1. UNCHANGED <<file, data, overflowed, received, answer, buffer>>
    BY <1>7 DEF Pretrigger, builderVars, daqVars
  <2> QED BY <1>7, <2>1, WayPretrigger, KeptSame DEF Streams
<1>8. CASE Collect
  <2>1. UNCHANGED <<eods, pre_cnt, received, fragment, fifo, link>>
    BY <1>8 DEF Collect, boxVars, setup
  <2> QED BY <1>8, <2>1, WaySame, KeptCollected DEF Streams
<1>9. CASE UNCHANGED vars
  BY <1>2, <1>9 DEF vars, boxVars, daqVars
<1> QED BY <1>1, <1>3, <1>4, <1>5, <1>6, <1>7, <1>8, <1>9 DEF Next, Minidaq

-----------------------------------------------------------------------------
(* InStep, for events that fit the builder's buffer.                       *)
Safe == Base /\ Counting

(* What is on the way to minidaq is a sequence of words.                   *)
LEMMA InFlightWords ==
    ASSUME Base, NEW s \in SFP
    PROVE  /\ buffer[s] \in Seq(Word) /\ Contents(fragment[s]) \in Seq(Word)
           /\ fifo[s] \in Seq(Word) /\ link[s] \in Seq(Word)
           /\ buffer[s] \o Contents(fragment[s]) \in Seq(Word)
           /\ buffer[s] \o Contents(fragment[s]) \o fifo[s] \in Seq(Word)
           /\ InFlight(s) \in Seq(Word)
<1>1. Contents(fragment[s]) \in Seq(Word)
  BY FiledWords
<1>2. buffer[s] \in Seq(Word) /\ fifo[s] \in Seq(Word) /\ link[s] \in Seq(Word)
  BY DEF Base, Types
<1>3. buffer[s] \o Contents(fragment[s]) \in Seq(Word)
  BY <1>1, <1>2, ConcatProperties
<1>4. buffer[s] \o Contents(fragment[s]) \o fifo[s] \in Seq(Word)
  BY <1>2, <1>3, ConcatProperties
<1>5. InFlight(s) \in Seq(Word)
  BY <1>2, <1>4, ConcatProperties DEF InFlight
<1> QED BY <1>1, <1>2, <1>3, <1>4, <1>5

(* While a builder serves a read the newest event is in flight.            *)
LEMMA EventInFlight ==
    ASSUME Safe, InStep, autoblock, eods = 1, NEW s \in SFP, pc[s] = "dump", Clean(s)
    PROVE  /\ pre_cnt \in 1..MaxTriggers /\ pre_cnt = Len(file) + 1
           /\ mpc \in {"read1", "collect"}
           /\ ~(Len(data) > s)
           /\ InFlight(s) = Event(pre_cnt)
<1>1. mpc \in {"read0", "read1", "collect"} /\ mpc # "read0"
  BY DEF Safe, Base, Reading, Idle
<1>2. pre_cnt = Len(file) + 1 /\ Len(file) \in Nat
  BY <1>1, LenProperties DEF Safe, Counting, Base, Types
<1>3. pre_cnt \in 1..MaxTriggers
  BY <1>2, Constants DEF Safe, Base, Types
<1>4. ~(Len(data) > s)
  <2>1. data \in Seq(SB!Answer) /\ Len(data) <= 1
    BY OneOf DEF Safe, Base, Types
  <2>2. data # <<>> => s # 0
    BY DEF Safe, Base, Reading, Idle
  <2>3. s = 0 \/ s = 1
    BY Constants
  <2>4. data = <<>> => Len(data) = 0
    BY EmptySeq
  <2>5. Len(data) \in Nat
    BY <2>1
  <2> QED BY <2>1, <2>2, <2>3, <2>4, <2>5
<1>5. Answers(s) = <<>>
  BY <1>4 DEF Answers, Safe, Base, Builders
<1>6. InFlight(s) = Event(pre_cnt)
  BY <1>2, <1>5 DEF InStep, LinkInStep
<1> QED BY <1>1, <1>2, <1>3, <1>4, <1>6

(* A front of the event that ends with a marker is the whole event.        *)
LEMMA WholeEvent ==
    ASSUME eods = 1, NEW t \in 1..MaxTriggers, NEW b \in Seq(Word), NEW u \in Seq(Word),
           NEW v \in Seq(Word), (b \o u) \o v = Event(t)
    PROVE  /\ Len(b) <= EventSize + 1
           /\ \A n \in 1..Len(b) : b[n] = EOD =>
                /\ n = Len(b) /\ b = Event(t)
                /\ u = <<>> /\ v = <<>>
<1>1. /\ Period = EventSize + 1 /\ EventSize \in Nat
      /\ Event(t) \in Seq(Word) /\ Len(Event(t)) = Period
      /\ \A k \in 1..Period : (Event(t)[k] = EOD <=> k > EventSize)
  BY EventWords, Constants DEF Period
<1>2. /\ Len(b) \in Nat /\ Len(u) \in Nat /\ Len(v) \in Nat
      /\ b \o u \in Seq(Word) /\ Len(b \o u) = Len(b) + Len(u)
      /\ Len((b \o u) \o v) = Len(b) + Len(u) + Len(v)
  BY ConcatProperties
<1>3. Len(b) + Len(u) + Len(v) = EventSize + 1
  BY <1>1, <1>2
<1>4. Len(b) <= EventSize + 1
  BY <1>1, <1>2, <1>3
<1>5. ASSUME NEW n \in 1..Len(b), b[n] = EOD
      PROVE  n = Len(b) /\ b = Event(t) /\ u = <<>> /\ v = <<>>
  <2>1. Event(t)[n] = EOD
    <3>1. n \in 1..Len(b \o u) /\ n <= Len(b) /\ n \in 1..Len(b) + Len(u)
          /\ n \in 1..Len(b \o u) + Len(v)
      BY <1>2
    <3>2. (b \o u)[n] = b[n]
      BY <3>1, ConcatProperties
    <3>3. ((b \o u) \o v)[n] = (b \o u)[n]
      BY <1>2, <3>1, ConcatProperties
    <3> QED BY <1>5, <3>2, <3>3
  <2>2. n \in 1..Period
    BY <1>1, <1>2, <1>3
  <2>3. n > EventSize
    BY <1>1, <2>1, <2>2
  <2>4. n = Len(b) /\ Len(u) = 0 /\ Len(v) = 0
    BY <1>1, <1>2, <1>3, <2>3
  <2>5. u = <<>> /\ v = <<>>
    BY <2>4, EmptySeq
  <2>6. (b \o u) \o v = b
    BY <2>5, ConcatEmptySeq
  <2> QED BY <2>4, <2>5, <2>6
<1> QED BY <1>4, <1>5

(* A step that writes no event.                                            *)
LEMMA FileSame ==
    ASSUME NEW s \in SFP, FileInStep(s), UNCHANGED <<eods, file>>
    PROVE  FileInStep(s)'
<1>1. \A e : Event(e)' = Event(e)
  BY DEF Event, Period
<1> QED BY <1>1 DEF FileInStep

(* A step after which the same words are on the way.                       *)
LEMMA LinkSame ==
    ASSUME NEW s \in SFP, LinkInStep(s), UNCHANGED <<eods, pre_cnt, file, data>>,
           UNCHANGED answer[s], InFlight(s)' = InFlight(s)
    PROVE  LinkInStep(s)'
<1>1. \A e : Event(e)' = Event(e)
  BY DEF Event, Period
<1>2. Answers(s)' = Answers(s) /\ Clean(s)' = Clean(s)
  BY DEF Answers, Clean
<1> HIDE DEF InFlight
<1> QED BY <1>1, <1>2 DEF LinkInStep

(* The fragment is in its place in the event, and there is room for it.    *)
LEMMA FragmentInFlight ==
    ASSUME EventSize < MaxPayload, Safe, InStep, autoblock, eods = 1,
           NEW s \in SFP, SB!RecvFragment(s), Clean(s)
    PROVE  /\ SB!Filled(s) = buffer[s] \o Head(fragment[s])
           /\ (SB!Filled(s) \o fifo[s]) \o link[s] = Event(pre_cnt)
           /\ InFlight(s) = (SB!Filled(s) \o fifo[s]) \o link[s]
<1> DEFINE f == Head(fragment[s])
           b == buffer[s] \o f
<1>1. /\ pc[s] = "dump" /\ fragment[s] # <<>> /\ f \in Seq(Word)
      /\ ~SB!Overflows(buffer[s], f) => SB!Filled(s) = b
  BY Received DEF Safe
<1>2. Contents(fragment[s]) = f
  BY <1>1 DEF Contents
<1>3. pre_cnt \in 1..MaxTriggers /\ InFlight(s) = Event(pre_cnt)
  BY <1>1, EventInFlight
<1>4. buffer[s] \in Seq(Word) /\ fifo[s] \in Seq(Word) /\ link[s] \in Seq(Word)
  BY DEF Safe, Base, Types
<1>5. b \in Seq(Word) /\ Len(b) = Len(buffer[s]) + Len(f)
  BY <1>1, <1>4, ConcatProperties
<1>6. InFlight(s) = (b \o fifo[s]) \o link[s]
  BY <1>2 DEF InFlight
<1>7. Len(b) <= EventSize + 1
  <2> HIDE DEF b
  <2> QED BY <1>3, <1>4, <1>5, <1>6, WholeEvent
<1>8. ~SB!Overflows(buffer[s], f)
  <2>1. Len(f) \in Nat /\ Len(buffer[s]) \in Nat
    BY <1>1, <1>4
  <2> HIDE DEF f, b
  <2>2. Len(buffer[s]) + Len(f) <= EventSize + 1
    BY <1>5, <1>7
  <2> QED BY <2>1, <2>2, Constants DEF SB!Overflows
<1> QED BY <1>1, <1>3, <1>6, <1>8

(* A builder answers with the event on its way, or keeps it there.         *)
LEMMA ReceivedInStep ==
    ASSUME EventSize < MaxPayload, Safe, Base', InStep, autoblock, eods = 1,
           NEW s \in SFP,
           SB!ReplyTimeout(s) \/ SB!QueryAgain(s) \/ SB!ReplySubevent(s),
           UNCHANGED <<eods, pre_cnt, fifo, link, file, data>>
    PROVE  LinkInStep(s)'
<1>1. SB!RecvFragment(s) /\ pc[s] = "dump"
  BY DEF SB!ReplyTimeout, SB!QueryAgain, SB!ReplySubevent, SB!RecvFragment
<1> SUFFICES ASSUME Clean(s)' PROVE LinkInStep(s)'
  BY DEF LinkInStep
<1>2. Clean(s)
  BY DEF Clean
<1>3. /\ pre_cnt \in 1..MaxTriggers /\ pre_cnt = Len(file) + 1
      /\ ~(Len(data) > s)
      /\ InFlight(s) = Event(pre_cnt)
      /\ LinkInStep(s)
  BY <1>1, <1>2, EventInFlight DEF InStep
<1>4. (SB!Filled(s) \o fifo[s]) \o link[s] = Event(pre_cnt)
  BY <1>1, <1>2, FragmentInFlight
<1>5. /\ SB!Filled(s) \in Seq(Word) /\ answer[s] = <<>>
      /\ fifo[s] \in Seq(Word) /\ link[s] \in Seq(Word)
      /\ fragment' = [fragment EXCEPT ![s] = <<>>]
  BY <1>1, Received, ReceivedTypes DEF Safe, Base, Types
<1>6. Contents(fragment[s])' = <<>>
  BY <1>5 DEF Contents, Safe, Base, Types
<1>7. \A e : Event(e)' = Event(e)
  BY DEF Event, Period
<1>8. pre_cnt' # Len(file') /\ Answers(s)' = answer'[s]
  <2>1. Len(file) \in Nat
    BY LenProperties DEF Safe, Base, Types
  <2> QED BY <1>3, <2>1 DEF Answers
<1>9. CASE SB!ReplyTimeout(s)
  <2>1. answer'[s] = <<[status |-> 1, payload |-> <<>>]>>
    BY <1>9 DEF SB!ReplyTimeout, Safe, Base, Types
  <2>2. answer'[s] # <<>> /\ Head(answer'[s]).status # 0
    BY <2>1, NotEmpty
  <2> QED BY <1>8, <2>2 DEF LinkInStep
<1>10. CASE SB!QueryAgain(s)
  <2>1. answer'[s] = answer[s] /\ buffer'[s] = SB!Filled(s)
    BY <1>10 DEF SB!QueryAgain, Safe, Base, Types
  <2>2. InFlight(s)' = ((SB!Filled(s) \o <<>>) \o fifo[s]) \o link[s]
    BY <1>6, <2>1 DEF InFlight
  <2>3. InFlight(s)' = InFlight(s)
    BY <1>3, <1>4, <1>5, <2>2, ConcatEmptySeq
  <2> QED BY <1>3, <2>1, <2>3, LinkSame
<1>11. CASE SB!ReplySubevent(s)
  <2> DEFINE n == SB!FoundSize(s)
             b == SB!Filled(s)
  <2>1. n \in 1..Len(b) /\ SB!IsSubeventEnd(b, n)
    <3>1. n # 0
      BY <1>1, <1>11, Received DEF Safe, SB!ReplySubevent
    <3> QED BY <1>1, <3>1, Received DEF Safe
  <2>2. /\ buffer'[s] = SubSeq(b, n + 1, Len(b))
        /\ answer'[s] = <<[status |-> status[s], payload |-> SubSeq(b, 1, n)]>>
    BY <1>11 DEF SB!ReplySubevent, Safe, Base, Types
  <2> HIDE DEF n, b
  <2>3. b[n] = EOD
    BY <2>1 DEF SB!IsSubeventEnd
  <2>4. b \in Seq(Word) /\ (b \o fifo[s]) \o link[s] = Event(pre_cnt)
    BY <1>4, <1>5 DEF b
  <2>5. n = Len(b) /\ b = Event(pre_cnt) /\ fifo[s] = <<>> /\ link[s] = <<>>
    BY <1>3, <1>5, <2>1, <2>3, <2>4, WholeEvent
  <2>6. SubSeq(b, 1, n) = b /\ SubSeq(b, n + 1, Len(b)) = <<>>
    BY <2>4, <2>5, SubSeqFull, SubSeqEmpty
  <2>7. InFlight(s)' = <<>>
    <3>1. <<>> \o <<>> = <<>>
      BY EmptySeq, ConcatEmptySeq
    <3> QED BY <1>6, <2>2, <2>5, <2>6, <3>1 DEF InFlight
  <2>8. answer'[s] # <<>> /\ Head(answer'[s]).payload = Event(pre_cnt)
    BY <2>2, <2>5, <2>6, NotEmpty
  <2> QED BY <1>7, <1>8, <2>7, <2>8 DEF LinkInStep
<1> QED BY <1>9, <1>10, <1>11

(* A dump leaves what is on the way as it is.                              *)
LEMMA DumpedInStep ==
    ASSUME Base, NEW s \in SFP, ServeDump(s)
    PROVE  InFlight(s)' = InFlight(s)
<1>1. /\ fragment[s] = <<>>
      /\ fragment' = [fragment EXCEPT ![s] = <<fifo[s]>>]
      /\ fifo' = [fifo EXCEPT ![s] = <<>>]
      /\ UNCHANGED <<buffer, link>>
  BY ServeDumpBase DEF ServeDump
<1>2. /\ Contents(fragment[s]) = <<>> /\ Contents(fragment[s])' = fifo[s]
      /\ fifo'[s] = <<>>
  BY <1>1, NotEmpty DEF Contents, Base, Types
<1>3. /\ buffer[s] \o <<>> = buffer[s]
      /\ (buffer[s] \o fifo[s]) \o <<>> = buffer[s] \o fifo[s]
  <2>1. buffer[s] \in Seq(Word) /\ fifo[s] \in Seq(Word)
    BY DEF Base, Types
  <2>2. buffer[s] \o fifo[s] \in Seq(Word)
    BY <2>1, ConcatProperties
  <2> QED BY <2>1, <2>2, ConcatEmptySeq
<1> QED BY <1>1, <1>2, <1>3 DEF InFlight

(* An arrival leaves what is on the way as it is.                          *)
LEMMA ArrivedInStep ==
    ASSUME Base, NEW s \in SFP, Arrive(s)
    PROVE  InFlight(s)' = InFlight(s)
<1> DEFINE x == buffer[s] \o Contents(fragment[s])
<1>1. /\ link[s] # <<>> /\ fifo'[s] = Append(fifo[s], Head(link[s]))
      /\ link'[s] = Tail(link[s])
      /\ UNCHANGED <<buffer, fragment>>
  BY DEF Arrive, Base, Types, builderVars
<1>2. x \in Seq(Word) /\ fifo[s] \in Seq(Word) /\ link[s] \in Seq(Word)
  BY InFlightWords
<1>3. x' = x
  BY <1>1 DEF Contents
<1>4. InFlight(s) = (x \o fifo[s]) \o link[s] /\ InFlight(s)' = (x' \o fifo'[s]) \o link'[s]
  BY DEF InFlight
<1> HIDE DEF x
<1>5. (x \o Append(fifo[s], Head(link[s]))) \o Tail(link[s]) = (x \o fifo[s]) \o link[s]
  BY <1>1, <1>2, Shift
<1> QED BY <1>1, <1>3, <1>4, <1>5

(* A pretrigger is accepted only when the event before it is in the file.  *)
LEMMA PretriggerInStep ==
    ASSUME Safe, InStep, autoblock, eods = 1, Pretrigger, NEW s \in SFP
    PROVE  FileInStep(s)' /\ LinkInStep(s)'
<1> DEFINE t == pre_cnt + 1
<1>1. /\ ~blocked /\ pre_cnt < MaxTriggers /\ pre_cnt' = t
      /\ link' = [r \in SFP |-> link[r] \o Event(t)]
      /\ UNCHANGED <<eods, file, data, answer, buffer, fragment, fifo>>
  BY DEF Pretrigger, builderVars, setup, daqVars
<1>2. pre_cnt \in Nat /\ Len(file) \in Nat /\ blocked \in BOOLEAN
  BY Constants, LenProperties DEF Safe, Base, Types
<1>3. mpc \in {"confirm", "baseline", "poll"} /\ pre_cnt = Len(file)
  <2>1. mpc \in {"confirm", "baseline", "poll"}
    BY <1>1 DEF Safe, Base, Types, Counting
  <2>2. cmd = <<Cmd("unblock")>> \/ cmd = <<>> \/ mpc \in {"baseline", "poll"}
    BY <2>1 DEF Safe, Base, Asking
  <2> QED BY <1>1, <1>2, <2>1, <2>2 DEF Safe, Counting, Ahead
<1>4. data = <<>> /\ answer[s] = <<>>
  BY <1>3 DEF Safe, Base, Reading, Idle
<1>5. t \in 1..MaxTriggers
  <2>1. pre_cnt + 1 \in 1..MaxTriggers
    BY <1>1, <1>2, Constants
  <2> QED BY <2>1
<1>6. Event(t) \in Seq(Word)
  BY <1>5, EventWords DEF Safe, Base, Types
<1>7. \A e : Event(e)' = Event(e)
  BY <1>1 DEF Event, Period
<1>8. FileInStep(s)'
  BY <1>1, FileSame DEF InStep
<1>9. LinkInStep(s)'
  <2> SUFFICES ASSUME Clean(s)' PROVE LinkInStep(s)'
    BY DEF LinkInStep
  <2>1. Clean(s)
    BY <1>1 DEF Clean
  <2>2. InFlight(s) = <<>>
    BY <1>3, <2>1 DEF InStep, LinkInStep
  <2> DEFINE x == buffer[s] \o Contents(fragment[s]) \o fifo[s]
  <2>3. x \in Seq(Word) /\ link[s] \in Seq(Word) /\ InFlight(s) = x \o link[s]
    BY InFlightWords DEF InFlight, Safe
  <2>4. x' = x
    BY <1>1 DEF Contents
  <2>5. InFlight(s)' = x' \o link'[s]
    BY DEF InFlight
  <2> HIDE DEF x, t
  <2>6. (x \o link[s]) \o Event(t) = x \o (link[s] \o Event(t))
    BY <1>6, <2>3, WordsAssociate
  <2>7. <<>> \o Event(t) = Event(t)
    BY <1>6, ConcatEmptySeq
  <2>8. InFlight(s)' = Event(t)
    BY <1>1, <2>2, <2>3, <2>4, <2>5, <2>6, <2>7
  <2>9. Answers(s)' = <<>>
    <3>1. Len(<<>>) = 0 /\ ~(0 > s)
      BY Constants
    <3> QED BY <1>1, <1>4, <3>1 DEF Answers
  <2>10. pre_cnt' # Len(file')
    BY <1>1, <1>2, <1>3 DEF t
  <2>11. InFlight(s)' = Event(pre_cnt)'
    BY <1>1, <1>7, <2>8
  <2> QED BY <2>9, <2>10, <2>11 DEF LinkInStep
<1> QED BY <1>8, <1>9

(* The event written is the event of the newest pretrigger.                *)
LEMMA CollectInStep ==
    ASSUME Safe, Base', InStep, autoblock, eods = 1, Collect, NEW s \in SFP
    PROVE  FileInStep(s)' /\ LinkInStep(s)'
<1> DEFINE c == Len(data)
<1>1. c = 0 \/ c = 1
  BY CollectBase, Constants DEF Safe
<1>2. s = 0 \/ s = 1
  BY Constants
<1>3. /\ mpc = "collect" /\ answer[c] # <<>> /\ answer' = [answer EXCEPT ![c] = <<>>]
      /\ UNCHANGED <<eods, pre_cnt, buffer, fragment, fifo, link>>
  BY CollectBase DEF Safe, Collect, boxVars, setup
<1>4. pre_cnt = Len(file) + 1 /\ Len(file) \in Nat
  BY <1>3, LenProperties DEF Safe, Counting, Base, Types
<1>5. InFlight(s)' = InFlight(s)
  BY <1>3 DEF InFlight, Contents
<1>6. \A e : Event(e)' = Event(e)
  BY <1>3 DEF Event, Period
<1>7. FileInStep(s) /\ LinkInStep(s)
  BY DEF InStep
<1> HIDE DEF c, InFlight
<1>8. CASE c = 0
  <2>1. data = <<>> /\ data' = <<Head(answer[0])>> /\ file' = file
    BY <1>8, CollectBase DEF c, Safe
  <2>2. Len(data) = 0 /\ Len(data') = 1 /\ data'[0 + 1] = Head(answer[0])
    BY <2>1
  <2>3. Answers(s)' = Answers(s)
    <3>1. CASE s = 0
      <4>1. answer[0] = <<Head(answer[0])>>
        BY <1>3, <1>8, Constants, OneOf DEF Safe, Base, Types
      <4> QED BY <2>2, <3>1, <4>1 DEF Answers
    <3>2. CASE s = 1
      <4>1. answer'[1] = answer[1]
        BY <1>3, <1>8, Constants DEF Safe, Base, Types
      <4> QED BY <2>2, <3>2, <4>1 DEF Answers
    <3> QED BY <1>2, <3>1, <3>2
  <2>4. Clean(s)' = Clean(s)
    BY <2>1 DEF Clean
  <2>5. LinkInStep(s)'
    BY <1>3, <1>5, <1>6, <1>7, <2>1, <2>3, <2>4 DEF LinkInStep
  <2> QED BY <1>3, <1>7, <2>1, <2>5, FileSame
<1>9. CASE c = 1
  <2> DEFINE d == Head(data)
             a == Head(answer[1])
             x == IF s = 0 THEN d ELSE a
             m == Len(file) + 1
  <2>1. /\ data = <<d>> /\ d \in SB!Answer /\ a \in SB!Answer /\ data' = <<>>
        /\ file' = Append(file, <<d, a>>)
    BY <1>9, CollectBase DEF c, Safe
  <2>2. Answers(s) # <<>> /\ Head(Answers(s)) = x
    <3>1. Len(data) = 1 /\ data[0 + 1] = d /\ <<d>> # <<>> /\ Head(<<d>>) = d
      BY <2>1, NotEmpty
    <3>2. CASE s = 0
      BY <3>1, <3>2 DEF Answers
    <3>3. CASE s = 1
      BY <1>3, <1>9, <3>1, <3>3 DEF Answers
    <3> QED BY <1>2, <3>2, <3>3
  <2>3. /\ Len(file') = m /\ file'[m] = <<d, a>>
        /\ \A e \in 1..Len(file) : file'[e] = file[e]
    <3>1. <<d, a>> \in [1..2 -> SB!Answer]
      BY <2>1
    <3>2. file \in Seq([1..2 -> SB!Answer])
      BY DEF Safe, Base, Types
    <3> HIDE DEF d, a
    <3> QED BY <2>1, <3>1, <3>2, AppendProperties
  <2>4. file'[m][s + 1] = x
    <3>1. <<d, a>>[0 + 1] = d /\ <<d, a>>[1 + 1] = a
      OBVIOUS
    <3> QED BY <1>2, <2>3, <3>1
  <2> HIDE DEF d, a, x
  <2>5. ASSUME Clean(s), x.status = 0
        PROVE  x.payload = Event(m) /\ InFlight(s) = <<>>
    <3>1. pre_cnt # Len(file)
      BY <1>4
    <3>2. Head(Answers(s)).payload = Event(pre_cnt) /\ InFlight(s) = <<>>
      BY <1>7, <2>2, <2>5, <3>1 DEF LinkInStep
    <3> QED BY <1>4, <2>2, <3>2
  <2>6. FileInStep(s)'
    <3> SUFFICES ASSUME NEW e \in 1..m, \A n \in 1..e : file'[n][s + 1].status = 0
                 PROVE  file'[e][s + 1].payload = Event(e)
      BY <1>6, <2>3 DEF FileInStep
    <3>1. CASE e = m
      <4>1. Clean(s)
        <5>1. ASSUME NEW n \in 1..Len(file) PROVE file[n][s + 1].status = 0
          <6>1. n \in 1..e
            BY <1>4, <3>1
          <6> QED BY <2>3, <6>1
        <5> QED BY <5>1 DEF Clean
      <4>2. x.status = 0
        BY <1>4, <2>4, <3>1
      <4> QED BY <2>4, <2>5, <3>1, <4>1, <4>2
    <3>2. CASE e # m
      <4>1. e \in 1..Len(file)
        BY <1>4, <3>2
      <4>2. ASSUME NEW n \in 1..e PROVE file[n][s + 1].status = 0
        <5>1. n \in 1..Len(file)
          BY <1>4, <4>1
        <5> QED BY <2>3, <5>1
      <4> QED BY <1>7, <2>3, <4>1, <4>2 DEF FileInStep
    <3> QED BY <3>1, <3>2
  <2>7. LinkInStep(s)'
    <3> SUFFICES ASSUME Clean(s)' PROVE InFlight(s)' = <<>>
      BY <1>3, <1>4, <2>3 DEF LinkInStep
    <3>1. \A n \in 1..m : file'[n][s + 1].status = 0
      BY <2>3 DEF Clean
    <3>2. Clean(s)
      <4>1. ASSUME NEW n \in 1..Len(file) PROVE file[n][s + 1].status = 0
        <5>1. n \in 1..m
          BY <1>4
        <5> QED BY <2>3, <3>1, <5>1
      <4> QED BY <4>1 DEF Clean
    <3>3. x.status = 0
      <4>1. m \in 1..m
        BY <1>4
      <4> QED BY <2>4, <3>1, <4>1
    <3> QED BY <1>5, <2>5, <3>2, <3>3
  <2> QED BY <2>6, <2>7
<1> QED BY <1>1, <1>8, <1>9

(* The links are in step when all programs start.                          *)
LEMMA InitInStep == Init => InStep
<1> SUFFICES ASSUME Init, NEW s \in SFP PROVE FileInStep(s) /\ LinkInStep(s)
  BY DEF InStep
<1>1. file = <<>> /\ Len(file) = 0 /\ pre_cnt = 0
  BY DEF Init
<1>2. FileInStep(s)
  BY <1>1 DEF FileInStep
<1>3. InFlight(s) = <<>>
  <2>1. <<>> \o <<>> = <<>>
    BY EmptySeq, ConcatEmptySeq
  <2> QED BY <2>1 DEF Init, SB!Init, InFlight, Contents
<1> QED BY <1>1, <1>2, <1>3 DEF LinkInStep

(* Every step keeps the links in step.                                     *)
LEMMA NextInStep ==
    ASSUME EventSize < MaxPayload, Safe, Base', InStep, [Next]_vars
    PROVE  InStep'
<1>1. UNCHANGED <<autoblock, eods>>
  BY DEF Next, Minidaq, SendUnblock, Confirmed, Baseline, PollAgain, Triggered,
         SendRead, Collect, ServeUnblock, ServeCount, Pretrigger, Build, Expire,
         ServeDump, Arrive, boxVars, setup, vars
<1> SUFFICES ASSUME autoblock, eods = 1, NEW r \in SFP
             PROVE  FileInStep(r)' /\ LinkInStep(r)'
  BY <1>1 DEF InStep
<1>2. FileInStep(r) /\ LinkInStep(r)
  BY DEF InStep
<1>3. ASSUME UNCHANGED <<pre_cnt, file, data>>, InFlight(r)' = InFlight(r),
             UNCHANGED answer[r]
      PROVE  FileInStep(r)' /\ LinkInStep(r)'
  BY <1>1, <1>2, <1>3, FileSame, LinkSame
<1>4. ASSUME UNCHANGED <<pre_cnt, file, data, fifo, link>>,
             UNCHANGED <<answer[r], buffer[r], fragment[r]>>
      PROVE  FileInStep(r)' /\ LinkInStep(r)'
  <2>1. InFlight(r)' = InFlight(r)
    BY <1>4 DEF InFlight, Contents
  <2> QED BY <1>3, <1>4, <2>1
<1>5. ASSUME NEW s \in SFP, Build(s) PROVE FileInStep(r)' /\ LinkInStep(r)'
  <2>1. UNCHANGED <<pre_cnt, file, data, fifo, link>>
    BY <1>5 DEF Build, boxVars, daqVars
  <2>2. CASE SB!RecvRead(s)
    <3>1. UNCHANGED <<answer, buffer, fragment>>
      BY <2>2 DEF SB!RecvRead
    <3> QED BY <1>4, <2>1, <3>1
  <2>3. CASE SB!ReplyTimeout(s) \/ SB!QueryAgain(s) \/ SB!ReplySubevent(s)
    <3>1. CASE r = s
      <4>1. LinkInStep(r)'
        BY <1>1, <2>1, <2>3, <3>1, ReceivedInStep
      <4> QED BY <1>1, <1>2, <2>1, <4>1, FileSame
    <3>2. CASE r # s
      <4>1. UNCHANGED <<answer[r], buffer[r], fragment[r]>>
        BY <2>3, <3>2 DEF SB!ReplyTimeout, SB!QueryAgain, SB!ReplySubevent,
                          SB!RecvFragment, Safe, Base, Types
      <4> QED BY <1>4, <2>1, <4>1
    <3> QED BY <3>1, <3>2
  <2> QED BY <1>5, <2>2, <2>3 DEF Build
<1>6. CASE \/ ServeUnblock \/ ServeCount
           \/ SendUnblock \/ Confirmed \/ Baseline \/ PollAgain \/ Triggered
           \/ \E s \in SFP : SendRead(s) \/ Expire(s)
  <2>1. UNCHANGED <<pre_cnt, file, data, fifo, link, answer, buffer, fragment>>
    BY <1>6 DEF ServeUnblock, ServeCount, SendUnblock, Confirmed, Baseline,
                PollAgain, Triggered, SendRead, Expire, SB!Expire, SB!cmdsock,
                SB!ccbus, builderVars, boxVars, daqVars
  <2> QED BY <1>4, <2>1
<1>7. ASSUME NEW s \in SFP, ServeDump(s) \/ Arrive(s)
      PROVE  FileInStep(r)' /\ LinkInStep(r)'
  <2>1. UNCHANGED <<pre_cnt, file, data, answer, buffer>>
    BY <1>7 DEF ServeDump, Arrive, builderVars, daqVars
  <2>2. InFlight(r)' = InFlight(r)
    <3>1. CASE r = s
      BY <1>7, <3>1, DumpedInStep, ArrivedInStep DEF Safe
    <3>2. CASE r # s
      <4>1. UNCHANGED <<fifo[r], link[r], buffer[r], fragment[r]>>
        BY <1>7, <3>2 DEF ServeDump, Arrive, builderVars, Safe, Base, Types
      <4> QED BY <4>1 DEF InFlight, Contents
    <3> QED BY <3>1, <3>2
  <2> QED BY <1>3, <2>1, <2>2
<1>8. CASE Pretrigger
  BY <1>8, PretriggerInStep
<1>9. CASE Collect
  BY <1>9, CollectInStep
<1>10. CASE UNCHANGED vars
  BY <1>4, <1>10 DEF vars, builderVars, boxVars, daqVars
<1> QED BY <1>5, <1>6, <1>7, <1>8, <1>9, <1>10 DEF Next, Minidaq

-----------------------------------------------------------------------------
(* The theorems.                                                           *)
IInv == Base /\ Counting /\ Streams

(* The inductive invariant holds when all programs start.                  *)
LEMMA InitIInv == Init => IInv
BY InitBase, InitCounting, InitStreams DEF IInv

(* Every step keeps the inductive invariant.                               *)
LEMMA NextIInv == IInv /\ [Next]_vars => IInv'
BY NextBase, NextCounting, NextStreams DEF IInv

(* The inductive invariant of the readout: types, protocols, counting and  *)
(* streams.                                                                *)
THEOREM Invariance == Spec => []IInv
BY InitIInv, NextIInv, PTL DEF Spec

(* Every variable of the readout keeps its type.                           *)
THEOREM TypeCorrect == Spec => []TypeOK
<1>1. IInv => TypeOK
  BY TypesTypeOK DEF IInv, Base
<1> QED BY <1>1, Invariance, PTL

(* With autoblock the detector is quiet while an event is read out.        *)
THEOREM ReadoutIsQuiet == Spec => []QuietReadout
<1>1. IInv => QuietReadout
  BY DEF IInv, Counting, QuietReadout
<1> QED BY <1>1, Invariance, PTL

(* What the detector produced is what the file holds, followed by what is  *)
(* on the way, for every size of events, buffers and FIFOs.                *)
THEOREM NothingLostEndToEnd == Spec => []EndToEnd
<1>1. IInv => EndToEnd
  BY DEF IInv, Streams, Way, Kept, EndToEnd
<1> QED BY <1>1, Invariance, PTL

(* The n-th event in the file is the event of the n-th pretrigger.         *)
THEOREM EventsStayInStep ==
    ASSUME EventSize < MaxPayload
    PROVE  Spec => []EventsInStep
<1>1. Init => IInv /\ InStep
  BY InitIInv, InitInStep
<1>2. (IInv /\ InStep) /\ [Next]_vars => (IInv /\ InStep)'
  <2> SUFFICES ASSUME IInv, InStep, [Next]_vars PROVE IInv' /\ InStep'
    OBVIOUS
  <2>1. IInv'
    BY NextIInv
  <2> QED BY <2>1, NextInStep DEF IInv, Safe
<1>3. IInv /\ InStep => EventsInStep
  <2> SUFFICES ASSUME IInv, InStep, autoblock, eods = 1, NEW e \in DOMAIN file,
                      \A n \in 1..e : \A s \in SFP : file[n][s + 1].status = 0,
                      NEW s \in SFP
               PROVE  file[e][s + 1].payload = Event(e)
    BY DEF EventsInStep
  <2>1. e \in 1..Len(file)
    BY DEF IInv, Base, Types
  <2> QED BY <2>1 DEF InStep, FileInStep
<1> QED BY <1>1, <1>2, <1>3, PTL DEF Spec

-----------------------------------------------------------------------------
(* The builders in the readout are those of SubeventBuilder: minidaq is    *)
(* its client and trdboxd its proxy.                                       *)
LEMMA StreamBound ==
    ASSUME eods \in 1..EodRun, NEW t \in 0..MaxTriggers
    PROVE  /\ t * Period \in Nat /\ MaxStream \in Nat
           /\ t * Period <= MaxStream
<1> DEFINE q == EventSize + EodRun
<1>1. /\ Period \in Nat /\ q \in Nat /\ Period <= q
      /\ MaxTriggers \in Nat /\ t \in Nat /\ t <= MaxTriggers
  BY Constants DEF Period
<1> HIDE DEF q
<1>2. t * Period <= t * q /\ t * Period \in Nat
  BY <1>1
<1>3. t * q <= MaxTriggers * q /\ MaxTriggers * q \in Nat
  BY <1>1
<1>4. t * Period \in Int /\ t * q \in Int
  BY <1>1
<1> QED BY <1>2, <1>3, <1>4 DEF MaxStream, q

(* What a builder has received and what it may still receive.              *)
LEMMA ReceivedBound ==
    ASSUME IInv, NEW s \in SFP
    PROVE  /\ Len(received[s]) \in Nat /\ Len(fifo[s]) \in Nat /\ Len(link[s]) \in Nat
           /\ Len(Contents(fragment[s])) \in Nat
           /\ Len(received[s]) + Len(Contents(fragment[s])) + Len(fifo[s]) + Len(link[s])
                = pre_cnt * Period
           /\ pre_cnt * Period <= MaxStream
           /\ pre_cnt * Period \in Nat
<1>1. /\ received[s] \in Seq(Word) /\ Contents(fragment[s]) \in Seq(Word)
      /\ fifo[s] \in Seq(Word) /\ link[s] \in Seq(Word)
      /\ eods \in 1..EodRun /\ pre_cnt \in 0..MaxTriggers
  BY FiledWords DEF IInv, Base, Types
<1> DEFINE c == Contents(fragment[s])
<1>2. received[s] \o c \in Seq(Word) /\ Len(received[s] \o c) = Len(received[s]) + Len(c)
  BY <1>1, ConcatProperties
<1>3. /\ received[s] \o c \o fifo[s] \in Seq(Word)
      /\ Len(received[s] \o c \o fifo[s]) = Len(received[s]) + Len(c) + Len(fifo[s])
  BY <1>1, <1>2, ConcatProperties
<1>4. Len(received[s] \o c \o fifo[s] \o link[s])
        = Len(received[s]) + Len(c) + Len(fifo[s]) + Len(link[s])
  BY <1>1, <1>3, ConcatProperties
<1>5. Produced(pre_cnt) = received[s] \o c \o fifo[s] \o link[s]
  BY DEF IInv, Streams, Way
<1>6. Len(Produced(pre_cnt)) = pre_cnt * Period
  BY <1>1, ProducedWords
<1>7. pre_cnt * Period <= MaxStream /\ pre_cnt * Period \in Nat
  BY <1>1, StreamBound
<1>8. /\ Len(received[s]) \in Nat /\ Len(fifo[s]) \in Nat /\ Len(link[s]) \in Nat
      /\ Len(c) \in Nat
  BY <1>1, LenProperties
<1>9. Len(received[s]) + Len(c) + Len(fifo[s]) + Len(link[s]) = pre_cnt * Period
  BY <1>4, <1>5, <1>6
<1> QED BY <1>7, <1>8, <1>9

(* Every step of the readout is a step of SubeventBuilder or leaves it     *)
(* alone.                                                                  *)
LEMMA BuildersNext == IInv /\ [Next]_vars => [SB!Next]_SB!vars
<1> SUFFICES ASSUME IInv, [Next]_vars PROVE [SB!Next]_SB!vars
  OBVIOUS
<1> USE DEF IInv
<1>1. ASSUME UNCHANGED builderVars PROVE UNCHANGED SB!vars
  BY <1>1 DEF builderVars, SB!vars, SB!cmdsock, SB!ccbus, SB!header, SB!history
<1>2. ASSUME NEW s \in SFP, Build(s) \/ Expire(s) PROVE SB!Next
  BY <1>2 DEF Build, Expire, SB!Next, SB!Builder
<1>3. ASSUME NEW s \in SFP, ServeDump(s) PROVE SB!Next
  <2>1. fifo[s] \in Seq(Word) /\ Len(fifo[s]) <= FifoBound
    BY DEF Base, Types, Builders
  <2>2. fifo[s] \in Piece
    <3>1. Len(fifo[s]) \in 0..FifoBound /\ fifo[s] \in [1..Len(fifo[s]) -> Word]
      BY <2>1, Constants
    <3> QED BY <3>1 DEF Piece
  <2>3. /\ fragment[s] = <<>>
        /\ fragment' = [fragment EXCEPT ![s] = <<fifo[s]>>]
    BY <1>3, ServeDumpBase
  <2>4. Len(received[s]) + Len(fifo[s]) <= MaxStream
    <3> DEFINE k == Len(received[s])
               l == Len(fifo[s])
               c == Len(Contents(fragment[s]))
               j == Len(link[s])
               p == pre_cnt * Period
    <3>1. /\ k \in Nat /\ l \in Nat /\ c \in Nat /\ j \in Nat /\ p \in Nat
          /\ k + c + l + j = p /\ p <= MaxStream
      BY ReceivedBound
    <3>2. MaxStream \in Nat
      BY StreamBound DEF Base, Types
    <3> HIDE DEF k, l, c, j, p
    <3>3. k + l <= MaxStream
      BY <3>1, <3>2
    <3> QED BY <3>3 DEF k, l
  <2>5. SB!CcbusReply(s)
    BY <1>3, <2>2, <2>3, <2>4 DEF ServeDump, SB!CcbusReply, SB!cmdsock, SB!header,
                                  SB!history
  <2> QED BY <2>5 DEF SB!Next, SB!Environment
<1>4. ASSUME NEW s \in SFP, SendRead(s) PROVE SB!Next
  <2>1. pc[s] = "recv" /\ request[s] = <<>> /\ answer[s] = <<>>
    BY <1>4, Constants DEF SendRead, Base, Reading, Idle
  <2>2. SB!ClientSend(s)
    BY <1>4, <2>1 DEF SendRead, SB!ClientSend, SB!Command, SB!ccbus, SB!header,
                      SB!history
  <2> QED BY <2>2 DEF SB!Next, SB!Environment
<1>5. CASE Collect
  <2> DEFINE s == Len(data)
  <2>1. s \in SFP /\ answer[s] # <<>> /\ answer' = [answer EXCEPT ![s] = <<>>]
    BY <1>5, CollectBase
  <2>2. SB!ClientReceive(s)
    BY <1>5, <2>1 DEF Collect, SB!ClientReceive, SB!ccbus, SB!header, SB!history
  <2> QED BY <2>1, <2>2 DEF SB!Next, SB!Environment
<1>6. CASE \/ SendUnblock \/ Confirmed \/ Baseline \/ PollAgain \/ Triggered
           \/ ServeUnblock \/ ServeCount \/ Pretrigger
           \/ \E s \in SFP : Arrive(s)
  <2>1. UNCHANGED builderVars
    BY <1>6 DEF SendUnblock, Confirmed, Baseline, PollAgain, Triggered,
                ServeUnblock, ServeCount, Pretrigger, Arrive
  <2> QED BY <1>1, <2>1
<1>7. CASE UNCHANGED vars
  BY <1>1, <1>7 DEF vars
<1> QED BY <1>2, <1>3, <1>4, <1>5, <1>6, <1>7 DEF Next, Minidaq

(* Every behaviour of the readout is one of SubeventBuilder:               *)
(* trd_subevent_builder in the readout.                                    *)
THEOREM BuildersAreImplemented == Spec => BuildersImplemented
<1>1. Init => SB!Init
  BY DEF Init
<1>2. IInv /\ [Next]_vars => [SB!Next]_SB!vars
  BY BuildersNext
<1> QED BY <1>1, <1>2, Invariance, PTL DEF Spec, BuildersImplemented, SB!Spec

-----------------------------------------------------------------------------
(* trdboxd in the readout is LogicboxProxy: what its variables stand for.  *)
Task(s) == IF s = 0 THEN "subevd0" ELSE "subevd1"
DumpCmd(s) == [op |-> "dump", sfp |-> s]

Req == [c \in Client |->
          IF c = "minidaq" THEN cmd
          ELSE IF query[LinkOf(c)]
               THEN <<[op |-> "dump", sfp |-> LinkOf(c)]>> ELSE <<>>]

Rep == [c \in Client |->
          IF c = "minidaq" THEN reply
          ELSE IF fragment[LinkOf(c)] = <<>> THEN <<>>
               ELSE <<[data |-> Head(fragment[LinkOf(c)]), value |-> 0]>>]

Arrived == [s \in SFP |->
              SubSeq(Produced(pre_cnt), 1, pre_cnt * Period - Len(link[s]))]

Sent == [s \in SFP |-> received[s] \o
           (IF fragment[s] = <<>> THEN <<>> ELSE Head(fragment[s]))]

Never == [s \in SFP |-> FALSE]

(* A step that changes nothing the proxy is about.                         *)
LEMMA ProxyStutter ==
    UNCHANGED <<Req, Rep, fifo, blocked, pre_cnt, Arrived, Sent>> => UNCHANGED LP!vars
BY DEF LP!vars, LP!hardware, LP!history, Req, Rep, Arrived, Sent

(* The initial condition and the actions of LogicboxProxy, in those        *)
(* terms.                                                                  *)
LEMMA ProxyInit ==
    LP!Init <=> /\ Req = [c \in Client |-> <<>>]
                /\ Rep = [c \in Client |-> <<>>]
                /\ fifo = [s \in LP!SFP |-> <<>>]
                /\ blocked = TRUE
                /\ pre_cnt = 0
                /\ Arrived = [s \in LP!SFP |-> <<>>]
                /\ Sent = [s \in LP!SFP |-> <<>>]
                /\ Never = [s \in LP!SFP |-> FALSE]
BY DEF LP!Init, Req, Rep, Arrived, Sent, Never

(* A dump.                                                                 *)
LEMMA ProxyDump ==
    ASSUME NEW c \in Client, NEW s \in LP!SFP,
           Req[c] # <<>>, Head(Req[c]).sfp = s, Head(Req[c]).op = "dump",
           Req' = [Req EXCEPT ![c] = <<>>],
           Rep' = [Rep EXCEPT ![c] = <<[data |-> LP!Dumped(fifo[s]), value |-> 0]>>],
           fifo' = [fifo EXCEPT ![s] = LP!Rest(@)],
           Sent' = [Sent EXCEPT ![s] = @ \o LP!Dumped(fifo[s])],
           Never' = [Never EXCEPT ![s] = @ \/ LP!Wraps(fifo[s])],
           UNCHANGED <<blocked, pre_cnt, Arrived>>
    PROVE  LP!Dump(c)
BY DEF LP!Dump, LP!Serve, LP!Take, Req, Rep, Arrived, Sent, Never

(* A write to the register that unblocks.                                  *)
LEMMA ProxyUnblock ==
    ASSUME NEW c \in Client, Req[c] # <<>>, Head(Req[c]).op = "unblock",
           Req' = [Req EXCEPT ![c] = <<>>], Rep' = [Rep EXCEPT ![c] = <<LP!Text>>],
           blocked' = FALSE, UNCHANGED <<fifo, pre_cnt, Arrived, Sent>>
    PROVE  LP!Unblock(c)
BY DEF LP!Unblock, LP!Serve, LP!Take, LP!history, Req, Rep, Arrived, Sent

(* A read of the pretrigger counter.                                       *)
LEMMA ProxyReadCount ==
    ASSUME NEW c \in Client, Req[c] # <<>>, Head(Req[c]).op = "count",
           Req' = [Req EXCEPT ![c] = <<>>],
           Rep' = [Rep EXCEPT ![c] = <<[data |-> <<>>, value |-> pre_cnt]>>],
           UNCHANGED <<fifo, blocked, pre_cnt, Arrived, Sent>>
    PROVE  LP!ReadCount(c)
BY DEF LP!ReadCount, LP!Serve, LP!Take, LP!hardware, LP!history, Req, Rep, Arrived, Sent

(* A client that sends its first request.                                  *)
LEMMA ProxyClientSend ==
    ASSUME NEW c \in Client, NEW m \in LP!Command, Req[c] = <<>>, Rep[c] = <<>>,
           Req' = [Req EXCEPT ![c] = <<m>>],
           UNCHANGED <<Rep, fifo, blocked, pre_cnt, Arrived, Sent>>
    PROVE  LP!ClientSend(c)
BY DEF LP!ClientSend, LP!hardware, LP!history, Req, Rep, Arrived, Sent

(* A client that takes its reply.                                          *)
LEMMA ProxyClientReceive ==
    ASSUME NEW c \in Client, Rep[c] # <<>>, Rep' = [Rep EXCEPT ![c] = <<>>],
           UNCHANGED <<Req, fifo, blocked, pre_cnt, Arrived, Sent>>
    PROVE  LP!ClientReceive(c)
BY DEF LP!ClientReceive, LP!hardware, LP!history, Req, Rep, Arrived, Sent

(* A client that takes its reply and asks again.                           *)
LEMMA ProxyClientNext ==
    ASSUME NEW c \in Client, NEW m \in LP!Command, Rep[c] # <<>>,
           Rep' = [Rep EXCEPT ![c] = <<>>], Req' = [Req EXCEPT ![c] = <<m>>],
           UNCHANGED <<fifo, blocked, pre_cnt, Arrived, Sent>>
    PROVE  LP!ClientNext(c)
BY DEF LP!ClientNext, LP!hardware, LP!history, Req, Rep, Arrived, Sent

(* A pretrigger.                                                           *)
LEMMA ProxyPretrigger ==
    ASSUME ~blocked, pre_cnt < MaxTriggers, pre_cnt' = pre_cnt + 1, blocked' \in BOOLEAN,
           UNCHANGED <<Req, Rep, fifo, Arrived, Sent>>
    PROVE  LP!Pretrigger
BY DEF LP!Pretrigger, LP!history, Req, Rep, Arrived, Sent

(* A dword that reaches a FIFO.                                            *)
LEMMA ProxyArrive ==
    ASSUME NEW s \in LP!SFP, NEW w \in Word, Len(fifo[s]) < FifoBound,
           Len(Arrived[0]) + Len(Arrived[1]) < 2 * MaxStream,
           fifo' = [fifo EXCEPT ![s] = Append(@, w)],
           Arrived' = [Arrived EXCEPT ![s] = Append(@, w)],
           UNCHANGED <<Req, Rep, blocked, pre_cnt, Sent>>
    PROVE  LP!Arrive(s)
BY DEF LP!Arrive, Req, Rep, Arrived, Sent

(* The first of two sequences, cut out of both.                            *)
LEMMA FrontOfConcat ==
    ASSUME NEW x \in Seq(Word), NEW y \in Seq(Word)
    PROVE  SubSeq(x \o y, 1, Len(x)) = x
<1>1. CASE x = <<>>
  <2>1. Len(x) = 0 /\ x \o y \in Seq(Word)
    BY <1>1, ConcatProperties
  <2>2. SubSeq(x \o y, 1, 0) \in Seq(Word) /\ Len(SubSeq(x \o y, 1, 0)) = 0
    BY <2>1, SubSeqProperties
  <2> QED BY <1>1, <2>1, <2>2, EmptySeq
<1>2. CASE x # <<>>
  <2>1. 1 \in 1..Len(x) /\ Len(x) \in 1..Len(x)
    BY <1>2, EmptySeq, LenProperties
  <2> QED BY <2>1, SubSeqOfConcat1, SubSeqFull
<1> QED BY <1>1, <1>2

(* What has left link s is what its builder has received, what is in the   *)
(* reply to it and what is in the FIFO.                                    *)
LEMMA HistoriesAre ==
    ASSUME IInv, NEW s \in SFP
    PROVE  /\ Sent[s] = received[s] \o Contents(fragment[s])
           /\ Arrived[s] = Sent[s] \o fifo[s]
           /\ Sent[s] \in Seq(Word) /\ Arrived[s] \in Seq(Word)
           /\ Produced(pre_cnt) = Arrived[s] \o link[s]
           /\ Len(Arrived[s]) + Len(link[s]) = pre_cnt * Period
<1>1. /\ received[s] \in Seq(Word) /\ Contents(fragment[s]) \in Seq(Word)
      /\ fifo[s] \in Seq(Word) /\ link[s] \in Seq(Word)
      /\ eods \in 1..EodRun /\ pre_cnt \in 0..MaxTriggers
  BY FiledWords DEF IInv, Base, Types
<1>2. Sent[s] = received[s] \o Contents(fragment[s])
  BY DEF Sent, Contents
<1>3. Sent[s] \in Seq(Word) /\ Sent[s] \o fifo[s] \in Seq(Word)
  BY <1>1, <1>2, ConcatProperties
<1>4. Produced(pre_cnt) = (Sent[s] \o fifo[s]) \o link[s]
  BY <1>2 DEF IInv, Streams, Way
<1>5. Len(Produced(pre_cnt)) = pre_cnt * Period
  BY <1>1, ProducedWords
<1> DEFINE x == Sent[s] \o fifo[s]
           l == pre_cnt * Period
<1>6. l = Len(x) + Len(link[s]) /\ Len(x) \in Nat /\ Len(link[s]) \in Nat
  <2> HIDE DEF x
  <2>1. Len(x \o link[s]) = Len(x) + Len(link[s])
    BY <1>1, <1>3, ConcatProperties DEF x
  <2> QED BY <1>1, <1>3, <1>4, <1>5, <2>1, LenProperties DEF x
<1>7. l - Len(link[s]) = Len(x)
  <2> HIDE DEF x, l
  <2> QED BY <1>6
<1>8. Arrived[s] = SubSeq(x \o link[s], 1, Len(x))
  BY <1>4, <1>7 DEF Arrived
<1>9. Arrived[s] = x
  BY <1>1, <1>3, <1>8, FrontOfConcat
<1> QED BY <1>2, <1>3, <1>4, <1>6, <1>9

Histories ==
    /\ DOMAIN Arrived = SFP /\ DOMAIN Sent = SFP
    /\ \A s \in SFP :
        /\ Sent[s] = received[s] \o Contents(fragment[s])
        /\ Arrived[s] = Sent[s] \o fifo[s]
        /\ Sent[s] \in Seq(Word) /\ Arrived[s] \in Seq(Word)
        /\ Produced(pre_cnt) = Arrived[s] \o link[s]
        /\ Len(Arrived[s]) + Len(link[s]) = pre_cnt * Period

(* The histories follow from the inductive invariant, before a step        *)
LEMMA HistoriesHold == IInv => Histories
BY HistoriesAre DEF Histories, Arrived, Sent

(* and after it.                                                           *)
LEMMA HistoriesHoldNext == IInv' => Histories'
BY HistoriesHold, PTL

(* A step that moves no word to or from the FIFOs.                         *)
LEMMA HistoriesKept ==
    ASSUME Histories, Histories', Sent' = Sent, fifo' = fifo
    PROVE  Arrived' = Arrived
<1>1. Arrived = [s \in SFP |-> Arrived[s]] /\ Arrived' = [s \in SFP |-> Arrived'[s]]
  BY DEF Arrived
<1>2. \A s \in SFP : Arrived'[s] = Arrived[s]
  BY DEF Histories
<1> QED BY <1>1, <1>2

(* Every link has its task, and every task its link.                       *)
LEMMA TaskOf ==
    ASSUME NEW s \in SFP
    PROVE  /\ Task(s) \in Client /\ Task(s) # "minidaq" /\ LinkOf(Task(s)) = s
           /\ \A c \in Client : c # "minidaq" /\ LinkOf(c) = s => c = Task(s)
           /\ "minidaq" \in Client
           /\ \A c \in Client : LinkOf(c) \in SFP
           /\ LP!SFP = SFP
BY Constants DEF Task, LinkOf, Client, LP!SFP

(* A builder that asks or has been served, as a request of its task.       *)
LEMMA QueryRequests ==
    ASSUME NEW s \in SFP, NEW b \in BOOLEAN, query \in [SFP -> BOOLEAN],
           query' = [query EXCEPT ![s] = b], cmd' = cmd
    PROVE  /\ Req' = [Req EXCEPT ![Task(s)] = IF b THEN <<DumpCmd(s)>> ELSE <<>>]
           /\ Req[Task(s)] = IF query[s] THEN <<DumpCmd(s)>> ELSE <<>>
<1> DEFINE m == IF b THEN <<DumpCmd(s)>> ELSE <<>>
<1>1. \A c \in Client : Req'[c] = IF c = Task(s) THEN m ELSE Req[c]
  BY TaskOf DEF Req, DumpCmd
<1>2. Req' = [c \in Client |-> Req'[c]] /\ Req = [c \in Client |-> Req[c]]
  BY DEF Req
<1>3. Req[Task(s)] = IF query[s] THEN <<DumpCmd(s)>> ELSE <<>>
  BY TaskOf DEF Req, DumpCmd
<1> HIDE DEF m
<1>4. Req' = [Req EXCEPT ![Task(s)] = m]
  BY <1>1, <1>2
<1> QED BY <1>3, <1>4 DEF m

(* A reply to a builder, as a reply to its task.                           *)
LEMMA FragmentReplies ==
    ASSUME NEW s \in SFP, NEW m, fragment \in [SFP -> AtMostOne(Seq(Word))],
           fragment' = [fragment EXCEPT ![s] = m], reply' = reply
    PROVE  /\ Rep' = [Rep EXCEPT ![Task(s)] =
                        IF m = <<>> THEN <<>> ELSE <<[data |-> Head(m), value |-> 0]>>]
           /\ Rep[Task(s)] = IF fragment[s] = <<>> THEN <<>>
                             ELSE <<[data |-> Head(fragment[s]), value |-> 0]>>
<1> DEFINE n == IF m = <<>> THEN <<>> ELSE <<[data |-> Head(m), value |-> 0]>>
<1>1. \A c \in Client : Rep'[c] = IF c = Task(s) THEN n ELSE Rep[c]
  BY TaskOf DEF Rep
<1>2. Rep' = [c \in Client |-> Rep'[c]] /\ Rep = [c \in Client |-> Rep[c]]
  BY DEF Rep
<1>3. Rep[Task(s)] = IF fragment[s] = <<>> THEN <<>>
                     ELSE <<[data |-> Head(fragment[s]), value |-> 0]>>
  BY TaskOf DEF Rep
<1> HIDE DEF n
<1>4. Rep' = [Rep EXCEPT ![Task(s)] = n]
  BY <1>1, <1>2
<1> QED BY <1>3, <1>4 DEF n

(* minidaq's request and reply, and the commands there are.                *)
LEMMA MinidaqMessages ==
    /\ Req["minidaq"] = cmd /\ Rep["minidaq"] = reply
    /\ query' = query => Req' = [Req EXCEPT !["minidaq"] = cmd']
    /\ fragment' = fragment => Rep' = [Rep EXCEPT !["minidaq"] = reply']
    /\ query' = query /\ cmd' = cmd => Req' = Req
    /\ fragment' = fragment /\ reply' = reply => Rep' = Rep
    /\ Cmd("count") \in LP!Command /\ Cmd("unblock") \in LP!Command
    /\ \A s \in SFP : DumpCmd(s) \in LP!Command
<1>1. /\ Req = [c \in Client |-> Req[c]] /\ Req' = [c \in Client |-> Req'[c]]
      /\ Rep = [c \in Client |-> Rep[c]] /\ Rep' = [c \in Client |-> Rep'[c]]
      /\ "minidaq" \in Client
  BY DEF Req, Rep, Client
<1>2. /\ Req["minidaq"] = cmd /\ Req'["minidaq"] = cmd'
      /\ Rep["minidaq"] = reply /\ Rep'["minidaq"] = reply'
  BY <1>1 DEF Req, Rep
<1>3. ASSUME query' = query
      PROVE  \A c \in Client \ {"minidaq"} : Req'[c] = Req[c]
  BY <1>3 DEF Req
<1>4. ASSUME fragment' = fragment
      PROVE  \A c \in Client \ {"minidaq"} : Rep'[c] = Rep[c]
  BY <1>4 DEF Rep
<1>5. /\ Cmd("count") \in LP!Command /\ Cmd("unblock") \in LP!Command
      /\ \A s \in SFP : DumpCmd(s) \in LP!Command
  BY Constants DEF Cmd, DumpCmd, LP!Command, LP!SFP
<1>6. query' = query => Req' = [Req EXCEPT !["minidaq"] = cmd']
  BY <1>1, <1>2, <1>3
<1>7. fragment' = fragment => Rep' = [Rep EXCEPT !["minidaq"] = reply']
  BY <1>1, <1>2, <1>4
<1>8. query' = query /\ cmd' = cmd => Req' = Req
  BY <1>1, <1>2, <1>3
<1>9. fragment' = fragment /\ reply' = reply => Rep' = Rep
  BY <1>1, <1>2, <1>4
<1> QED BY <1>2, <1>5, <1>6, <1>7, <1>8, <1>9

(* Without a reply sent or taken, what was sent stays.                     *)
LEMMA SentKept ==
    UNCHANGED <<received, fragment>> => Sent' = Sent
BY DEF Sent

-----------------------------------------------------------------------------
(* The steps of trdboxd and of its clients.                                *)
LEMMA AskProxy ==
    ASSUME IInv, Histories, Histories', NEW s \in SFP, SB!RecvRead(s),
           UNCHANGED <<boxVars, daqVars>>
    PROVE  LP!ClientSend(Task(s))
<1>1. /\ query \in [SFP -> BOOLEAN] /\ query[s] = FALSE /\ fragment[s] = <<>>
      /\ query' = [query EXCEPT ![s] = TRUE]
      /\ UNCHANGED <<fragment, received, cmd, reply, fifo, blocked, pre_cnt>>
  BY DEF IInv, Base, Types, Builders, SB!RecvRead, SB!history, boxVars, daqVars
<1>2. /\ Req' = [Req EXCEPT ![Task(s)] = <<DumpCmd(s)>>]
      /\ Req[Task(s)] = <<>>
  BY <1>1, QueryRequests
<1>3. Rep[Task(s)] = <<>>
  BY <1>1, TaskOf DEF Rep
<1>4. Rep' = Rep /\ Sent' = Sent /\ Arrived' = Arrived
  BY <1>1, MinidaqMessages, SentKept, HistoriesKept
<1> QED BY <1>1, <1>2, <1>3, <1>4, TaskOf, MinidaqMessages, ProxyClientSend

(* A builder that has its reply keeps the words as received.               *)
LEMMA SentReceived ==
    ASSUME IInv, Histories, Histories', NEW s \in SFP, SB!RecvFragment(s),
           fifo' = fifo
    PROVE  Sent' = Sent /\ Arrived' = Arrived
<1> DEFINE f == Head(fragment[s])
<1>1. /\ fragment[s] # <<>> /\ f \in Seq(Word)
      /\ fragment' = [fragment EXCEPT ![s] = <<>>]
      /\ received' = [received EXCEPT ![s] = @ \o f]
      /\ fragment \in [SFP -> AtMostOne(Seq(Word))]
      /\ received \in [SFP -> Seq(Word)]
  BY Received, ReceivedTypes DEF IInv, Base, Types
<1>2. ASSUME NEW r \in SFP PROVE Sent'[r] = Sent[r]
  <2>1. CASE r = s
    <3>1. received'[s] = received[s] \o f /\ fragment'[s] = <<>>
      BY <1>1
    <3>2. Sent[s] = received[s] \o f
      BY <1>1 DEF Sent
    <3>3. received[s] \o f \in Seq(Word)
      BY <1>1, ConcatProperties
    <3>4. Sent'[s] = (received[s] \o f) \o <<>>
      BY <3>1 DEF Sent
    <3> QED BY <2>1, <3>2, <3>3, <3>4, ConcatEmptySeq
  <2>2. CASE r # s
    BY <1>1, <2>2 DEF Sent
  <2> QED BY <2>1, <2>2
<1>3. Sent = [r \in SFP |-> Sent[r]] /\ Sent' = [r \in SFP |-> Sent'[r]]
  BY DEF Sent
<1>4. Sent' = Sent
  BY <1>2, <1>3
<1> QED BY <1>4, HistoriesKept

(* A builder that takes its fragment, and may ask for the next.            *)
LEMMA TakeReply ==
    ASSUME IInv, Histories, Histories', NEW s \in SFP, SB!RecvFragment(s),
           query' = query \/ query' = [query EXCEPT ![s] = TRUE],
           UNCHANGED <<boxVars, daqVars>>
    PROVE  LP!ClientReceive(Task(s)) \/ LP!ClientNext(Task(s))
<1>1. /\ query \in [SFP -> BOOLEAN] /\ query[s] = FALSE /\ fragment[s] # <<>>
      /\ fragment \in [SFP -> AtMostOne(Seq(Word))]
      /\ fragment' = [fragment EXCEPT ![s] = <<>>]
      /\ UNCHANGED <<cmd, reply, fifo, blocked, pre_cnt>>
  BY Received, ReceivedTypes DEF IInv, Base, Types, boxVars, daqVars
<1>2. Sent' = Sent /\ Arrived' = Arrived
  BY <1>1, SentReceived
<1>3. Rep[Task(s)] # <<>> /\ Rep' = [Rep EXCEPT ![Task(s)] = <<>>]
  BY <1>1, FragmentReplies, NotEmpty
<1>4. CASE query' = query
  <2>1. Req' = Req
    BY <1>1, <1>4, MinidaqMessages
  <2> QED BY <1>1, <1>2, <1>3, <2>1, TaskOf, ProxyClientReceive
<1>5. CASE query' = [query EXCEPT ![s] = TRUE]
  <2>1. Req' = [Req EXCEPT ![Task(s)] = <<DumpCmd(s)>>]
    BY <1>1, <1>5, QueryRequests
  <2> QED BY <1>1, <1>2, <1>3, <2>1, TaskOf, MinidaqMessages, ProxyClientNext
<1> QED BY <1>4, <1>5

(* A dump that is served to a builder.                                     *)
LEMMA DumpToBuilder ==
    ASSUME IInv, Histories, Histories', NEW s \in SFP, ServeDump(s)
    PROVE  LP!Dump(Task(s))
<1>1. /\ fifo[s] \in Seq(Word) /\ Len(fifo[s]) <= FifoBound
      /\ query \in [SFP -> BOOLEAN] /\ query[s] = TRUE
      /\ fragment \in [SFP -> AtMostOne(Seq(Word))]
      /\ received \in [SFP -> Seq(Word)] /\ fifo \in [SFP -> Seq(Word)]
      /\ query' = [query EXCEPT ![s] = FALSE]
      /\ UNCHANGED <<received, cmd, reply, blocked, pre_cnt>>
  BY DEF IInv, Base, Types, Builders, ServeDump, daqVars
<1>2. /\ fragment[s] = <<>>
      /\ fragment' = [fragment EXCEPT ![s] = <<fifo[s]>>]
      /\ fifo' = [fifo EXCEPT ![s] = <<>>]
  BY ServeDumpBase DEF IInv
<1>3. LP!Dumped(fifo[s]) = fifo[s] /\ LP!Rest(fifo[s]) = <<>> /\ ~LP!Wraps(fifo[s])
  BY <1>1, DumpedAll
<1>4. Req' = [Req EXCEPT ![Task(s)] = <<>>] /\ Req[Task(s)] = <<DumpCmd(s)>>
  BY <1>1, QueryRequests
<1>5. Rep' = [Rep EXCEPT ![Task(s)] = <<[data |-> fifo[s], value |-> 0]>>]
  <2> DEFINE m == <<fifo[s]>>
  <2>1. Head(m) = fifo[s] /\ m # <<>>
    BY NotEmpty
  <2>2. fragment' = [fragment EXCEPT ![s] = m]
    BY <1>2
  <2> HIDE DEF m
  <2>3. Rep' = [Rep EXCEPT ![Task(s)] =
                  IF m = <<>> THEN <<>> ELSE <<[data |-> Head(m), value |-> 0]>>]
    BY <1>1, <2>2, FragmentReplies
  <2> QED BY <2>1, <2>3
<1>6. Sent' = [Sent EXCEPT ![s] = @ \o fifo[s]]
  <2>1. Sent'[s] = Sent[s] \o fifo[s]
    <3>1. Sent[s] = received[s]
      BY <1>1, <1>2, ConcatEmptySeq DEF Sent
    <3>2. fragment'[s] = <<fifo[s]>> /\ received'[s] = received[s]
      BY <1>1, <1>2
    <3>3. Sent'[s] = received[s] \o fifo[s]
      <4>1. Head(<<fifo[s]>>) = fifo[s] /\ <<fifo[s]>> # <<>>
        BY NotEmpty
      <4>2. Sent'[s] = received'[s] \o
              (IF fragment'[s] = <<>> THEN <<>> ELSE Head(fragment'[s]))
        BY DEF Sent
      <4> QED BY <3>2, <4>1, <4>2
    <3> QED BY <3>1, <3>3
  <2>2. \A r \in SFP \ {s} : Sent'[r] = Sent[r]
    BY <1>1, <1>2 DEF Sent
  <2>3. Sent = [r \in SFP |-> Sent[r]] /\ Sent' = [r \in SFP |-> Sent'[r]]
    BY DEF Sent
  <2> HIDE DEF Sent
  <2> QED BY <2>1, <2>2, <2>3
<1>7. Arrived' = Arrived
  <2>1. ASSUME NEW r \in SFP PROVE Arrived'[r] = Arrived[r]
    <3>1. Arrived[r] = Sent[r] \o fifo[r] /\ Arrived'[r] = Sent'[r] \o fifo'[r]
      BY DEF Histories
    <3>2. CASE r = s
      <4>1. Sent'[r] = Sent[r] \o fifo[r] /\ fifo'[r] = <<>>
        BY <1>1, <1>2, <1>6, <3>2 DEF Sent
      <4>2. Sent[r] \o fifo[r] \in Seq(Word)
        BY <3>1 DEF Histories
      <4> QED BY <3>1, <4>1, <4>2, ConcatEmptySeq
    <3>3. CASE r # s
      <4>1. Sent'[r] = Sent[r] /\ fifo'[r] = fifo[r]
        BY <1>1, <1>2, <1>6, <3>3 DEF Sent
      <4> QED BY <3>1, <4>1
    <3> QED BY <3>2, <3>3
  <2>2. Arrived = [r \in SFP |-> Arrived[r]] /\ Arrived' = [r \in SFP |-> Arrived'[r]]
    BY DEF Arrived
  <2> QED BY <2>1, <2>2
<1>8. /\ Req[Task(s)] # <<>> /\ Head(Req[Task(s)]).sfp = s
      /\ Head(Req[Task(s)]).op = "dump"
  <2>1. Head(<<DumpCmd(s)>>) = DumpCmd(s)
    OBVIOUS
  <2> QED BY <1>4, <2>1, NotEmpty DEF DumpCmd
<1>9. fifo' = [fifo EXCEPT ![s] = LP!Rest(fifo[s])]
  BY <1>2, <1>3
<1>10. Never' = [Never EXCEPT ![s] = @ \/ LP!Wraps(fifo[s])]
  <2>1. (FALSE \/ LP!Wraps(fifo[s])) = FALSE
    BY <1>3
  <2> QED BY <2>1 DEF Never
<1> QED BY <1>1, <1>3, <1>4, <1>5, <1>6, <1>7, <1>8, <1>9, <1>10, TaskOf, ProxyDump

(* minidaq's commands move no word.                                        *)
LEMMA AskedByMinidaq ==
    ASSUME IInv, Histories, Histories',
           \/ ServeUnblock \/ ServeCount
           \/ SendUnblock \/ Confirmed \/ Baseline \/ PollAgain \/ Triggered
    PROVE  LP!Next
<1>1. UNCHANGED <<query, fragment, received, fifo, pre_cnt>>
  BY DEF ServeUnblock, ServeCount, SendUnblock, Confirmed, Baseline, PollAgain,
         Triggered, builderVars, boxVars
<1>2. Sent' = Sent /\ Arrived' = Arrived
  BY <1>1, SentKept, HistoriesKept
<1>3. /\ Req["minidaq"] = cmd /\ Rep["minidaq"] = reply
      /\ Req' = [Req EXCEPT !["minidaq"] = cmd']
      /\ Rep' = [Rep EXCEPT !["minidaq"] = reply']
      /\ cmd' = cmd => Req' = Req
      /\ reply' = reply => Rep' = Rep
      /\ Cmd("count") \in LP!Command /\ Cmd("unblock") \in LP!Command
      /\ "minidaq" \in Client
  BY <1>1, MinidaqMessages DEF Client
<1> HIDE DEF Req, Rep, Sent, Arrived
<1>4. CASE ServeUnblock
  <2>1. /\ cmd = <<Cmd("unblock")>> /\ cmd' = <<>> /\ reply' = <<LP!Text>>
        /\ blocked' = FALSE
    BY <1>4 DEF ServeUnblock
  <2>2. cmd # <<>> /\ Head(cmd).op = "unblock"
    <3>1. Head(<<Cmd("unblock")>>) = Cmd("unblock")
      OBVIOUS
    <3> QED BY <2>1, <3>1, NotEmpty DEF Cmd
  <2>3. LP!Unblock("minidaq")
    BY <1>1, <1>2, <1>3, <2>1, <2>2, ProxyUnblock
  <2> QED BY <1>3, <2>3 DEF LP!Next, LP!Proxy
<1>5. CASE ServeCount
  <2>1. /\ cmd = <<Cmd("count")>> /\ cmd' = <<>>
        /\ reply' = <<[data |-> <<>>, value |-> pre_cnt]>>
        /\ blocked' = blocked
    BY <1>5 DEF ServeCount, boxVars
  <2>2. cmd # <<>> /\ Head(cmd).op = "count"
    <3>1. Head(<<Cmd("count")>>) = Cmd("count")
      OBVIOUS
    <3> QED BY <2>1, <3>1, NotEmpty DEF Cmd
  <2>3. LP!ReadCount("minidaq")
    BY <1>1, <1>2, <1>3, <2>1, <2>2, ProxyReadCount
  <2> QED BY <1>3, <2>3 DEF LP!Next, LP!Proxy
<1>6. CASE SendUnblock
  <2>1. cmd' = <<Cmd("unblock")>> /\ reply' = reply /\ blocked' = blocked
    BY <1>6 DEF SendUnblock, boxVars
  <2>2. cmd = <<>> /\ reply = <<>>
    BY <1>6 DEF SendUnblock, IInv, Base, Asking
  <2>3. LP!ClientSend("minidaq")
    BY <1>1, <1>2, <1>3, <2>1, <2>2, ProxyClientSend
  <2> QED BY <1>3, <2>3 DEF LP!Next, LP!Environment
<1>7. CASE Confirmed \/ Baseline \/ PollAgain
  <2>1. cmd' = <<Cmd("count")>> /\ reply # <<>> /\ reply' = <<>> /\ blocked' = blocked
    BY <1>7 DEF Confirmed, Baseline, PollAgain, boxVars
  <2>2. LP!ClientNext("minidaq")
    BY <1>1, <1>2, <1>3, <2>1, ProxyClientNext
  <2> QED BY <1>3, <2>2 DEF LP!Next, LP!Environment
<1>8. CASE Triggered
  <2>1. cmd' = cmd /\ reply # <<>> /\ reply' = <<>> /\ blocked' = blocked
    BY <1>8 DEF Triggered, boxVars
  <2>2. LP!ClientReceive("minidaq")
    BY <1>1, <1>2, <1>3, <2>1, ProxyClientReceive
  <2> QED BY <1>3, <2>2 DEF LP!Next, LP!Environment
<1> QED BY <1>4, <1>5, <1>6, <1>7, <1>8

(* A dword that reaches the FIFO; the links never deliver more than was    *)
(* produced.                                                               *)
LEMMA LinkDelivers ==
    ASSUME IInv, IInv', Histories, Histories', NEW s \in SFP, Arrive(s)
    PROVE  LP!Arrive(s)
<1> DEFINE w == Head(link[s])
<1>1. /\ link[s] # <<>> /\ link[s] \in Seq(Word) /\ Len(fifo[s]) < FifoBound
      /\ fifo' = [fifo EXCEPT ![s] = Append(@, w)]
      /\ fifo \in [SFP -> Seq(Word)]
      /\ UNCHANGED <<query, fragment, received, cmd, reply, blocked, pre_cnt, eods>>
  BY DEF Arrive, builderVars, setup, daqVars, IInv, Base, Types
<1>2. w \in Word /\ Len(link[s]) > 0
  BY <1>1, HeadTailProperties, EmptySeq
<1> HIDE DEF w
<1>3. Req' = Req /\ Rep' = Rep /\ Sent' = Sent
  BY <1>1, MinidaqMessages, SentKept
<1>4. Arrived' = [Arrived EXCEPT ![s] = Append(@, w)]
  <2>1. Arrived'[s] = Append(Arrived[s], w)
    <3>1. Arrived[s] = Sent[s] \o fifo[s] /\ Arrived'[s] = Sent'[s] \o fifo'[s]
      BY DEF Histories
    <3>2. fifo'[s] = Append(fifo[s], w) /\ fifo[s] \in Seq(Word) /\ Sent[s] \in Seq(Word)
      BY <1>1 DEF Histories
    <3>3. Append(fifo[s], w) = fifo[s] \o <<w>> /\ <<w>> \in Seq(Word)
      <4>1. <<w>> \in Seq(Word)
        BY <1>2
      <4> QED BY <1>2, <3>2, <4>1, AppendIsConcat
    <3>4. Sent[s] \o (fifo[s] \o <<w>>) = (Sent[s] \o fifo[s]) \o <<w>>
      BY <3>2, <3>3, WordsAssociate
    <3>5. Append(Arrived[s], w) = Arrived[s] \o <<w>>
      BY <1>2, AppendIsConcat DEF Histories
    <3> QED BY <1>3, <3>1, <3>2, <3>3, <3>4, <3>5
  <2>2. \A r \in SFP \ {s} : Arrived'[r] = Arrived[r]
    BY <1>1, <1>3 DEF Histories
  <2>3. Arrived = [r \in SFP |-> Arrived[r]] /\ Arrived' = [r \in SFP |-> Arrived'[r]]
    BY DEF Arrived
  <2> QED BY <2>1, <2>2, <2>3
<1>5. Len(Arrived[0]) + Len(Arrived[1]) < 2 * MaxStream
  <2> DEFINE l == pre_cnt * Period
  <2>1. /\ l \in Nat /\ l <= MaxStream /\ MaxStream \in Nat
    BY ReceivedBound, StreamBound DEF IInv, Base, Types
  <2>2. \A r \in SFP : /\ Len(Arrived[r]) + Len(link[r]) = l
                         /\ Len(Arrived[r]) \in Nat /\ Len(link[r]) \in Nat
    BY LenProperties DEF Histories, IInv, Base, Types
  <2> HIDE DEF l
  <2> DEFINE a == Len(Arrived[0])
             b == Len(Arrived[1])
             c == Len(link[0])
             d == Len(link[1])
  <2>3. /\ a + c = l /\ a \in Nat /\ c \in Nat
        /\ b + d = l /\ b \in Nat /\ d \in Nat
        /\ c > 0 \/ d > 0
    <3>1. 0 \in SFP /\ 1 \in SFP /\ (s = 0 \/ s = 1)
      BY Constants
    <3> QED BY <1>2, <2>2, <3>1
  <2> HIDE DEF a, b, c, d
  <2>4. a + b < 2 * MaxStream
    BY <2>1, <2>3
  <2> QED BY <2>4 DEF a, b
<1> QED BY <1>1, <1>2, <1>3, <1>4, <1>5, TaskOf, ProxyArrive

(* Every step of the readout is a step of LogicboxProxy or leaves it       *)
(* alone.                                                                  *)
LEMMA ProxyNext == IInv /\ IInv' /\ [Next]_vars => [LP!Next]_LP!vars
<1> SUFFICES ASSUME IInv, IInv', [Next]_vars PROVE [LP!Next]_LP!vars
  OBVIOUS
<1>1. Histories /\ Histories'
  BY HistoriesHold, HistoriesHoldNext
<1>2. ASSUME UNCHANGED <<query, fragment, received, cmd, reply, fifo, blocked, pre_cnt>>
      PROVE  UNCHANGED LP!vars
  BY <1>1, <1>2, MinidaqMessages, SentKept, HistoriesKept, ProxyStutter
<1>3. ASSUME NEW s \in SFP, Build(s) PROVE LP!Next
  <2>1. UNCHANGED <<boxVars, daqVars>>
    BY <1>3 DEF Build
  <2>2. CASE SB!RecvRead(s)
    <3>1. LP!ClientSend(Task(s))
      BY <1>1, <2>1, <2>2, AskProxy
    <3> QED BY <3>1, TaskOf DEF LP!Next, LP!Environment
  <2>3. CASE SB!ReplyTimeout(s) \/ SB!QueryAgain(s) \/ SB!ReplySubevent(s)
    <3>1. SB!RecvFragment(s)
      BY <2>3 DEF SB!ReplyTimeout, SB!QueryAgain, SB!ReplySubevent
    <3>2. query' = query \/ query' = [query EXCEPT ![s] = TRUE]
      BY <2>3 DEF SB!ReplyTimeout, SB!QueryAgain, SB!ReplySubevent
    <3>3. LP!ClientReceive(Task(s)) \/ LP!ClientNext(Task(s))
      BY <1>1, <2>1, <3>1, <3>2, TakeReply
    <3> QED BY <3>3, TaskOf DEF LP!Next, LP!Environment
  <2> QED BY <1>3, <2>2, <2>3 DEF Build
<1>4. ASSUME NEW s \in SFP, ServeDump(s) PROVE LP!Next
  <2>1. LP!Dump(Task(s))
    BY <1>1, <1>4, DumpToBuilder
  <2> QED BY <2>1, TaskOf DEF LP!Next, LP!Proxy
<1>5. CASE \/ ServeUnblock \/ ServeCount
           \/ SendUnblock \/ Confirmed \/ Baseline \/ PollAgain \/ Triggered
  BY <1>1, <1>5, AskedByMinidaq
<1>6. CASE Pretrigger
  <2>1. /\ ~blocked /\ pre_cnt < MaxTriggers /\ pre_cnt' = pre_cnt + 1
        /\ blocked' \in BOOLEAN
        /\ UNCHANGED <<query, fragment, received, cmd, reply, fifo>>
    BY <1>6 DEF Pretrigger, builderVars, daqVars, IInv, Base, Types
  <2>2. Req' = Req /\ Rep' = Rep /\ Sent' = Sent /\ Arrived' = Arrived
    BY <1>1, <2>1, MinidaqMessages, SentKept, HistoriesKept
  <2>3. LP!Pretrigger
    BY <2>1, <2>2, ProxyPretrigger
  <2> QED BY <2>3 DEF LP!Next, LP!Environment
<1>7. ASSUME NEW s \in SFP, Arrive(s) PROVE LP!Next
  <2>1. LP!Arrive(s)
    BY <1>1, <1>7, LinkDelivers
  <2> QED BY <2>1, TaskOf DEF LP!Next, LP!Environment
<1>8. CASE Collect \/ UNCHANGED vars \/ \E s \in SFP : SendRead(s) \/ Expire(s)
  <2>1. UNCHANGED <<query, fragment, received, cmd, reply, fifo, blocked, pre_cnt>>
    BY <1>8 DEF Collect, vars, SendRead, Expire, SB!Expire, SB!ccbus, SB!history,
                builderVars, boxVars, daqVars
  <2> QED BY <1>2, <2>1
<1> QED BY <1>3, <1>4, <1>5, <1>6, <1>7, <1>8 DEF Next, Minidaq

(* The readout starts as LogicboxProxy does.                               *)
LEMMA InitProxy == Init => LP!Init
<1> SUFFICES ASSUME Init PROVE LP!Init
  OBVIOUS
<1>1. /\ query = [s \in SFP |-> FALSE] /\ fragment = [s \in SFP |-> <<>>]
      /\ received = [s \in SFP |-> <<>>] /\ link = [s \in SFP |-> <<>>]
      /\ fifo = [s \in SFP |-> <<>>] /\ cmd = <<>> /\ reply = <<>>
      /\ blocked = TRUE /\ pre_cnt = 0 /\ eods \in 1..EodRun
  BY DEF Init, SB!Init
<1>2. \A c \in Client : LinkOf(c) \in SFP
  BY TaskOf, Constants DEF LinkOf
<1>3. Req = [c \in Client |-> <<>>] /\ Rep = [c \in Client |-> <<>>]
  BY <1>1, <1>2 DEF Req, Rep
<1>4. Sent = [s \in SFP |-> <<>>]
  <2>1. \A s \in SFP : Sent[s] = <<>> \o <<>>
    BY <1>1 DEF Sent
  <2>2. <<>> \o <<>> = <<>>
    OBVIOUS
  <2> QED BY <2>1, <2>2 DEF Sent
<1>5. Arrived = [s \in SFP |-> <<>>]
  <2>1. IInv
    BY InitIInv
  <2>2. \A s \in SFP : Arrived[s] = <<>>
    <3>1. \A s \in SFP : Arrived[s] = Sent[s] \o fifo[s]
      BY <2>1, HistoriesHold DEF Histories
    <3> QED BY <1>1, <1>4, <3>1
  <2> QED BY <2>2 DEF Arrived
<1>6. LP!SFP = SFP
  BY Constants DEF LP!SFP
<1> QED BY <1>1, <1>3, <1>4, <1>5, <1>6, ProxyInit DEF Never

(* trdboxd in the readout behaves as LogicboxProxy says.                   *)
THEOREM ProxyIsImplemented == Spec => ProxyImplemented
<1>1. Init => LP!Init
  BY InitProxy
<1>2. IInv /\ IInv' /\ [Next]_vars => [LP!Next]_LP!vars
  BY ProxyNext
<1> QED BY <1>1, <1>2, Invariance, PTL DEF Spec, ProxyImplemented, LP!Spec
==============================================================================
