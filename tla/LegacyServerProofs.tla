------------------------- MODULE LegacyServerProofs -------------------------
(***************************************************************************)
(* Theorems about the two threads of LegacyServer, for every number of     *)
(* commands and triggers, every size of a burst, of an event and of the    *)
(* buffer: about the burst counter they share without a lock (CounterInv), *)
(* the types of all that they share (Types), and what the reader thread    *)
(* takes for an event (Segments).                                          *)
(***************************************************************************)
EXTENDS LegacyServer, SequenceTheorems, TLAPS

Places == {"out", "busy?", "valid?", "zero?", "burst?", "load", "store", "set", "unblock",
           "source?"}

(* What the argument needs of the types; the command thread is inside      *)
(* send_trigger only while a command waits for it.                         *)
CounterType ==
    /\ burstcnt \in Int /\ asked \in Int
    /\ raced \in BOOLEAN
    /\ place \in [Thread -> Places] /\ old \in [Thread -> Int]
    /\ cpc \notin {"sent", "start"} => place["command"] = "out"

(* Without a race a thread that is about to decrement has seen the counter *)
(* positive, and what it has loaded is still the counter's value.          *)
Seen(t) ==
    /\ Decrementing(t) => burstcnt > 0
    /\ place[t] = "store" => old[t] = burstcnt

CounterInv ==
    /\ CounterType
    /\ CounterObeyed
    /\ raced \/ \A t \in Thread : Seen(t)

LEMMA Others == /\ Thread = {"command", "reader"}
                /\ Other("command") = "reader" /\ Other("reader") = "command"
BY DEF Thread, Other

-----------------------------------------------------------------------------
LEMMA InitCounterInv == Init => CounterInv
<1> SUFFICES ASSUME Init PROVE CounterInv
  OBVIOUS
<1>1. CounterType
  <2>1. /\ burstcnt = 0 /\ asked = 0 /\ raced = FALSE
        /\ place = [t \in Thread |-> "out"] /\ old = [t \in Thread |-> 0]
    BY DEF Init
  <2>2. place \in [Thread -> Places] /\ place["command"] = "out"
    BY <2>1, Others DEF Places
  <2>3. raced \in BOOLEAN
    BY <2>1, Zenon
  <2>4. old \in [Thread -> Int] /\ burstcnt \in Int /\ asked \in Int
    BY <2>1
  <2> QED BY <2>2, <2>3, <2>4 DEF CounterType
<1>2. CounterObeyed /\ \A t \in Thread : Seen(t)
  BY DEF Init, CounterObeyed, Seen, Decrementing
<1> QED BY <1>1, <1>2 DEF CounterInv

(* Steps that leave counter and threads' places alone.                     *)
LEMMA Untouched ==
    ASSUME CounterInv, UNCHANGED <<burstcnt, sending, counter>>,
           cpc' \notin {"sent", "start"} => place["command"] = "out"
    PROVE  CounterInv'
BY DEF CounterInv, CounterType, CounterObeyed, Seen, Decrementing, sending, counter

(* set_burst_counter, called by a command before anything else.            *)
LEMMA SetCounterInv ==
    ASSUME CounterInv, NEW n \in Int, SetCounter(n), UNCHANGED sending,
           place["command"] = "out"
    PROVE  CounterInv'
<1>1. /\ burstcnt' = n /\ asked' = n /\ raced' = Decrementing("reader")
      /\ UNCHANGED <<place, old>>
  BY DEF SetCounter, sending
<1>2. CounterType'
  <2>1. Decrementing("reader") \in BOOLEAN
    BY DEF Decrementing
  <2> QED BY <1>1, <2>1 DEF CounterInv, CounterType
<1>3. CounterObeyed'
  BY <1>1 DEF CounterObeyed
<1>4. ASSUME ~raced', NEW t \in Thread PROVE Seen(t)'
  <2>1. ~Decrementing(t)
    BY <1>1, <1>4 DEF Thread, Decrementing
  <2> QED BY <1>1, <2>1 DEF Seen, Decrementing
<1> QED BY <1>2, <1>3, <1>4 DEF CounterInv

(* A thread that goes to a place where it does not decrement.              *)
LEMMA Moves ==
    ASSUME CounterInv, NEW t \in Thread, NEW p \in Places,
           place' = [place EXCEPT ![t] = p], p \notin {"load", "store"}, UNCHANGED <<burstcnt, old, counter>>,
           cpc' \notin {"sent", "start"} => place'["command"] = "out"
    PROVE  CounterInv'
<1>1. place' = [place EXCEPT ![t] = p] /\ place \in [Thread -> Places]
  BY DEF CounterInv, CounterType
<1>2. CounterType' /\ CounterObeyed'
  BY <1>1 DEF CounterInv, CounterType, CounterObeyed, counter
<1>3. ASSUME ~raced', NEW u \in Thread PROVE Seen(u)'
  <2>1. ~raced /\ Seen(u)
    BY <1>3 DEF CounterInv, counter
  <2>2. CASE u = t
    BY <1>1, <2>2 DEF Seen, Decrementing
  <2>3. CASE u # t
    BY <1>1, <2>1, <2>3 DEF Seen, Decrementing
  <2> QED BY <2>2, <2>3
<1> QED BY <1>2, <1>3 DEF CounterInv

LEMMA SendTriggerInv ==
    ASSUME CounterInv, NEW t \in Thread, send_trigger(t) PROVE CounterInv'
<1>0. /\ place \in [Thread -> Places] /\ old \in [Thread -> Int]
      /\ burstcnt \in Int /\ asked \in Int /\ raced \in BOOLEAN
      /\ UNCHANGED <<cpc, asked>>
  BY DEF CounterInv, CounterType, send_trigger
<1>1. ASSUME place[t] # "out" PROVE t = "command" => cpc \in {"sent", "start"}
  BY <1>1 DEF CounterInv, CounterType
<1>2. ASSUME NEW p \in Places, place' = [place EXCEPT ![t] = p], place[t] # "out"
      PROVE  cpc' \notin {"sent", "start"} => place'["command"] = "out"
  <2>1. CASE t = "command"
    BY <1>0, <1>1, <1>2, <2>1
  <2>2. CASE t # "command"
    BY <1>0, <1>2, <2>2, Others DEF CounterInv, CounterType
  <2> QED BY <2>1, <2>2
<1>3. CASE CheckBusy(t)
  <2>1. PICK p \in {"out", "valid?"} : place' = [place EXCEPT ![t] = p]
    BY <1>3 DEF CheckBusy, GoTo
  <2>2. UNCHANGED <<burstcnt, old, counter>> /\ place[t] # "out"
    BY <1>0, <1>3 DEF CheckBusy, trigger, counter
  <2>3. p \in Places /\ p \notin {"load", "store"}
    BY DEF Places
  <2> QED BY <1>2, <2>1, <2>2, <2>3, Moves
<1>4. CASE CheckCount(t)
  <2>1. UNCHANGED <<burstcnt, old, counter>>
    BY <1>0, <1>4 DEF CheckCount, trigger, counter
  <2>2. PICK p \in {"out", "zero?", "burst?", "load", "set"} :
            /\ place' = [place EXCEPT ![t] = p] /\ place[t] # "out"
            /\ p = "load" => burstcnt > 0
    BY <1>4 DEF CheckCount, GoTo
  <2>0. p \in Places
    BY DEF Places
  <2>3. CASE p # "load"
    BY <1>2, <2>0, <2>1, <2>2, <2>3, Moves
  <2>4. CASE p = "load"
    <3>1. place' = [place EXCEPT ![t] = "load"] /\ burstcnt > 0
      BY <2>2, <2>4
    <3>2. CounterType' /\ CounterObeyed'
      <4>1. cpc' \notin {"sent", "start"} => place'["command"] = "out"
        BY <1>2, <2>0, <2>2
      <4>2. place' \in [Thread -> Places]
        BY <1>0, <2>0, <2>2
      <4> QED BY <1>0, <2>1, <4>1, <4>2 DEF CounterInv, CounterType, CounterObeyed, counter
    <3>3. ASSUME ~raced', NEW u \in Thread PROVE Seen(u)'
      <4>1. ~raced /\ Seen(u)
        BY <2>1, <3>3 DEF CounterInv, counter
      <4>2. CASE u = t
        BY <1>0, <2>1, <3>1, <4>2 DEF Seen, Decrementing
      <4>3. CASE u # t
        BY <1>0, <2>1, <3>1, <4>1, <4>3 DEF Seen, Decrementing
      <4> QED BY <4>2, <4>3
    <3> QED BY <3>2, <3>3 DEF CounterInv
  <2> QED BY <2>3, <2>4
<1>5. CASE LoadCount(t)
  <2>1. /\ place[t] = "load" /\ place' = [place EXCEPT ![t] = "store"]
        /\ old' = [old EXCEPT ![t] = burstcnt] /\ UNCHANGED <<burstcnt, counter>>
    BY <1>0, <1>5 DEF LoadCount, GoTo, trigger, counter
  <2>2. cpc' \notin {"sent", "start"} => place'["command"] = "out"
    BY <1>2, <2>1 DEF Places
  <2>3. CounterType' /\ CounterObeyed'
    <3>1. place' \in [Thread -> Places] /\ old' \in [Thread -> Int]
      BY <1>0, <2>1 DEF Places
    <3> QED BY <1>0, <2>1, <2>2, <3>1 DEF CounterInv, CounterType, CounterObeyed, counter
  <2>4. ASSUME ~raced', NEW u \in Thread PROVE Seen(u)'
    <3>1. ~raced /\ Seen(u)
      BY <2>1, <2>4 DEF CounterInv, counter
    <3>2. CASE u = t
      BY <1>0, <2>1, <3>1, <3>2 DEF Seen, Decrementing
    <3>3. CASE u # t
      BY <1>0, <2>1, <3>1, <3>3 DEF Seen, Decrementing
    <3> QED BY <3>2, <3>3
  <2> QED BY <2>3, <2>4 DEF CounterInv
<1>6. CASE StoreCount(t)
  <2>1. /\ place[t] = "store" /\ place' = [place EXCEPT ![t] = "set"]
        /\ burstcnt' = old[t] - 1 /\ raced' = (raced \/ Decrementing(Other(t)))
        /\ UNCHANGED <<old, asked>>
    BY <1>0, <1>6 DEF StoreCount, GoTo
  <2>2. cpc' \notin {"sent", "start"} => place'["command"] = "out"
    BY <1>2, <2>1 DEF Places
  <2>3. raced' \in BOOLEAN
    BY <2>1 DEF Decrementing
  <2>4. CounterType'
    <3>1. place' \in [Thread -> Places] /\ burstcnt' \in Int
      BY <1>0, <2>1 DEF Places
    <3> QED BY <1>0, <2>1, <2>2, <2>3, <3>1 DEF CounterType
  <2>5. ASSUME ~raced' PROVE /\ ~raced /\ ~Decrementing(Other(t))
                             /\ old[t] = burstcnt /\ burstcnt > 0
    <3>1. ~raced /\ ~Decrementing(Other(t))
      BY <2>1, <2>5
    <3> QED BY <2>1, <3>1 DEF CounterInv, Seen, Decrementing
  <2>6. CounterObeyed'
    <3> SUFFICES ASSUME ~raced'
                 PROVE  burstcnt' \in (IF asked > 0 THEN 0..asked ELSE {asked})
      BY <2>1 DEF CounterObeyed
    <3>1. burstcnt \in (IF asked > 0 THEN 0..asked ELSE {asked})
      BY <2>5 DEF CounterInv, CounterObeyed
    <3> QED BY <1>0, <2>1, <2>5, <3>1
  <2>7. ASSUME ~raced', NEW u \in Thread PROVE Seen(u)'
    <3>1. CASE u = t
      BY <1>0, <2>1, <3>1 DEF Seen, Decrementing
    <3>2. CASE u # t
      <4>1. u = Other(t)
        BY <3>2, Others
      <4>2. ~Decrementing(u)
        BY <2>5, <2>7, <4>1
      <4> QED BY <1>0, <2>1, <3>2, <4>2 DEF Seen, Decrementing
    <3> QED BY <3>1, <3>2
  <2> QED BY <2>4, <2>6, <2>7 DEF CounterInv
<1>7. CASE SetBusy(t) \/ PreUnblock(t) \/ ByHand(t)
  <2>1. PICK p \in {"unblock", "source?", "out"} :
            place' = [place EXCEPT ![t] = p] /\ place[t] # "out"
    BY <1>7 DEF SetBusy, PreUnblock, ByHand, GoTo
  <2>2. UNCHANGED <<burstcnt, old, counter>>
    BY <1>0, <1>7 DEF SetBusy, PreUnblock, ByHand, trigger, counter
  <2>3. p \in Places /\ p \notin {"load", "store"}
    BY DEF Places
  <2> QED BY <1>2, <2>1, <2>2, <2>3, Moves
<1> QED BY <1>3, <1>4, <1>5, <1>6, <1>7 DEF send_trigger

LEMMA NextCounterInv == CounterInv /\ [Next]_vars => CounterInv'
<1> SUFFICES ASSUME CounterInv, [Next]_vars PROVE CounterInv'
  OBVIOUS
<1>0. cpc \notin {"sent", "start"} => place["command"] = "out"
  BY DEF CounterInv, CounterType
<1>1. CASE TrgCount \/ TrgOff \/ RunStart
  <2>1. place["command"] = "out" /\ UNCHANGED sending
    BY <1>0, <1>1 DEF TrgCount, TrgOff, RunStart, Receive, sending
  <2>2. PICK n \in Int : SetCounter(n)
    <3>1. CASE TrgCount
      <4>1. PICK n \in -2..MaxBurst \ {0} : SetCounter(n)
        BY <3>1 DEF TrgCount
      <4>2. n \in Int
        BY ConstantsAssumption
      <4> QED BY <4>1, <4>2
    <3>2. CASE TrgOff \/ RunStart
      BY <3>2 DEF TrgOff, RunStart
    <3> QED BY <1>1, <3>1, <3>2
  <2> QED BY <2>1, <2>2, SetCounterInv
<1>2. CASE TestBusy
  <2>1. /\ cpc = "isbusy" /\ cpc' = "sent" /\ UNCHANGED <<burstcnt, old, counter>>
    BY <1>2 DEF TestBusy, trigger, history
  <2>2. CASE GoTo("command", "busy?")
    BY <2>1, <2>2, Moves, Others DEF GoTo, Places
  <2>3. CASE UNCHANGED place
    BY <2>1, <2>3, Untouched DEF sending
  <2> QED BY <1>2, <2>2, <2>3 DEF TestBusy
<1>3. CASE RunClear
  <2>1. /\ cpc' = "start" /\ GoTo("command", "busy?") /\ UNCHANGED <<burstcnt, old, counter>>
    BY <1>3 DEF RunClear, clear_busy, history
  <2> QED BY <2>1, Moves, Others DEF GoTo, Places
<1>4. CASE CommandEnds \/ StartRun
  <2>1. UNCHANGED <<burstcnt, sending, counter>> /\ place["command"] = "out"
    BY <1>4 DEF CommandEnds, StartRun, trigger, history
  <2> QED BY <2>1, Untouched
<1>5. CASE \/ SourceOff \/ TrgLut \/ TrgUnblock \/ TrgSend \/ TrgConf \/ TrgPlain
           \/ SfpReset \/ SfpReset1 \/ OpenFile \/ RunStop \/ CloseFile \/ ForgetFile
  <2>1. UNCHANGED <<burstcnt, sending, counter>>
    BY <1>5 DEF SourceOff, TrgLut, TrgUnblock, TrgSend, TrgConf, TrgPlain, SfpReset, SfpReset1,
       OpenFile, RunStop, CloseFile, ForgetFile, Receive, trigger, sending, history, counter
  <2>2. cpc \notin {"sent", "start"} /\ cpc' \notin {"sent", "start"}
    BY <1>5 DEF SourceOff, TrgLut, TrgUnblock, TrgSend, TrgConf, TrgPlain, SfpReset, SfpReset1,
       OpenFile, RunStop, CloseFile, ForgetFile, Receive
  <2> QED BY <1>0, <2>1, <2>2, Untouched
<1>6. ASSUME NEW t \in Thread, send_trigger(t) PROVE CounterInv'
  BY <1>6, SendTriggerInv
<1>7. CASE ReadingDone
  <2>1. GoTo("reader", "busy?") /\ UNCHANGED <<cpc, burstcnt, old, counter>>
    BY <1>7 DEF ReadingDone, clear_busy, history
  <2>2. cpc' \notin {"sent", "start"} => place'["command"] = "out"
    BY <1>0, <2>1, Others DEF GoTo, CounterInv, CounterType
  <2> QED BY <2>1, <2>2, Moves, Others DEF GoTo, Places
<1>8. CASE \/ Enter \/ CountFifo \/ ReadBurst \/ Decide \/ CheckFile \/ WriteSegment
           \/ Environment \/ UNCHANGED vars
  <2>1. UNCHANGED <<burstcnt, sending, counter, cpc>>
    BY <1>8 DEF Enter, CountFifo, ReadBurst, Decide, CheckFile, WriteSegment, Environment,
       Pretrigger, Arrive, Expire, vars, trigger, history
  <2> QED BY <1>0, <2>1, Untouched
<1> QED BY <1>1, <1>2, <1>3, <1>4, <1>5, <1>6, <1>7, <1>8, Others
        DEF Next, CommandThread, ReaderThread, ReadEvent

\* The counter obeys the last command (CounterObeyed): after "run start" and
\* "trg off" it is 0 until a command sets it, and a burst never grows
\* (trigger.cc:58-71, 226-257), unless one thread wrote it while the other was
\* between its test and its decrement.
THEOREM CounterAlwaysObeyed == Spec => []CounterObeyed
<1>1. CounterInv => CounterObeyed
  BY DEF CounterInv
<1> QED BY <1>1, InitCounterInv, NextCounterInv, PTL DEF Spec

-----------------------------------------------------------------------------
(* Division by a number that is not known.                                 *)
LEMMA Remainder ==
    ASSUME NEW E \in Nat \ {0}, NEW q \in Nat, NEW r \in 0..(E - 1)
    PROVE  (q * E + r) % E = r
OBVIOUS

(* Every number is a multiple and a remainder.                             *)
LEMMA Quotient ==
    ASSUME NEW E \in Nat \ {0}, NEW a \in Nat
    PROVE  \E q \in Nat : \E r \in 0..(E - 1) : a = q * E + r /\ a % E = r
<1>1. a \div E \in Nat /\ a % E \in 0..(E - 1)
  OBVIOUS
<1>2. a = (a \div E) * E + (a % E)
  OBVIOUS
<1> QED BY <1>1, <1>2

(* A multiple in front does not change the remainder.                      *)
LEMMA ModAdd ==
    ASSUME NEW E \in Nat \ {0}, NEW a \in Nat, NEW k \in Nat, a % E = 0
    PROVE  (a + k) % E = k % E
<1>1. PICK p \in Nat : a = p * E
  <2>1. PICK p \in Nat, r \in 0..(E - 1) : a = p * E + r /\ a % E = r
    BY Quotient
  <2>2. r = 0 /\ p * E \in Nat
    BY <2>1
  <2> QED BY <2>1, <2>2
<1>2. PICK q \in Nat, r \in 0..(E - 1) : k = q * E + r /\ k % E = r
  BY Quotient
<1>3. p * E + q * E = (p + q) * E /\ p * E \in Nat /\ q * E \in Nat /\ p + q \in Nat
  OBVIOUS
<1>4. a + k = (p + q) * E + r
  BY <1>1, <1>2, <1>3
<1>5. ((p + q) * E + r) % E = r
  BY <1>3, Remainder
<1> QED BY <1>2, <1>4, <1>5

(* Behind the last remainder comes 0.                                      *)
LEMMA ModLast ==
    ASSUME NEW E \in Nat \ {0}, NEW k \in Nat \ {0}, (k - 1) % E = E - 1
    PROVE  k % E = 0
<1>1. PICK q \in Nat, r \in 0..(E - 1) : k - 1 = q * E + r /\ (k - 1) % E = r
  <2>1. k - 1 \in Nat
    OBVIOUS
  <2> QED BY <2>1, Quotient
<1>2. k = q * E + E /\ q * E \in Nat
  BY <1>1
<1>3. (q + 1) * E + 0 = q * E + E
  OBVIOUS
<1>4. ((q + 1) * E + 0) % E = 0
  <2>1. q + 1 \in Nat /\ 0 \in 0..(E - 1)
    OBVIOUS
  <2> QED BY <2>1, Remainder
<1> QED BY <1>2, <1>3, <1>4

-----------------------------------------------------------------------------
Step == NData + 1

(* An event is Step dwords; the marker is the last of them and no other.   *)
LEMMA EventIs ==
    /\ Step \in Nat \ {0}
    /\ Event \in Seq(Dword) /\ Len(Event) = Step
    /\ \A k \in 1..Step : Event[k] = "end" <=> k = Step
BY ConstantsAssumption DEF Step, Event, Dword

At(k) == Event[1 + ((k - 1) % Step)]

(* Whole, in terms of At: each dword is the one its position asks for.     *)
LEMMA WholeIs ==
    ASSUME NEW w \in Seq(Dword)
    PROVE  Whole(w) <=> Len(w) % Step = 0 /\ \A k \in 1..Len(w) : w[k] = At(k)
BY DEF Whole, Step, At

(* No dwords are no events.                                                *)
LEMMA WholeNothing == Whole(<<>>)
<1>1. 0 % Step = 0
  BY EventIs
<1>2. <<>> \in Seq(Dword) /\ Len(<<>>) = 0
  OBVIOUS
<1>3. \A k \in 1..0 : <<>>[k] = At(k)
  OBVIOUS
<1>4. Len(<<>>) % Step = 0 /\ \A k \in 1..Len(<<>>) : <<>>[k] = At(k)
  BY <1>1, <1>2, <1>3
<1> DEFINE e == <<>>
<1> HIDE DEF e
<1>5. e \in Seq(Dword) /\ Len(e) % Step = 0 /\ \A k \in 1..Len(e) : e[k] = At(k)
  BY <1>2, <1>4 DEF e
<1>6. Whole(e)
  BY <1>5, WholeIs
<1> QED BY <1>6 DEF e

(* An event is one.                                                        *)
LEMMA WholeEvent == Whole(Event)
<1>1. Step % Step = 0
  BY EventIs
<1>2. ASSUME NEW k \in 1..Step PROVE Event[k] = At(k)
  <2>1. (k - 1) % Step = k - 1
    BY EventIs
  <2>2. 1 + (k - 1) = k
    OBVIOUS
  <2> QED BY <2>1, <2>2 DEF At
<1> QED BY <1>1, <1>2, EventIs, WholeIs

(* Behind whole events the positions start anew.                           *)
LEMMA AtAfter ==
    ASSUME NEW n \in Nat, n % Step = 0, NEW k \in Nat \ {0}
    PROVE  At(n + k) = At(k)
<1>1. n + k - 1 = n + (k - 1) /\ k - 1 \in Nat
  OBVIOUS
<1>2. (n + (k - 1)) % Step = (k - 1) % Step
  BY <1>1, EventIs, ModAdd
<1> QED BY <1>1, <1>2 DEF At

(* Concatenation, for the provers in one place.                            *)
LEMMA ConcatIs ==
    ASSUME NEW u \in Seq(Dword), NEW v \in Seq(Dword)
    PROVE  /\ u \o v \in Seq(Dword) /\ Len(u) \in Nat /\ Len(v) \in Nat
           /\ Len(u \o v) = Len(u) + Len(v)
           /\ \A k \in 1..Len(u) : (u \o v)[k] = u[k]
           /\ \A k \in 1..Len(v) : (u \o v)[Len(u) + k] = v[k]
BY ConcatProperties

(* Concatenation is associative; fixed to dwords for the provers.          *)
LEMMA DwordsAssociate ==
    ASSUME NEW u \in Seq(Dword), NEW v \in Seq(Dword), NEW w \in Seq(Dword)
    PROVE  (u \o v) \o w = u \o (v \o w)
BY ConcatAssociative

(* Behind whole events the rest is whole if and only if all is.            *)
LEMMA WholeConcat ==
    ASSUME NEW u \in Seq(Dword), NEW v \in Seq(Dword), Whole(u)
    PROVE  Whole(u \o v) <=> Whole(v)
<1> DEFINE w == u \o v
           n == Len(u)
           m == Len(v)
<1>1. /\ w \in Seq(Dword) /\ n \in Nat /\ m \in Nat /\ Len(w) = n + m
      /\ \A k \in 1..n : w[k] = u[k]
      /\ \A k \in 1..m : w[n + k] = v[k]
  BY ConcatIs
<1>2. n % Step = 0 /\ \A k \in 1..n : u[k] = At(k)
  BY WholeIs
<1> HIDE DEF w, n
<1>3. (n + m) % Step = m % Step
  BY <1>1, <1>2, EventIs, ModAdd
<1>4. \A k \in 1..m : At(n + k) = At(k)
  BY <1>1, <1>2, AtAfter
<1>5. Whole(w) <=> Len(w) % Step = 0 /\ \A k \in 1..Len(w) : w[k] = At(k)
  BY <1>1, WholeIs
<1>6. Whole(v) <=> m % Step = 0 /\ \A k \in 1..m : v[k] = At(k)
  BY WholeIs
<1> HIDE DEF m
<1>7. ASSUME \A k \in 1..m : v[k] = At(k), NEW k \in 1..(n + m)
      PROVE  w[k] = At(k)
  <2>1. CASE k \in 1..n
    BY <1>1, <1>2, <2>1
  <2>2. CASE k \notin 1..n
    <3>1. k - n \in 1..m /\ n + (k - n) = k
      BY <1>1, <2>2
    <3>2. w[n + (k - n)] = v[k - n] /\ At(n + (k - n)) = At(k - n)
      BY <1>1, <1>4, <3>1
    <3> QED BY <1>7, <3>1, <3>2
  <2> QED BY <2>1, <2>2
<1>8. ASSUME \A k \in 1..(n + m) : w[k] = At(k), NEW k \in 1..m
      PROVE  v[k] = At(k)
  <2>1. n + k \in 1..(n + m)
    BY <1>1
  <2>2. w[n + k] = v[k] /\ At(n + k) = At(k) /\ w[n + k] = At(n + k)
    BY <1>1, <1>4, <1>8, <2>1
  <2> QED BY <2>2
<1> QED BY <1>1, <1>3, <1>5, <1>6, <1>7, <1>8 DEF w

(* What ends with a marker has ended with an event.                        *)
LEMMA WholeFront ==
    ASSUME NEW u \in Seq(Dword), NEW v \in Seq(Dword), Whole(u \o v),
           u # <<>> => Last(u) = "end"
    PROVE  Whole(u)
<1>1. CASE u = <<>>
  BY <1>1, WholeNothing
<1>2. CASE u # <<>>
  <2> DEFINE n == Len(u)
  <2>1. n \in Nat \ {0} /\ u[n] = "end"
    BY <1>2, EmptySeq DEF Last
  <2>2. \A k \in 1..n : u[k] = At(k)
    <3>1. \A k \in 1..Len(u \o v) : (u \o v)[k] = At(k)
      BY ConcatIs, WholeIs
    <3>2. \A k \in 1..n : k \in 1..Len(u \o v) /\ (u \o v)[k] = u[k]
      BY ConcatIs
    <3> QED BY <3>1, <3>2
  <2> HIDE DEF n
  <2>3. At(n) = "end"
    <3>1. n \in 1..n
      BY <2>1
    <3> QED BY <2>1, <2>2, <3>1
  <2>4. (n - 1) % Step = Step - 1
    <3>1. n - 1 \in Nat
      BY <2>1
    <3>2. 1 + ((n - 1) % Step) \in 1..Step
      BY <3>1, EventIs
    <3>3. 1 + ((n - 1) % Step) = Step
      BY <2>3, <3>2, EventIs DEF At
    <3>4. (n - 1) % Step \in Int
      BY <3>1, EventIs
    <3> QED BY <3>3, <3>4, EventIs
  <2>5. n % Step = 0
    BY <2>1, <2>4, EventIs, ModLast
  <2> QED BY <2>2, <2>5, WholeIs DEF n
<1> QED BY <1>1, <1>2

-----------------------------------------------------------------------------
(* A FIFO cut in two is its two parts.                                     *)
LEMMA CutDwords ==
    ASSUME NEW f \in Seq(Dword), NEW n \in 0..Len(f)
    PROVE  f = SubSeq(f, 1, n) \o SubSeq(f, n + 1, Len(f))
<1> DEFINE x == SubSeq(f, 1, n)
           y == SubSeq(f, n + 1, Len(f))
<1>1. /\ x \in Seq(Dword) /\ Len(x) = n /\ \A i \in 1..n : x[i] = f[i]
      /\ y \in Seq(Dword) /\ Len(y) = Len(f) - n
      /\ \A i \in 1..(Len(f) - n) : y[i] = f[n + i]
  <2>1. Len(f) \in Nat /\ n \in Nat /\ n <= Len(f) /\ \A i \in 1..Len(f) : f[i] \in Dword
    OBVIOUS
  <2>2. x \in Seq(Dword) /\ Len(x) = n /\ \A i \in 1..n : x[i] = f[i]
    BY <2>1, SubSeqProperties
  <2>3. y \in Seq(Dword) /\ Len(y) = Len(f) - n
    BY <2>1, SubSeqProperties
  <2>4. \A i \in 1..(Len(f) - n) : y[i] = f[n + i]
    BY <2>1, SubSeqProperties
  <2> QED BY <2>2, <2>3, <2>4
<1> HIDE DEF x, y
<1>2. /\ x \o y \in Seq(Dword) /\ Len(x \o y) = Len(f)
      /\ \A i \in 1..n : (x \o y)[i] = x[i]
      /\ \A i \in 1..(Len(f) - n) : (x \o y)[n + i] = y[i]
  BY <1>1, ConcatIs
<1>3. ASSUME NEW i \in 1..Len(f) PROVE (x \o y)[i] = f[i]
  <2>1. CASE i <= n
    BY <1>1, <1>2, <2>1
  <2>2. CASE ~(i <= n)
    <3>1. i - n \in 1..(Len(f) - n) /\ n + (i - n) = i
      BY <2>2
    <3>2. (x \o y)[n + (i - n)] = y[i - n] /\ y[i - n] = f[n + (i - n)]
      BY <1>1, <1>2, <3>1
    <3> QED BY <3>1, <3>2
  <2> QED BY <2>1, <2>2
<1>4. f = x \o y
  BY <1>2, <1>3, SeqEqual
<1> QED BY <1>4 DEF x, y

(* The types, by the threads and the hardware they belong to, with what    *)
(* the FIFO and the buffer allow a burst to be.                            *)
TriggerTypes ==
    /\ busy \in BOOLEAN /\ src \in {"off", "ext", "soft"}
    /\ asked \in -2..MaxBurst

CommandTypes ==
    /\ run \in BOOLEAN /\ out_file \in {"null", "open", "freed"}
    /\ cpc \in {"idle", "isbusy", "sent", "off", "card1", "clear", "start", "fopen",
                "fclose", "forget"}
    /\ commands \in 0..MaxCommands
    /\ reset \in BOOLEAN
    /\ cpc = "card1" => reset

ReaderTypes ==
    /\ rpc \in {"enter", "count", "burst", "decide", "clear", "check", "write"}
    /\ sfp \in SFP /\ count \in 0..BufSize /\ expired \in BOOLEAN
    /\ buf \in [SFP -> Seq(Dword)] /\ \A s \in SFP : Len(buf[s]) <= BufSize
    /\ rpc = "burst" => count + Len(buf[sfp]) <= BufSize
    /\ dead \in BOOLEAN /\ late \in BOOLEAN

BoxTypes ==
    /\ open \in BOOLEAN /\ lut \in BOOLEAN
    /\ due \in [SFP -> Seq(Dword)] /\ fifo \in [SFP -> Seq(Dword)]
    /\ triggers \in 0..MaxTriggers

Types == CounterInv /\ TriggerTypes /\ CommandTypes /\ ReaderTypes /\ BoxTypes

(* The smaller of two numbers.                                             *)
LEMMA MinOf ==
    ASSUME NEW a \in Int, NEW b \in Int
    PROVE  /\ Min({a, b}) \in {a, b}
           /\ Min({a, b}) <= a /\ Min({a, b}) <= b
<1>1. \E x \in {a, b} : \A y \in {a, b} : x <= y
  OBVIOUS
<1> QED BY <1>1 DEF Min

(* Buffers and FIFOs without dwords.                                       *)
LEMMA Empties ==
    /\ [s \in SFP |-> <<>>] \in [SFP -> Seq(Dword)]
    /\ \A s \in SFP : [r \in SFP |-> <<>>][s] = <<>>
    /\ Len(<<>>) = 0
OBVIOUS

(* The types hold when the server starts.                                  *)
LEMMA InitTypes == Init => Types
<1> SUFFICES ASSUME Init PROVE Types
  OBVIOUS
<1>1. TriggerTypes
  <2>1. busy \in BOOLEAN /\ src = "off" /\ asked = 0
    BY DEF Init
  <2> QED BY <2>1, ConstantsAssumption DEF TriggerTypes
<1>2. CommandTypes
  <2>1. /\ run = FALSE /\ out_file = "null" /\ cpc = "idle" /\ commands = 0
        /\ reset = FALSE
    BY DEF Init
  <2>2. run \in BOOLEAN /\ reset \in BOOLEAN
    BY <2>1, Zenon
  <2> QED BY <2>1, <2>2, ConstantsAssumption DEF CommandTypes
<1>3. ReaderTypes
  <2>1. /\ rpc = "enter" /\ sfp = 0 /\ count = 0 /\ buf = [s \in SFP |-> <<>>]
        /\ expired = FALSE /\ dead = FALSE /\ late = FALSE
    BY DEF Init
  <2>2. expired \in BOOLEAN /\ dead \in BOOLEAN /\ late \in BOOLEAN
    BY <2>1, Zenon
  <2>3. sfp \in SFP /\ count \in 0..BufSize
    BY <2>1, ConstantsAssumption DEF SFP
  <2>4. buf \in [SFP -> Seq(Dword)] /\ \A s \in SFP : Len(buf[s]) <= BufSize
    BY <2>1, Empties, ConstantsAssumption
  <2> QED BY <2>1, <2>2, <2>3, <2>4 DEF ReaderTypes
<1>4. BoxTypes
  <2>1. /\ open = FALSE /\ lut = FALSE /\ triggers = 0
        /\ due = [s \in SFP |-> <<>>] /\ fifo = [s \in SFP |-> <<>>]
    BY DEF Init
  <2>2. open \in BOOLEAN /\ lut \in BOOLEAN
    BY <2>1, Zenon
  <2> QED BY <2>1, <2>2, Empties, ConstantsAssumption DEF BoxTypes
<1> QED BY <1>1, <1>2, <1>3, <1>4, InitCounterInv DEF Types

(* The parts make the type invariant of the run.                           *)
LEMMA TypesTypeOK == Types => TypeOK
BY DEF Types, TypeOK, TriggerTypes, CommandTypes, ReaderTypes, BoxTypes, CounterInv,
   CounterType, Places

(* Only the sending of triggers and the commands touch the trigger.        *)
LEMMA NextTriggerTypes ==
    ASSUME TriggerTypes, [Next]_vars
    PROVE  TriggerTypes'
<1> USE ConstantsAssumption DEF TriggerTypes
<1>1. ASSUME NEW t \in Thread, send_trigger(t) PROVE TriggerTypes'
  <2>1. UNCHANGED <<src, asked>> /\ (busy' = busy \/ busy' = TRUE)
    BY <1>1 DEF send_trigger, CheckBusy, CheckCount, LoadCount, StoreCount, SetBusy,
                PreUnblock, ByHand, trigger
  <2>2. busy' \in BOOLEAN
    BY <2>1, Zenon
  <2> QED BY <2>1, <2>2
<1>2. CASE TrgCount \/ TrgOff \/ RunStart
  <2>1. UNCHANGED <<busy, src>>
    BY <1>2 DEF TrgCount, TrgOff, RunStart
  <2>2. asked' \in -2..MaxBurst
    BY <1>2 DEF TrgCount, TrgOff, RunStart, SetCounter
  <2> QED BY <2>1, <2>2
<1>3. CASE SourceOff \/ TrgLut
  <2>1. UNCHANGED <<busy, asked>> /\ src' \in {"off", "ext", "soft"}
    BY <1>3 DEF SourceOff, TrgLut, history, counter
  <2> QED BY <2>1
<1>4. CASE RunClear \/ ReadingDone
  <2>1. UNCHANGED <<src, asked>> /\ busy' = FALSE
    BY <1>4 DEF RunClear, ReadingDone, clear_busy, history, counter
  <2>2. busy' \in BOOLEAN
    BY <2>1, Zenon
  <2> QED BY <2>1, <2>2
<1>5. CASE \/ TestBusy \/ CommandEnds \/ TrgUnblock \/ TrgSend \/ TrgConf \/ TrgPlain
           \/ SfpReset \/ SfpReset1 \/ StartRun \/ OpenFile \/ RunStop \/ CloseFile
           \/ ForgetFile \/ Enter \/ CountFifo \/ ReadBurst \/ Decide \/ CheckFile
           \/ WriteSegment \/ Environment \/ UNCHANGED vars
  <2>1. UNCHANGED <<busy, src, asked>>
    BY <1>5 DEF TestBusy, CommandEnds, TrgUnblock, TrgSend, TrgConf, TrgPlain, SfpReset,
       SfpReset1, StartRun, OpenFile, RunStop, CloseFile, ForgetFile, Enter, CountFifo,
       ReadBurst, Decide, CheckFile, WriteSegment, Environment, Pretrigger, Arrive,
       Expire, vars, trigger, history, counter
  <2> QED BY <2>1
<1> QED BY <1>1, <1>2, <1>3, <1>4, <1>5, Others DEF Next, CommandThread, ReaderThread, ReadEvent

(* Only the command thread moves through commands, runs and the file;      *)
(* reset is set before it goes to card 1.                                  *)
LEMMA NextCommandTypes ==
    ASSUME CommandTypes, [Next]_vars
    PROVE  CommandTypes'
<1> USE ConstantsAssumption DEF CommandTypes
<1>1. ASSUME Receive PROVE commands' \in 0..MaxCommands
  BY <1>1 DEF Receive
<1>2. CASE RunStart \/ TrgCount \/ TrgOff \/ RunClear
  BY <1>1, <1>2 DEF RunStart, TrgCount, TrgOff, RunClear, daq, history
<1>3. CASE StartRun
  <2>1. run' = TRUE /\ cpc' = "fopen" /\ UNCHANGED <<out_file, commands, reset>>
    BY <1>3 DEF StartRun, history
  <2>2. run' \in BOOLEAN
    BY <2>1, Zenon
  <2> QED BY <2>1, <2>2
<1>4. CASE RunStop
  <2>1. run' = FALSE /\ cpc' = "fclose" /\ UNCHANGED <<out_file, reset>> /\ Receive
    BY <1>4 DEF RunStop
  <2>2. run' \in BOOLEAN
    BY <2>1, Zenon
  <2> QED BY <1>1, <2>1, <2>2
<1>5. CASE SfpReset
  <2>1. reset' = TRUE /\ cpc' = "card1" /\ UNCHANGED daq /\ Receive
    BY <1>5 DEF SfpReset
  <2>2. reset' \in BOOLEAN
    BY <2>1, Zenon
  <2> QED BY <1>1, <2>1, <2>2 DEF daq
<1>6. CASE OpenFile \/ CloseFile \/ ForgetFile
  BY <1>6 DEF OpenFile, CloseFile, ForgetFile, history
<1>7. CASE TestBusy \/ CommandEnds \/ SourceOff \/ SfpReset1
  BY <1>7 DEF TestBusy, CommandEnds, SourceOff, SfpReset1, daq, history
<1>8. CASE TrgLut \/ TrgUnblock \/ TrgSend \/ TrgConf \/ TrgPlain
  BY <1>1, <1>8 DEF TrgLut, TrgUnblock, TrgSend, TrgConf, TrgPlain, daq
<1>9. ASSUME NEW t \in Thread, send_trigger(t) PROVE CommandTypes'
  BY <1>9 DEF send_trigger, daq
<1>10. CASE \/ Enter \/ CountFifo \/ ReadBurst \/ Decide \/ ReadingDone \/ CheckFile
            \/ WriteSegment \/ Environment \/ UNCHANGED vars
  <2>1. UNCHANGED <<run, out_file, cpc, commands, reset>>
    BY <1>10 DEF Enter, CountFifo, ReadBurst, Decide, ReadingDone, CheckFile,
       WriteSegment, Environment, Pretrigger, Arrive, Expire, vars, daq, history
  <2> QED BY <2>1
<1> QED BY <1>2, <1>3, <1>4, <1>5, <1>6, <1>7, <1>8, <1>9, <1>10, Others
        DEF Next, CommandThread, ReaderThread, ReadEvent

(* What the reader does at the end of a round.                             *)
LEMMA DecideIs ==
    ASSUME Decide
    PROVE  /\ rpc = "decide"
           /\ rpc' = IF ~readflag THEN "enter"
                     ELSE IF compflag \/ expired THEN "clear" ELSE "count"
           /\ late' = (late \/ (readflag /\ ~compflag /\ expired))
           /\ UNCHANGED <<cpc, sfp, count, buf, expired, dead, due, fifo, reset>>
BY DEF Decide, reading, hardware

(* maxlen: a burst fits what is left of the buffer.                        *)
LEMMA CountIs ==
    ASSUME ReaderTypes, BoxTypes, CountFifo
    PROVE  /\ count' \in 0..BufSize /\ count' + Len(buf[sfp]) <= BufSize
           /\ count' <= Len(fifo[sfp])
           /\ rpc' = "burst" /\ UNCHANGED <<cpc, sfp, buf, expired, dead, due, fifo, late, reset>>
<1> DEFINE a == Len(fifo[sfp])
           b == BufSize - Len(buf[sfp])
<1>1. a \in Nat /\ b \in 0..BufSize /\ Len(buf[sfp]) \in Nat
  BY ConstantsAssumption DEF ReaderTypes, BoxTypes
<1>2. count' = Min({a, b}) /\ rpc' = "burst"
      /\ UNCHANGED <<cpc, sfp, buf, expired, dead, due, fifo, late, reset>>
  BY DEF CountFifo, hardware, history
<1>3. Min({a, b}) \in {a, b} /\ Min({a, b}) <= a /\ Min({a, b}) <= b
  <2>1. a \in Int /\ b \in Int
    BY <1>1, ConstantsAssumption
  <2> HIDE DEF a, b
  <2> QED BY <2>1, MinOf
<1>4. b + Len(buf[sfp]) <= BufSize
  BY <1>1, ConstantsAssumption
<1> HIDE DEF a
<1>5. count' \in 0..BufSize /\ count' <= a /\ count' + Len(buf[sfp]) <= BufSize
  <2> HIDE DEF b
  <2> QED BY <1>1, <1>2, <1>3, <1>4, ConstantsAssumption
<1> QED BY <1>2, <1>5 DEF a

(* The dwords of a burst: what the FIFO holds of them, then what means     *)
(* nothing, if the FIFO was cleared since they were counted.               *)
LEMMA BurstIs ==
    ASSUME ReaderTypes, BoxTypes, ReadBurst
    PROVE  \E n \in 0..count : \E junk \in Seq(Dword) :
              /\ n = Min({count, Len(fifo[sfp])}) /\ n <= Len(fifo[sfp])
              /\ Len(junk) = count - n
              /\ buf' = [buf EXCEPT ![sfp] = @ \o SubSeq(fifo[sfp], 1, n) \o junk]
              /\ fifo' = [fifo EXCEPT ![sfp] = SubSeq(@, n + 1, Len(@))]
              /\ SubSeq(fifo[sfp], 1, n) \in Seq(Dword)
              /\ Len(SubSeq(fifo[sfp], 1, n)) = n
              /\ SubSeq(fifo[sfp], n + 1, Len(fifo[sfp])) \in Seq(Dword)
<1> DEFINE f == fifo[sfp]
           n == Min({count, Len(f)})
<1>1. f \in Seq(Dword) /\ Len(f) \in Nat /\ count \in Nat
  BY ConstantsAssumption DEF ReaderTypes, BoxTypes
<1>2. PICK junk \in [1..count - n -> Dword] :
          buf' = [buf EXCEPT ![sfp] = @ \o SubSeq(f, 1, n) \o junk]
  BY DEF ReadBurst
<1>3. fifo' = [fifo EXCEPT ![sfp] = SubSeq(@, n + 1, Len(@))]
  BY DEF ReadBurst
<1>4. n \in {count, Len(f)} /\ n <= count /\ n <= Len(f)
  <2> DEFINE a == Len(f)
  <2>1. a \in Int /\ count \in Int
    BY <1>1
  <2> HIDE DEF f, a
  <2>2. Min({count, a}) \in {count, a} /\ Min({count, a}) <= count /\ Min({count, a}) <= a
    BY <2>1, MinOf
  <2> QED BY <2>2 DEF a
<1> HIDE DEF n
<1>5. n \in 0..count /\ count - n \in Nat
  BY <1>1, <1>4
<1>6. junk \in Seq(Dword) /\ Len(junk) = count - n
  <2> DEFINE m == count - n
  <2>1. m \in Nat /\ junk \in [1..m -> Dword]
    BY <1>5
  <2> HIDE DEF m
  <2>2. junk \in Seq(Dword) /\ Len(junk) = m
    BY <2>1
  <2> QED BY <2>2 DEF m
<1>7. /\ SubSeq(f, 1, n) \in Seq(Dword) /\ Len(SubSeq(f, 1, n)) = n
      /\ SubSeq(f, n + 1, Len(f)) \in Seq(Dword)
  <2> HIDE DEF f
  <2>1. \A i \in 1..n : f[i] \in Dword
    BY <1>1, <1>4, <1>5
  <2>2. \A i \in n + 1..Len(f) : f[i] \in Dword
    BY <1>1, <1>4, <1>5
  <2>3. SubSeq(f, 1, n) \in Seq(Dword) /\ Len(SubSeq(f, 1, n)) = n
    BY <1>1, <1>4, <1>5, <2>1, SubSeqProperties
  <2>4. SubSeq(f, n + 1, Len(f)) \in Seq(Dword)
    BY <1>1, <1>4, <1>5, <2>2, SubSeqProperties
  <2> QED BY <2>3, <2>4
<1>8. n = Min({count, Len(fifo[sfp])}) /\ n <= Len(fifo[sfp])
  BY <1>4 DEF n
<1> QED BY <1>2, <1>3, <1>5, <1>6, <1>7, <1>8

(* The reader and its buffers; the process may also end when a file is     *)
(* closed.                                                                 *)
LEMMA NextReaderTypes ==
    ASSUME ReaderTypes, BoxTypes, CommandTypes, [Next]_vars
    PROVE  ReaderTypes'
<1> USE ConstantsAssumption DEF ReaderTypes
<1>1. CASE Enter
  <2>1. /\ buf' = [s \in SFP |-> <<>>] /\ sfp' = 0 /\ expired' = FALSE /\ rpc' = "count"
        /\ UNCHANGED <<count, dead, late>>
    BY <1>1 DEF Enter, history
  <2>2. expired' \in BOOLEAN
    BY <2>1, Zenon
  <2>3. sfp' \in SFP
    BY <2>1 DEF SFP
  <2>4. buf' \in [SFP -> Seq(Dword)] /\ \A s \in SFP : Len(buf'[s]) <= BufSize
    BY <2>1, Empties
  <2> QED BY <2>1, <2>2, <2>3, <2>4
<1>2. CASE CountFifo
  BY <1>2, CountIs
<1>3. CASE ReadBurst
  <2>1. PICK n \in 0..count, junk \in Seq(Dword) :
              /\ Len(junk) = count - n
              /\ buf' = [buf EXCEPT ![sfp] = @ \o SubSeq(fifo[sfp], 1, n) \o junk]
              /\ SubSeq(fifo[sfp], 1, n) \in Seq(Dword)
              /\ Len(SubSeq(fifo[sfp], 1, n)) = n
    BY <1>3, BurstIs
  <2> DEFINE x == SubSeq(fifo[sfp], 1, n)
             y == buf[sfp] \o x \o junk
  <2>2. y \in Seq(Dword) /\ Len(y) = Len(buf[sfp]) + count
    <3> DEFINE b == buf[sfp]
    <3>1. b \in Seq(Dword) /\ x \in Seq(Dword) /\ Len(x) = n /\ count \in Nat
      BY <2>1
    <3> HIDE DEF x, b
    <3>2. b \o x \in Seq(Dword) /\ Len(b \o x) = Len(b) + n
      BY <3>1, ConcatIs
    <3>3. (b \o x) \o junk \in Seq(Dword) /\ Len((b \o x) \o junk) = Len(b) + n + (count - n)
      BY <2>1, <3>1, <3>2, ConcatIs
    <3>4. Len(b) + n + (count - n) = Len(b) + count
      BY <3>1, <2>1
    <3> QED BY <3>3, <3>4 DEF x, b
  <2>3. rpc = "burst" /\ count + Len(buf[sfp]) <= BufSize /\ Len(buf[sfp]) \in Nat
    BY <1>3 DEF ReadBurst
  <2>4. buf' = [buf EXCEPT ![sfp] = y]
    BY <2>1
  <2> HIDE DEF y
  <2>5. buf' \in [SFP -> Seq(Dword)] /\ \A s \in SFP : Len(buf'[s]) <= BufSize
    BY <2>2, <2>3, <2>4
  <2>6. /\ sfp' \in SFP /\ rpc' \in {"count", "decide"} /\ UNCHANGED <<count, expired, dead, late>>
    BY <1>3 DEF ReadBurst, SFP, history
  <2> QED BY <2>5, <2>6
<1>4. CASE Decide
  <2>1. /\ rpc' \in {"enter", "clear", "count"}
        /\ UNCHANGED <<sfp, count, buf, expired, dead>>
    BY <1>4, DecideIs
  <2>2. late' \in BOOLEAN
    BY <1>4, DecideIs DEF readflag
  <2> QED BY <2>1, <2>2
<1>5. CASE ReadingDone \/ CheckFile
  BY <1>5 DEF ReadingDone, CheckFile, reading, history
<1>6. CASE WriteSegment
  <2>1. /\ sfp' \in SFP /\ rpc' \in {"write", "enter"}
        /\ UNCHANGED <<count, buf, expired, late>>
    BY <1>6 DEF WriteSegment, SFP, history
  <2>2. dead' \in BOOLEAN
    <3>1. CASE out_file = "open"
      BY <1>6, <3>1 DEF WriteSegment
    <3>2. CASE out_file = "freed"
      BY <1>6, <3>2 DEF WriteSegment
    <3>3. CASE out_file = "null"
      BY <1>6, <3>3 DEF WriteSegment
    <3> QED BY <3>1, <3>2, <3>3 DEF CommandTypes
  <2> QED BY <2>1, <2>2
<1>7. CASE CloseFile
  <2>1. dead' = (out_file = "null") /\ UNCHANGED <<rpc, reading, late>>
    BY <1>7 DEF CloseFile, history
  <2>2. dead' \in BOOLEAN
    BY <2>1
  <2> QED BY <2>1, <2>2 DEF reading
<1>8. CASE Expire
  <2>1. /\ expired' = TRUE /\ UNCHANGED <<rpc, sfp, count, buf, dead, late>>
    BY <1>8 DEF Expire, history
  <2>2. expired' \in BOOLEAN
    BY <2>1, Zenon
  <2> QED BY <2>1, <2>2
<1>9. ASSUME NEW t \in Thread, send_trigger(t) PROVE ReaderTypes'
  BY <1>9 DEF send_trigger, reading
<1>10. CASE \/ TrgCount \/ TrgOff \/ RunStart \/ TestBusy \/ CommandEnds \/ SourceOff \/ TrgLut
            \/ TrgUnblock \/ TrgSend \/ TrgConf \/ TrgPlain \/ SfpReset \/ SfpReset1 \/ RunClear
            \/ StartRun \/ OpenFile \/ RunStop \/ ForgetFile
            \/ Pretrigger \/ (\E s \in SFP : Arrive(s)) \/ UNCHANGED vars
  <2>1. UNCHANGED <<rpc, reading, dead, late>>
    BY <1>10 DEF TrgCount, TrgOff, RunStart, TestBusy, CommandEnds, SourceOff, TrgLut,
       TrgUnblock, TrgSend, TrgConf, TrgPlain, SfpReset, SfpReset1, RunClear, StartRun,
       OpenFile, RunStop, ForgetFile, Pretrigger, Arrive, Receive, vars, history
  <2> QED BY <2>1 DEF reading
<1> QED BY <1>1, <1>2, <1>3, <1>4, <1>5, <1>6, <1>7, <1>8, <1>9, <1>10, Others
        DEF Next, CommandThread, ReaderThread, ReadEvent, Environment

(* A trigger adds an event to what is due, or is not answered.             *)
LEMMA TriggeredIs ==
    ASSUME BoxTypes, Triggered
    PROVE  /\ triggers' \in 0..MaxTriggers
           /\ due' \in [SFP -> Seq(Dword)]
           /\ due' = due \/ \A s \in SFP : due'[s] = due[s] \o Event
<1>1. CASE triggers < MaxTriggers
  <2>1. triggers' = triggers + 1 /\ due' = [s \in SFP |-> due[s] \o Event]
    BY <1>1 DEF Triggered
  <2>2. \A s \in SFP : due[s] \o Event \in Seq(Dword)
    <3>1. ASSUME NEW s \in SFP PROVE due[s] \o Event \in Seq(Dword)
      <4>1. due[s] \in Seq(Dword) /\ Event \in Seq(Dword)
        BY EventIs DEF BoxTypes
      <4> HIDE DEF Event
      <4> QED BY <4>1, ConcatIs
    <3> QED BY <3>1
  <2> QED BY <1>1, <2>1, <2>2, ConstantsAssumption DEF BoxTypes
<1>2. CASE ~(triggers < MaxTriggers)
  BY <1>2 DEF Triggered, BoxTypes
<1> QED BY <1>1, <1>2

(* The first dword of what is still to come.                               *)
LEMMA ArriveIs ==
    ASSUME BoxTypes, NEW s \in SFP, Arrive(s)
    PROVE  \E d \in Dword :
              /\ due[s] = <<d>> \o Tail(due[s]) /\ Tail(due[s]) \in Seq(Dword)
              /\ due' = [due EXCEPT ![s] = Tail(due[s])]
              /\ fifo' = [fifo EXCEPT ![s] = Append(fifo[s], d)]
              /\ Append(fifo[s], d) = fifo[s] \o <<d>>
              /\ Append(fifo[s], d) \in Seq(Dword)
<1> DEFINE d == Head(due[s])
<1>1. due[s] \in Seq(Dword) /\ due[s] # <<>> /\ fifo[s] \in Seq(Dword)
  BY DEF Arrive, BoxTypes
<1>2. d \in Dword /\ Tail(due[s]) \in Seq(Dword)
  BY <1>1, HeadTailProperties
<1>3. due[s] = <<d>> \o Tail(due[s])
  BY <1>1, HeadTailProperties, SMT
<1>4. Append(fifo[s], d) = fifo[s] \o <<d>> /\ Append(fifo[s], d) \in Seq(Dword)
  BY <1>1, <1>2, AppendIsConcat, AppendProperties
<1>5. due' = [due EXCEPT ![s] = Tail(due[s])] /\ fifo' = [fifo EXCEPT ![s] = Append(fifo[s], d)]
  BY DEF Arrive
<1> QED BY <1>2, <1>3, <1>4, <1>5

(* The hardware.                                                           *)
LEMMA NextBoxTypes ==
    ASSUME ReaderTypes, BoxTypes, [Next]_vars
    PROVE  BoxTypes'
<1> USE DEF BoxTypes
<1>1. ASSUME NEW t \in Thread, send_trigger(t) PROVE BoxTypes'
  <2>1. UNCHANGED <<lut, fifo>> /\ (open' = open \/ open' = TRUE)
    BY <1>1 DEF send_trigger, CheckBusy, CheckCount, LoadCount, StoreCount, SetBusy,
                PreUnblock, ByHand
  <2>2. open' \in BOOLEAN
    BY <2>1, Zenon
  <2>3. Triggered \/ UNCHANGED <<triggers, due>>
    BY <1>1 DEF send_trigger, CheckBusy, CheckCount, LoadCount, StoreCount, SetBusy,
                PreUnblock, ByHand
  <2> QED BY <2>1, <2>2, <2>3, TriggeredIs
<1>2. CASE Pretrigger
  <2>1. open' = FALSE /\ Triggered /\ UNCHANGED <<lut, fifo>>
    BY <1>2 DEF Pretrigger
  <2>2. open' \in BOOLEAN
    BY <2>1, Zenon
  <2> QED BY <2>1, <2>2, TriggeredIs
<1>3. CASE TrgSend
  BY <1>3, TriggeredIs DEF TrgSend
<1>4. ASSUME NEW s \in SFP, Arrive(s) PROVE BoxTypes'
  <2>1. UNCHANGED <<open, lut, triggers>>
    BY <1>4 DEF Arrive
  <2> QED BY <1>4, <2>1, ArriveIs
<1>5. CASE ReadBurst
  <2>1. UNCHANGED <<open, lut, due, triggers>>
    BY <1>5 DEF ReadBurst
  <2>2. fifo' \in [SFP -> Seq(Dword)]
    BY <1>5, BurstIs
  <2> QED BY <2>1, <2>2
<1>6. CASE SfpReset \/ SfpReset1
  <2>1. UNCHANGED <<open, lut, due, triggers>>
    BY <1>6 DEF SfpReset, SfpReset1
  <2>2. fifo' \in [SFP -> Seq(Dword)]
    <3>1. <<>> \in Seq(Dword)
      OBVIOUS
    <3> QED BY <1>6, <3>1 DEF SfpReset, SfpReset1
  <2> QED BY <2>1, <2>2
<1>7. CASE TrgUnblock
  <2>1. open' = TRUE /\ UNCHANGED <<lut, due, fifo, triggers>>
    BY <1>7 DEF TrgUnblock
  <2>2. open' \in BOOLEAN
    BY <2>1, Zenon
  <2> QED BY <2>1, <2>2
<1>8. CASE SourceOff \/ TrgLut \/ TrgConf
  <2>1. UNCHANGED <<open, due, fifo, triggers>>
    BY <1>8 DEF SourceOff, TrgLut, TrgConf
  <2>2. lut' \in BOOLEAN
    <3>1. CASE SourceOff
      <4>1. lut' = FALSE
        BY <3>1 DEF SourceOff
      <4> QED BY <4>1, Zenon
    <3>2. CASE TrgLut
      BY <3>2 DEF TrgLut
    <3>3. CASE TrgConf
      BY <3>3 DEF TrgConf
    <3> QED BY <1>8, <3>1, <3>2, <3>3
  <2> QED BY <2>1, <2>2
<1>9. CASE \/ TrgCount \/ TrgOff \/ RunStart \/ TestBusy \/ CommandEnds \/ TrgPlain
           \/ RunClear \/ StartRun \/ OpenFile \/ RunStop \/ CloseFile \/ ForgetFile
           \/ Enter \/ CountFifo \/ Decide \/ ReadingDone \/ CheckFile \/ WriteSegment
           \/ Expire \/ UNCHANGED vars
  <2>1. UNCHANGED hardware
    BY <1>9 DEF TrgCount, TrgOff, RunStart, TestBusy, CommandEnds, TrgPlain, RunClear,
       StartRun, OpenFile, RunStop, CloseFile, ForgetFile, Enter, CountFifo, Decide,
       ReadingDone, CheckFile, WriteSegment, Expire, vars
  <2> QED BY <2>1 DEF hardware
<1> QED BY <1>1, <1>2, <1>3, <1>4, <1>5, <1>6, <1>7, <1>8, <1>9, Others
        DEF Next, CommandThread, ReaderThread, ReadEvent, Environment

(* Every step keeps the types.                                             *)
LEMMA NextTypes == Types /\ [Next]_vars => Types'
BY NextCounterInv, NextTriggerTypes, NextCommandTypes, NextReaderTypes, NextBoxTypes DEF Types

(* The type invariant of both threads and of the hardware they share: the  *)
(* buffer of read_event is never longer than buf_size                      *)
(* (data_acquisition.cc:273-304).                                          *)
THEOREM TypeCorrect == Spec => []TypeOK
BY InitTypes, NextTypes, TypesTypeOK, PTL DEF Spec

-----------------------------------------------------------------------------
(* The dwords of a stream: what is read, what is there, what is to come.   *)
Data(s) == buf[s] \o fifo[s] \o due[s]

(* Behind whole events that have been read out come whole events, at every *)
(* moment: a link's buffer, FIFO and what is due are one stream, and a     *)
(* burst never takes more than the FIFO holds.                             *)
Segments ==
    reset \/ late \/
        /\ \A s \in SFP : Whole(Data(s))
        /\ rpc \in {"enter", "clear", "check", "write"} => \A s \in SFP : Whole(buf[s])
        /\ rpc = "burst" => count <= Len(fifo[sfp])

(* There are no dwords when the server starts.                             *)
LEMMA InitSegments == Init => Segments
<1> SUFFICES ASSUME Init PROVE Segments
  OBVIOUS
<1>1. \A s \in SFP : buf[s] = <<>> /\ fifo[s] = <<>> /\ due[s] = <<>>
  BY DEF Init
<1>2. <<>> \o <<>> \o <<>> = <<>>
  OBVIOUS
<1>3. \A s \in SFP : Whole(buf[s]) /\ Whole(Data(s))
  BY <1>1, <1>2, WholeNothing DEF Data
<1> QED BY <1>3 DEF Init, Segments

(* A stream is its buffer followed by the FIFO and what is due.            *)
LEMMA DataIs ==
    ASSUME Types, NEW s \in SFP
    PROVE  /\ buf[s] \in Seq(Dword) /\ fifo[s] \in Seq(Dword) /\ due[s] \in Seq(Dword)
           /\ buf[s] \o fifo[s] \in Seq(Dword) /\ fifo[s] \o due[s] \in Seq(Dword)
           /\ Data(s) \in Seq(Dword)
           /\ Data(s) = buf[s] \o (fifo[s] \o due[s])
<1>1. buf[s] \in Seq(Dword) /\ fifo[s] \in Seq(Dword) /\ due[s] \in Seq(Dword)
  BY DEF Types, ReaderTypes, BoxTypes
<1>2. buf[s] \o fifo[s] \in Seq(Dword) /\ fifo[s] \o due[s] \in Seq(Dword)
  BY <1>1, ConcatIs
<1>3. Data(s) \in Seq(Dword)
  BY <1>1, <1>2, ConcatIs DEF Data
<1>4. Data(s) = buf[s] \o (fifo[s] \o due[s])
  <2>1. (buf[s] \o fifo[s]) \o due[s] = buf[s] \o (fifo[s] \o due[s])
    BY <1>1, DwordsAssociate
  <2> QED BY <2>1 DEF Data
<1> QED BY <1>1, <1>2, <1>3, <1>4

(* A step of neither the data nor the reader.                              *)
LEMMA SegmentsSame ==
    ASSUME Segments, UNCHANGED <<reset, late, buf, fifo, due, rpc, count, sfp>>
    PROVE  Segments'
BY DEF Segments, Data

(* A trigger that is answered, or not.                                     *)
LEMMA TriggeredSegments ==
    ASSUME Types, Segments, Triggered \/ UNCHANGED due,
           UNCHANGED <<reset, late, buf, fifo, rpc, count, sfp>>
    PROVE  Segments'
<1> SUFFICES ASSUME ~reset, ~late PROVE Segments'
  BY DEF Segments
<1>1. ASSUME NEW s \in SFP PROVE Whole(Data(s))'
  <2>1. Whole(Data(s))
    BY DEF Segments
  <2>2. due'[s] = due[s] \/ due'[s] = due[s] \o Event
    BY TriggeredIs DEF Types
  <2>3. CASE due'[s] = due[s]
    <3>1. Data(s)' = Data(s)
      BY <2>3 DEF Data
    <3>2. Whole(Data(s)')
      BY <2>1, <3>1
    <3> QED BY <3>2 DEF Whole
  <2>4. CASE due'[s] = due[s] \o Event
    <3> DEFINE e == Event
               b == buf[s] \o fifo[s]
               d == due[s]
    <3>1. e \in Seq(Dword) /\ b \in Seq(Dword) /\ d \in Seq(Dword) /\ b \o d \in Seq(Dword)
      BY EventIs, DataIs DEF Data
    <3>2. Data(s)' = b \o (d \o e) /\ Data(s) = b \o d
      BY <2>4 DEF Data
    <3>3. Whole(e) /\ Whole(b \o d)
      BY <2>1, <3>2, WholeEvent
    <3> HIDE DEF e, b, d
    <3>4. b \o (d \o e) = (b \o d) \o e
      BY <3>1, DwordsAssociate
    <3>5. Whole((b \o d) \o e)
      BY <3>1, <3>3, WholeConcat
    <3>6. Whole(Data(s)')
      BY <3>2, <3>4, <3>5
    <3> QED BY <3>6 DEF Whole
  <2> QED BY <2>2, <2>3, <2>4
<1>2. rpc \in {"enter", "clear", "check", "write"} => \A s \in SFP : Whole(buf[s])'
  BY DEF Segments, Whole
<1>3. rpc' = "burst" => count' <= Len(fifo'[sfp'])
  BY DEF Segments
<1> QED BY <1>1, <1>2, <1>3 DEF Segments, Whole

(* A dword that arrives stays in its stream.                               *)
LEMMA ArriveSegments ==
    ASSUME Types, Segments, NEW s \in SFP, Arrive(s)
    PROVE  Segments'
<1> SUFFICES ASSUME ~reset, ~late PROVE Segments'
  BY DEF Segments, Arrive, history
<1>1. UNCHANGED <<reset, late, buf, rpc, count, sfp>>
  BY DEF Arrive, reading, history
<1>2. PICK d \in Dword :
          /\ due[s] = <<d>> \o Tail(due[s]) /\ Tail(due[s]) \in Seq(Dword)
          /\ due' = [due EXCEPT ![s] = Tail(due[s])]
          /\ fifo' = [fifo EXCEPT ![s] = Append(fifo[s], d)]
          /\ Append(fifo[s], d) = fifo[s] \o <<d>>
          /\ Append(fifo[s], d) \in Seq(Dword)
  BY ArriveIs DEF Types
<1>3. due \in [SFP -> Seq(Dword)] /\ fifo \in [SFP -> Seq(Dword)]
  BY DEF Types, BoxTypes
<1>4. ASSUME NEW r \in SFP PROVE Data(r)' = Data(r)
  <2>1. CASE r = s
    <3> DEFINE b == buf[s]
               f == fifo[s]
               t == Tail(due[s])
               o == <<d>>
    <3>1. b \in Seq(Dword) /\ f \in Seq(Dword) /\ t \in Seq(Dword) /\ o \in Seq(Dword)
      <4>1. o \in Seq(Dword)
        OBVIOUS
      <4> QED BY <1>2, <4>1, DataIs
    <3>2. Data(r) = b \o f \o (o \o t)
      BY <1>2, <2>1 DEF Data
    <3>3. due'[s] = t /\ fifo'[s] = f \o o
      BY <1>2, <1>3
    <3>4. Data(r)' = b \o (f \o o) \o t
      BY <1>1, <2>1, <3>3 DEF Data
    <3> HIDE DEF b, f, t, o
    <3>5. b \o f \in Seq(Dword) /\ b \o (f \o o) = (b \o f) \o o
      BY <3>1, ConcatIs, DwordsAssociate
    <3>6. ((b \o f) \o o) \o t = (b \o f) \o (o \o t)
      BY <3>1, <3>5, DwordsAssociate
    <3> QED BY <3>2, <3>4, <3>5, <3>6
  <2>2. CASE r # s
    <3>1. due'[r] = due[r] /\ fifo'[r] = fifo[r]
      BY <1>2, <1>3, <2>2
    <3> QED BY <1>1, <3>1 DEF Data
  <2> QED BY <2>1, <2>2
<1>5. \A r \in SFP : Whole(Data(r)')
  BY <1>4 DEF Segments
<1>6. rpc \in {"enter", "clear", "check", "write"} => \A r \in SFP : Whole(buf'[r])
  BY <1>1 DEF Segments
<1>7. rpc' = "burst" => count' <= Len(fifo'[sfp'])
  <2> SUFFICES ASSUME rpc = "burst" PROVE count <= Len(fifo'[sfp])
    BY <1>1
  <2>1. count <= Len(fifo[sfp]) /\ count \in Nat /\ sfp \in SFP
    BY DEF Segments, Types, ReaderTypes
  <2>2. CASE sfp = s
    <3>1. fifo'[sfp] = Append(fifo[s], d) /\ fifo[s] \in Seq(Dword)
      BY <1>2, <1>3, <2>2
    <3>2. Len(Append(fifo[s], d)) = Len(fifo[s]) + 1 /\ Len(fifo[s]) \in Nat
      BY <3>1, AppendProperties
    <3> QED BY <2>1, <2>2, <3>1, <3>2
  <2>3. CASE sfp # s
    BY <1>2, <1>3, <2>1, <2>3
  <2> QED BY <2>2, <2>3
<1> QED BY <1>1, <1>5, <1>6, <1>7 DEF Segments, Whole

(* A burst moves dwords from the FIFO to the buffer.                       *)
LEMMA BurstSegments ==
    ASSUME Types, Segments, ReadBurst
    PROVE  Segments'
<1> SUFFICES ASSUME ~reset, ~late PROVE Segments'
  BY DEF Segments, ReadBurst, history
<1>1. /\ rpc = "burst" /\ rpc' # "burst" /\ rpc' \notin {"enter", "clear", "check", "write"}
      /\ UNCHANGED <<reset, late, due>> /\ sfp \in SFP
  BY DEF ReadBurst, history, Types, ReaderTypes
<1> DEFINE f == fifo[sfp]
<1>2. PICK n \in 0..count, junk \in Seq(Dword) :
              /\ n = Min({count, Len(f)}) /\ n <= Len(f)
              /\ Len(junk) = count - n
              /\ buf' = [buf EXCEPT ![sfp] = @ \o SubSeq(f, 1, n) \o junk]
              /\ fifo' = [fifo EXCEPT ![sfp] = SubSeq(f, n + 1, Len(f))]
              /\ SubSeq(f, 1, n) \in Seq(Dword)
              /\ SubSeq(f, n + 1, Len(f)) \in Seq(Dword)
  BY BurstIs DEF Types
<1>3. f \in Seq(Dword) /\ Len(f) \in Nat /\ count \in Nat /\ count <= Len(f)
  <2>1. count <= Len(f)
    BY <1>1 DEF Segments
  <2>2. f \in Seq(Dword)
    BY <1>1, DataIs
  <2>3. count \in Nat
    BY ConstantsAssumption DEF Types, ReaderTypes
  <2> HIDE DEF f
  <2> QED BY <2>1, <2>2, <2>3
<1>4. n = count
  <2> DEFINE a == Len(f)
  <2>1. a \in Int /\ count \in Int /\ count <= a
    BY <1>3
  <2> HIDE DEF a, f
  <2>2. Min({count, a}) \in {count, a} /\ Min({count, a}) <= count
    BY <2>1, MinOf
  <2>3. Min({count, a}) = count
    BY <2>1, <2>2
  <2> QED BY <1>2, <2>3 DEF a
<1>5. junk = <<>>
  BY <1>2, <1>3, <1>4, EmptySeq
<1> DEFINE x == SubSeq(f, 1, n)
           y == SubSeq(f, n + 1, Len(f))
           b == buf[sfp]
           d == due[sfp]
<1>6. /\ b \in Seq(Dword) /\ d \in Seq(Dword) /\ x \in Seq(Dword) /\ y \in Seq(Dword)
      /\ b \o x \in Seq(Dword)
  <2>1. b \in Seq(Dword) /\ d \in Seq(Dword) /\ x \in Seq(Dword) /\ y \in Seq(Dword)
    BY <1>1, <1>2, DataIs
  <2> HIDE DEF b, d, x, y
  <2> QED BY <2>1, ConcatIs
<1>7. f = x \o y
  <2> HIDE DEF f
  <2>1. n \in 0..Len(f)
    BY <1>2, <1>3
  <2> QED BY <1>3, <2>1, CutDwords
<1>8. buf \in [SFP -> Seq(Dword)] /\ fifo \in [SFP -> Seq(Dword)]
  BY DEF Types, ReaderTypes, BoxTypes
<1>9. buf'[sfp] = b \o x /\ fifo'[sfp] = y
  <2>1. buf'[sfp] = (b \o x) \o <<>>
    BY <1>1, <1>2, <1>5, <1>8
  <2> HIDE DEF b, x
  <2>2. (b \o x) \o <<>> = b \o x
    BY <1>6, ConcatEmptySeq
  <2> QED BY <1>1, <1>2, <1>8, <2>1, <2>2
<1>10. ASSUME NEW r \in SFP PROVE Data(r)' = Data(r)
  <2>1. CASE r = sfp
    <3>1. Data(r) = b \o (x \o y) \o d
      BY <1>7, <2>1 DEF Data
    <3>2. Data(r)' = (b \o x) \o y \o d
      BY <1>1, <1>9, <2>1 DEF Data
    <3> HIDE DEF b, d, x, y
    <3>3. (b \o x) \o y = b \o (x \o y)
      BY <1>6, DwordsAssociate
    <3> QED BY <3>1, <3>2, <3>3
  <2>2. CASE r # sfp
    <3>1. buf'[r] = buf[r] /\ fifo'[r] = fifo[r]
      BY <1>2, <1>8, <2>2
    <3> QED BY <1>1, <3>1 DEF Data
  <2> QED BY <2>1, <2>2
<1>11. \A r \in SFP : Whole(Data(r)')
  BY <1>10 DEF Segments
<1> QED BY <1>1, <1>11 DEF Segments, Whole

(* The reader leaves with whole events, and what it leaves is whole.       *)
LEMMA DecideSegments ==
    ASSUME Types, Segments, Decide
    PROVE  Segments'
<1> SUFFICES ASSUME ~reset', ~late' PROVE Segments'
  BY DEF Segments
<1>1. /\ UNCHANGED <<reset, buf, fifo, due>> /\ ~late
      /\ rpc' \in {"enter", "clear", "count"}
      /\ rpc' \in {"enter", "clear"} => ~readflag \/ compflag
  BY DecideIs
<1>2. \A s \in SFP : Whole(Data(s))
  BY <1>1 DEF Segments
<1>3. ASSUME ~readflag \/ compflag, NEW s \in SFP PROVE Whole(buf[s])
  <2>1. buf[s] # <<>> => Last(buf[s]) = "end"
    BY <1>3 DEF readflag, compflag
  <2>2. buf[s] \in Seq(Dword) /\ fifo[s] \o due[s] \in Seq(Dword)
        /\ Whole(buf[s] \o (fifo[s] \o due[s]))
    <3>1. Data(s) = buf[s] \o (fifo[s] \o due[s])
      BY DataIs
    <3> QED BY <1>2, <3>1, DataIs
  <2> DEFINE u == buf[s]
             v == fifo[s] \o due[s]
  <2> HIDE DEF u, v
  <2>3. u \in Seq(Dword) /\ v \in Seq(Dword) /\ Whole(u \o v)
        /\ (u # <<>> => Last(u) = "end")
    BY <2>1, <2>2 DEF u, v
  <2>4. Whole(u)
    BY <2>3, WholeFront
  <2> QED BY <2>4 DEF u
<1>4. \A s \in SFP : Whole(Data(s)') /\ (rpc' \in {"enter", "clear"} => Whole(buf'[s]))
  BY <1>1, <1>2, <1>3 DEF Data
<1> QED BY <1>1, <1>4 DEF Segments, Whole

(* The buffer is emptied of whole events, so whole events are left.        *)
LEMMA EnterSegments ==
    ASSUME Types, Segments, Enter
    PROVE  Segments'
<1> SUFFICES ASSUME ~reset, ~late PROVE Segments'
  BY DEF Segments, Enter, history
<1>1. /\ rpc = "enter" /\ rpc' = "count" /\ UNCHANGED <<reset, late, fifo, due>>
      /\ \A s \in SFP : buf'[s] = <<>>
  BY DEF Enter, hardware, history
<1>2. ASSUME NEW s \in SFP PROVE Whole(Data(s)')
  <2> DEFINE b == buf[s]
             w == fifo[s] \o due[s]
  <2>1. b \in Seq(Dword) /\ w \in Seq(Dword) /\ Data(s) = b \o w
    BY DataIs
  <2>2. Whole(b) /\ Whole(b \o w)
    BY <1>1, <2>1 DEF Segments
  <2>3. Whole(w)
    <3> HIDE DEF b, w
    <3> QED BY <2>1, <2>2, WholeConcat
  <2>4. Data(s)' = <<>> \o fifo[s] \o due[s]
    BY <1>1 DEF Data
  <2>5. <<>> \o fifo[s] = fifo[s]
    BY DataIs, ConcatEmptySeq
  <2> QED BY <2>3, <2>4, <2>5
<1> QED BY <1>1, <1>2 DEF Segments, Whole

(* Every step keeps the streams whole, up to a reset or a timeout.         *)
LEMMA NextSegments ==
    ASSUME Types, Segments, [Next]_vars
    PROVE  Segments'
<1>1. CASE Enter \/ ReadBurst \/ Decide
  BY <1>1, EnterSegments, BurstSegments, DecideSegments
<1>2. CASE CountFifo
  <2>1. /\ count' <= Len(fifo[sfp]) /\ rpc' = "burst"
        /\ UNCHANGED <<sfp, buf, due, fifo, late, reset>>
    BY <1>2, CountIs DEF Types
  <2> QED BY <2>1 DEF Segments, Data, Whole
<1>3. CASE ReadingDone \/ CheckFile \/ WriteSegment
  <2>1. /\ rpc \in {"clear", "check", "write"} /\ rpc' \in {"check", "write", "enter"}
        /\ UNCHANGED <<reset, late, buf, fifo, due>>
    BY <1>3 DEF ReadingDone, CheckFile, WriteSegment, reading, hardware, history
  <2> QED BY <2>1 DEF Segments, Data, Whole
<1>4. ASSUME NEW t \in Thread, send_trigger(t) PROVE Segments'
  <2>1. /\ Triggered \/ UNCHANGED due
        /\ UNCHANGED <<reset, late, buf, fifo, rpc, count, sfp>>
    BY <1>4 DEF send_trigger, CheckBusy, CheckCount, LoadCount, StoreCount, SetBusy,
                PreUnblock, ByHand, reading
  <2> QED BY <2>1, TriggeredSegments
<1>5. CASE Pretrigger \/ TrgSend
  <2>1. /\ Triggered
        /\ UNCHANGED <<reset, late, buf, fifo, rpc, count, sfp>>
    BY <1>5 DEF Pretrigger, TrgSend, Receive, reading, history
  <2> QED BY <2>1, TriggeredSegments
<1>6. ASSUME NEW s \in SFP, Arrive(s) PROVE Segments'
  BY <1>6, ArriveSegments
<1>7. CASE SfpReset \/ SfpReset1
  <2>1. reset' = TRUE
    <3>1. CASE SfpReset
      BY <3>1 DEF SfpReset
    <3>2. CASE SfpReset1
      <4>1. reset /\ reset' = reset
        BY <3>2 DEF SfpReset1, history, Types, CommandTypes
      <4> QED BY <4>1 DEF Types, CommandTypes
    <3> QED BY <1>7, <3>1, <3>2
  <2> QED BY <2>1 DEF Segments
<1>8. CASE \/ TrgCount \/ TrgOff \/ RunStart \/ TestBusy \/ CommandEnds \/ SourceOff \/ TrgLut
           \/ TrgUnblock \/ TrgConf \/ TrgPlain \/ RunClear \/ StartRun \/ OpenFile
           \/ RunStop \/ CloseFile \/ ForgetFile \/ Expire \/ UNCHANGED vars
  <2>1. UNCHANGED <<reset, late, buf, fifo, due, rpc, count, sfp>>
    BY <1>8 DEF TrgCount, TrgOff, RunStart, TestBusy, CommandEnds, SourceOff, TrgLut,
       TrgUnblock, TrgConf, TrgPlain, RunClear, StartRun, OpenFile, RunStop, CloseFile,
       ForgetFile, Expire, Receive, vars, reading, hardware, history
  <2> QED BY <2>1, SegmentsSame
<1> QED BY <1>1, <1>2, <1>3, <1>4, <1>5, <1>6, <1>7, <1>8, Others
        DEF Next, CommandThread, ReaderThread, ReadEvent, Environment

(* What read_event takes for a complete event and writes is on each link   *)
(* a number of whole events (data_acquisition.cc:293-361), unless a FIFO   *)
(* was cleared or a reading timed out.                                     *)
THEOREM SegmentsAlwaysWhole == Spec => []SegmentsWhole
<1>1. Init => Types /\ Segments
  BY InitTypes, InitSegments
<1>2. (Types /\ Segments) /\ [Next]_vars => (Types /\ Segments)'
  BY NextTypes, NextSegments
<1>3. Types /\ Segments => SegmentsWhole
  BY DEF Segments, SegmentsWhole
<1> QED BY <1>1, <1>2, <1>3, PTL DEF Spec
=============================================================================
