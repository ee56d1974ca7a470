------------------------ MODULE LogicboxProxyProofs ------------------------
(***************************************************************************)
(* Theorems about LogicboxProxy, for every set of clients, every alphabet  *)
(* and every size of the buffer.                                           *)
(***************************************************************************)
EXTENDS LogicboxProxy, SequenceTheorems, TLAPS

(* The FIFO never holds more than the buffer (see ConstantsAssumption).    *)
FifoFits == \A s \in SFP : Len(fifo[s]) <= MaxPayload

IInv == TypeOK /\ FifoFits /\ DumpsLoseNothing

-----------------------------------------------------------------------------
(* What a dump reads and leaves are words.                                 *)
LEMMA Parts ==
    ASSUME NEW w \in Seq(Word), Len(w) <= MaxPayload
    PROVE  /\ Dumped(w) \in Seq(Word)
           /\ Rest(w) = <<>>
           /\ ~Wraps(w) => Dumped(w) = w
<1>1. MaxPayload \in Nat \ {0} /\ Len(w) \in Nat
  BY ConstantsAssumption
<1>2. nread(w) = Len(w)
  BY <1>1 DEF nread, RX_FIFO_SIZE
<1>3. Rest(w) = <<>>
  BY <1>1, <1>2, SubSeqProperties DEF Rest
<1>4. CASE Len(w) = MaxPayload
  <2>1. Len(w) % MaxPayload = 0
    BY <1>1, <1>4, SMT
  <2>2. w # <<>>
    BY <1>1, <1>4
  <2>3. Dumped(w) = <<>>
    BY <1>1, <1>2, <2>1, SubSeqProperties DEF Dumped
  <2> QED BY <1>2, <1>3, <2>1, <2>2, <2>3 DEF Wraps
<1>5. CASE Len(w) < MaxPayload
  <2>1. Len(w) % MaxPayload = Len(w)
    BY <1>1, <1>5, SMT
  <2>2. Dumped(w) = w
    BY <1>2, <2>1, SubSeqFull DEF Dumped
  <2> QED BY <1>3, <2>2
<1> QED BY <1>1, <1>4, <1>5

(* A word appended to the FIFO is appended to all the link delivered.      *)
LEMMA AppendBehind ==
    ASSUME NEW u \in Seq(Word), NEW v \in Seq(Word), NEW w \in Word
    PROVE  Append(u \o v, w) = u \o Append(v, w)
<1>1. u \o v \in Seq(Word) /\ <<w>> \in Seq(Word)
  BY ConcatProperties
<1>2. Append(u \o v, w) = (u \o v) \o <<w>> /\ Append(v, w) = v \o <<w>>
  BY <1>1, AppendIsConcat
<1>3. (u \o v) \o <<w>> = u \o (v \o <<w>>)
  BY <1>1, ConcatAssociative
<1> QED BY <1>2, <1>3

-----------------------------------------------------------------------------
LEMMA InitIInv == Init => IInv
<1> SUFFICES ASSUME Init PROVE IInv
  OBVIOUS
<1>1. MaxPayload \in Nat \ {0} /\ MaxTriggers \in Nat
  BY ConstantsAssumption
<1>2. TypeOK
  BY <1>1 DEF Init, TypeOK
<1>3. FifoFits
  BY <1>1 DEF Init, FifoFits
<1>4. DumpsLoseNothing
  BY DEF Init, DumpsLoseNothing
<1> QED BY <1>2, <1>3, <1>4 DEF IInv

(* The two sockets after a request has been served, or not survived.       *)
LEMMA Served ==
    ASSUME TypeOK, NEW c \in Client, NEW ops, NEW reply \in Reply,
           Serve(c, ops, reply)
    PROVE  /\ req' \in [Client -> Seq(Command)]
           /\ rep' \in [Client -> Seq(Reply)]
           /\ alive' \in BOOLEAN
BY DEF Serve, Take, TypeOK

LEMMA Died ==
    ASSUME TypeOK, NEW c \in Client, NEW ops, Die(c, ops)
    PROVE  /\ req' \in [Client -> Seq(Command)]
           /\ rep' \in [Client -> Seq(Reply)]
           /\ alive' \in BOOLEAN
<1>1. req' = [req EXCEPT ![c] = <<>>] /\ rep' = rep /\ alive' = FALSE
  BY DEF Die, Take
<1>2. req' \in [Client -> Seq(Command)]
  BY <1>1, EmptySeq DEF TypeOK
<1> QED BY <1>1, <1>2 DEF TypeOK

LEMMA TextIsReply == Text \in Reply
BY ConstantsAssumption DEF Text, Reply

LEMMA NextIInv == IInv /\ [Next]_vars => IInv'
<1> SUFFICES ASSUME IInv, [Next]_vars PROVE IInv'
  OBVIOUS
<1> USE DEF IInv
<1>0. /\ MaxPayload \in Nat \ {0} /\ FifoBound \in 1..MaxPayload
      /\ MaxTriggers \in Nat /\ SFP = {0, 1}
  BY ConstantsAssumption DEF SFP
<1>1. ASSUME NEW c \in Client, Dump(c) PROVE IInv'
  <2>1. PICK s \in SFP :
          /\ Serve(c, {"dump"}, [data |-> Dumped(fifo[s]), value |-> 0])
          /\ fifo' = [fifo EXCEPT ![s] = Rest(@)]
          /\ sent' = [sent EXCEPT ![s] = @ \o Dumped(fifo[s])]
          /\ wrapped' = [wrapped EXCEPT ![s] = @ \/ Wraps(fifo[s])]
          /\ UNCHANGED <<blocked, pre_cnt, arrived, cleared>>
    BY <1>1 DEF Dump
  <2>2. /\ fifo[s] \in Seq(Word) /\ Len(fifo[s]) <= MaxPayload
        /\ sent[s] \in Seq(Word)
    BY DEF TypeOK, FifoFits
  <2>3. /\ Dumped(fifo[s]) \in Seq(Word) /\ Rest(fifo[s]) = <<>>
        /\ ~Wraps(fifo[s]) => Dumped(fifo[s]) = fifo[s]
    BY <2>2, Parts
  <2>4. [data |-> Dumped(fifo[s]), value |-> 0] \in Reply
    BY <1>0, <2>3 DEF Reply
  <2>5. fifo' \in [SFP -> Seq(Word)] /\ sent' \in [SFP -> Seq(Word)]
    BY <2>1, <2>2, <2>3 DEF TypeOK
  <2>6. wrapped' \in [SFP -> BOOLEAN]
    <3>1. wrapped[s] \/ Wraps(fifo[s]) \in BOOLEAN
      BY DEF Wraps
    <3> QED BY <2>1, <3>1, Zenon DEF TypeOK, Wraps
  <2>7. TypeOK'
    BY <2>1, <2>4, <2>5, <2>6, Served DEF TypeOK
  <2>8. FifoFits'
    <3> SUFFICES ASSUME NEW r \in SFP PROVE Len(fifo'[r]) <= MaxPayload
      BY DEF FifoFits
    <3> QED BY <1>0, <2>1, <2>3 DEF FifoFits, TypeOK
  <2>9. DumpsLoseNothing'
    <3> SUFFICES ASSUME NEW r \in SFP, ~cleared[r], ~wrapped'[r]
                 PROVE  arrived[r] = sent'[r] \o fifo'[r]
      BY <2>1 DEF DumpsLoseNothing
    <3>1. CASE r = s
      <4>1. ~wrapped[s] /\ ~Wraps(fifo[s])
        BY <2>1, <3>1 DEF TypeOK
      <4>2. arrived[s] = sent[s] \o fifo[s]
        BY <3>1, <4>1 DEF DumpsLoseNothing
      <4>3. sent'[s] = sent[s] \o fifo[s] /\ fifo'[s] = <<>>
        BY <2>1, <2>3, <4>1 DEF TypeOK
      <4>4. sent[s] \o fifo[s] \in Seq(Word)
        BY <2>2
      <4> QED BY <3>1, <4>2, <4>3, <4>4, ConcatEmptySeq
    <3>2. CASE r # s
      BY <2>1, <3>2 DEF TypeOK, DumpsLoseNothing
    <3> QED BY <3>1, <3>2
  <2> QED BY <2>7, <2>8, <2>9
<1>2. ASSUME NEW c \in Client, SfpCommand(c) PROVE IInv'
  <2>1. PICK s \in SFP :
          /\ Serve(c, SfpOp, Text) \/ Die(c, {"phase"})
          /\ fifo' = [fifo EXCEPT ![s] = <<>>]
          /\ cleared' = [cleared EXCEPT ![s] = TRUE]
          /\ UNCHANGED <<blocked, pre_cnt, arrived, sent, wrapped>>
    BY <1>2 DEF SfpCommand
  <2>0. /\ req' \in [Client -> Seq(Command)] /\ rep' \in [Client -> Seq(Reply)]
        /\ alive' \in BOOLEAN
    BY <2>1, TextIsReply, Served, Died
  <2>2. TypeOK'
    BY <2>0, <2>1 DEF TypeOK
  <2>3. FifoFits'
    BY <1>0, <2>1 DEF FifoFits, TypeOK
  <2>4. DumpsLoseNothing'
    BY <2>1 DEF DumpsLoseNothing, TypeOK
  <2> QED BY <2>2, <2>3, <2>4
<1>3. ASSUME NEW c \in Client, Unblock(c) \/ ReadCount(c) \/ Program(c) \/ Plain(c)
      PROVE  IInv'
  <2>1. [data |-> <<>>, value |-> pre_cnt] \in Reply
    BY DEF TypeOK, Reply
  <2>2. /\ req' \in [Client -> Seq(Command)]
        /\ rep' \in [Client -> Seq(Reply)]
        /\ alive' \in BOOLEAN
    <3>1. CASE Unblock(c)
      BY <3>1, TextIsReply, Served DEF Unblock
    <3>2. CASE ReadCount(c)
      BY <3>2, <2>1, Served DEF ReadCount
    <3>3. CASE Plain(c)
      BY <3>3, TextIsReply, Served DEF Plain
    <3>4. CASE Program(c)
      BY <3>4, TextIsReply, Served, Died DEF Program
    <3> QED BY <1>3, <3>1, <3>2, <3>3, <3>4
  <2>3. /\ UNCHANGED <<fifo, pre_cnt, history>> /\ blocked' \in BOOLEAN
    BY <1>3 DEF Unblock, ReadCount, Program, Plain, hardware, TypeOK
  <2>4. TypeOK'
    BY <2>2, <2>3 DEF TypeOK, history
  <2> QED BY <2>3, <2>4 DEF FifoFits, DumpsLoseNothing, history
<1>4. ASSUME NEW c \in Client, ClientSend(c) \/ ClientReceive(c) \/ ClientNext(c)
      PROVE  IInv'
  <2>1. UNCHANGED <<alive, hardware, history>>
    BY <1>4 DEF ClientSend, ClientReceive, ClientNext
  <2>2. req' \in [Client -> Seq(Command)] /\ rep' \in [Client -> Seq(Reply)]
    <3>1. CASE ClientSend(c)
      <4>1. PICK cmd \in Command : req' = [req EXCEPT ![c] = <<cmd>>]
        BY <3>1 DEF ClientSend
      <4> QED BY <3>1, <4>1 DEF ClientSend, TypeOK
    <3>2. CASE ClientReceive(c)
      BY <3>2 DEF ClientReceive, TypeOK
    <3>3. CASE ClientNext(c)
      <4>1. PICK cmd \in Command : req' = [req EXCEPT ![c] = <<cmd>>]
        BY <3>3 DEF ClientNext
      <4> QED BY <3>3, <4>1 DEF ClientNext, TypeOK
    <3> QED BY <1>4, <3>1, <3>2, <3>3
  <2>3. TypeOK'
    BY <2>1, <2>2 DEF TypeOK, hardware, history
  <2> QED BY <2>1, <2>3 DEF FifoFits, DumpsLoseNothing, hardware, history
<1>5. CASE Pretrigger
  <2>1. TypeOK'
    BY <1>0, <1>5 DEF Pretrigger, TypeOK, history
  <2> QED BY <1>5, <2>1 DEF Pretrigger, FifoFits, DumpsLoseNothing, history
<1>6. ASSUME NEW s \in SFP, Arrive(s) PROVE IInv'
  <2>1. PICK w \in Word : /\ fifo' = [fifo EXCEPT ![s] = Append(@, w)]
                          /\ arrived' = [arrived EXCEPT ![s] = Append(@, w)]
    BY <1>6 DEF Arrive
  <2>2. UNCHANGED <<req, rep, alive, blocked, pre_cnt, sent, cleared, wrapped>> /\ Len(fifo[s]) < FifoBound
    BY <1>6 DEF Arrive
  <2>3. /\ fifo[s] \in Seq(Word) /\ arrived[s] \in Seq(Word) /\ sent[s] \in Seq(Word)
    BY DEF TypeOK
  <2>4. TypeOK'
    BY <2>1, <2>2 DEF TypeOK
  <2>5. FifoFits'
    <3> SUFFICES ASSUME NEW r \in SFP PROVE Len(fifo'[r]) <= MaxPayload
      BY DEF FifoFits
    <3>1. CASE r = s
      <4>1. Len(fifo'[s]) = Len(fifo[s]) + 1
        BY <2>1, <2>3 DEF TypeOK
      <4> QED BY <1>0, <2>2, <2>3, <3>1, <4>1
    <3>2. CASE r # s
      BY <2>1, <3>2 DEF TypeOK, FifoFits
    <3> QED BY <3>1, <3>2
  <2>6. DumpsLoseNothing'
    <3> SUFFICES ASSUME NEW r \in SFP, ~cleared[r], ~wrapped[r]
                 PROVE  arrived'[r] = sent[r] \o fifo'[r]
      BY <2>2 DEF DumpsLoseNothing
    <3>1. CASE r = s
      <4>1. arrived[s] = sent[s] \o fifo[s]
        BY <3>1 DEF DumpsLoseNothing
      <4>2. arrived'[s] = Append(arrived[s], w) /\ fifo'[s] = Append(fifo[s], w)
        BY <2>1 DEF TypeOK
      <4>3. Append(sent[s] \o fifo[s], w) = sent[s] \o Append(fifo[s], w)
        BY <2>3, AppendBehind
      <4> QED BY <3>1, <4>1, <4>2, <4>3
    <3>2. CASE r # s
      BY <2>1, <3>2 DEF TypeOK, DumpsLoseNothing
    <3> QED BY <3>1, <3>2
  <2> QED BY <2>4, <2>5, <2>6
<1>7. CASE UNCHANGED vars
  BY <1>7 DEF vars, hardware, history, TypeOK, FifoFits, DumpsLoseNothing
<1> QED BY <1>1, <1>2, <1>3, <1>4, <1>5, <1>6, <1>7 DEF Next, Proxy, Environment

\* In every behaviour of trdboxd and its clients the FIFOs fit the buffer and
\* the properties below hold.
THEOREM Invariance == Spec => []IInv
<1> QED BY InitIInv, NextIInv, PTL DEF Spec

\* The variables keep their types, for any number of clients.
THEOREM ProxyTypeCorrect == Spec => []TypeOK
<1>1. IInv => TypeOK
  BY DEF IInv
<1> QED BY <1>1, Invariance, PTL

\* The dumps of a link (su738.cc:602-644, trdboxd.cc:143-164) return what the
\* link delivered, once and in order, whichever clients ask, until a command
\* clears it or a dump fills the buffer exactly.
THEOREM DumpsAreFaithful == Spec => []DumpsLoseNothing
<1>1. IInv => DumpsLoseNothing
  BY DEF IInv
<1> QED BY <1>1, Invariance, PTL
=============================================================================
