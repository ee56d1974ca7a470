------------------------ MODULE SubeventBuilderProofs ------------------------
(***************************************************************************)
(* Theorems about SubeventBuilder, for every set of links, every alphabet, *)
(* every set of fragments and every buffer size; and, at the end, about    *)
(* the loop of find_dword (FindDword), which has its own variables.        *)
(***************************************************************************)
EXTENDS SubeventBuilder, FindDword, SequenceTheorems, TLAPS

(* The header is clear while a read is being served; together with the     *)
(* properties this is inductive.                                           *)
HeaderClear ==
    \A s \in SFP : pc[s] = "dump" => payload_size[s] = 0 /\ status[s] = 0

IInv ==
    /\ TypeOK
    /\ Lockstep
    /\ HeaderClear
    /\ BufferFits
    /\ AnswerIsSubevent
    /\ NothingLost
    /\ BoundaryAligned

-----------------------------------------------------------------------------
(* find_dword returns 0 or the end of the first run of markers.            *)
LEMMA FindDword ==
    ASSUME NEW b \in Seq(Word)
    PROVE  /\ find_dword(b) \in 0..Len(b)
           /\ find_dword(b) # 0 => IsSubeventEnd(b, find_dword(b))
<1>1. CASE HasSubevent(b)
  BY <1>1 DEF HasSubevent, find_dword
<1>2. CASE ~HasSubevent(b)
  BY <1>2 DEF find_dword
<1> QED BY <1>1, <1>2

(* A size below 2^16 survives the header field; 2^16 becomes 0.            *)
LEMMA HeaderField ==
    ASSUME NEW m \in Nat \ {0}, NEW n \in 0..m
    PROVE  n % m = IF n = m THEN 0 ELSE n
<1>1. CASE n = m
  BY <1>1, SMT
<1>2. CASE n < m
  BY <1>2, SMT
<1> QED BY <1>1, <1>2

(* What the overflow test leaves room for.                                 *)
LEMMA RoomLeft ==
    ASSUME NEW m \in Nat, NEW x \in Nat, NEW y \in Nat, ~(x > m - y),
           NEW len, len = y + x
    PROVE  len \in Nat /\ len <= m
OBVIOUS

(* The front of a buffer up to a subevent end is a subevent.               *)
LEMMA FrontIsSubevent ==
    ASSUME NEW b \in Seq(Word), NEW n \in 1..Len(b), IsSubeventEnd(b, n)
    PROVE  /\ SubSeq(b, 1, n) \in Seq(Word)
           /\ Len(SubSeq(b, 1, n)) = n
           /\ IsSubevent(SubSeq(b, 1, n))
           /\ SubSeq(b, 1, n)[n] = EOD
<1> DEFINE p == SubSeq(b, 1, n)
<1>1. p \in Seq(Word) /\ Len(p) = n /\ \A i \in 1..n : p[i] = b[i]
  <2>1. \A i \in 1..n : b[i] \in Word
    OBVIOUS
  <2> QED BY <2>1, SubSeqProperties
<1>2. PICK first \in 1..n : /\ \A i \in 1..(first - 1) : b[i] # EOD
                            /\ \A i \in first..n : b[i] = EOD
  BY DEF IsSubeventEnd
<1>3. IsSubeventEnd(p, n)
  <2> HIDE DEF p
  <2>1. \A i \in 1..(first - 1) : p[i] # EOD
    BY <1>1, <1>2
  <2>2. \A i \in first..n : p[i] = EOD
    BY <1>1, <1>2
  <2>3. n \in 1..n /\ ~(n < Len(p))
    BY <1>1
  <2> QED BY <2>1, <2>2, <2>3 DEF IsSubeventEnd
<1>4. p # <<>>
  BY <1>1
<1> QED BY <1>1, <1>2, <1>3, <1>4 DEF IsSubevent

(* A buffer is its front followed by its rest.                             *)
LEMMA CutBuffer ==
    ASSUME NEW b \in Seq(Word), NEW n \in 0..Len(b)
    PROVE  /\ SubSeq(b, n + 1, Len(b)) \in Seq(Word)
           /\ Len(SubSeq(b, n + 1, Len(b))) = Len(b) - n
           /\ b = SubSeq(b, 1, n) \o SubSeq(b, n + 1, Len(b))
<1>1. /\ SubSeq(b, n + 1, Len(b)) \in Seq(Word)
      /\ Len(SubSeq(b, n + 1, Len(b))) = Len(b) - n
  BY SubSeqProperties
<1>2. SubSeq(b, 1, n) \o SubSeq(b, n + 1, Len(b)) = SubSeq(b, 1, Len(b))
  <2>1. 1 \in 1..(Len(b) + 1) /\ n \in (1 - 1)..Len(b) /\ Len(b) \in n..Len(b)
    OBVIOUS
  <2> QED BY <2>1, ConcatAdjacentSubSeq
<1>3. SubSeq(b, 1, Len(b)) = b
  BY SubSeqFull
<1> QED BY <1>1, <1>2, <1>3

LEMMA WordsAssociate ==
    ASSUME NEW x \in Seq(Word), NEW y \in Seq(Word), NEW z \in Seq(Word)
    PROVE  (x \o y) \o z = x \o (y \o z)
BY ConcatAssociative

(* What process_fragment leaves in the buffer and in the header.           *)
LEMMA ProcessFragment ==
    ASSUME TypeOK, BufferFits, NEW s \in SFP, fragment[s] # <<>>,
           payload_size[s] = 0
    PROVE  /\ Head(fragment[s]) \in Seq(Word)
           /\ Filled(s) \in Seq(Word)
           /\ Len(Filled(s)) <= MaxPayload
           /\ ~Overflows(buffer[s], Head(fragment[s])) =>
                Filled(s) = buffer[s] \o Head(fragment[s])
           /\ FoundSize(s) \in 0..(MaxPayload - 1)
           /\ FoundSize(s) # 0 => /\ FoundSize(s) \in 1..Len(Filled(s))
                                  /\ IsSubeventEnd(Filled(s), FoundSize(s))
<1> DEFINE f == Head(fragment[s])
<1>1. f \in Seq(Word) /\ buffer[s] \in Seq(Word) /\ Len(buffer[s]) <= MaxPayload
  BY DEF TypeOK, BufferFits
<1>2. MaxPayload \in Nat \ {0}
  BY ConstantsAssumption
<1>3. CASE Overflows(buffer[s], f)
  <2>1. Filled(s) = <<>> /\ FoundSize(s) = 0
    BY <1>3 DEF Filled, FoundSize
  <2>2. <<>> \in Seq(Word) /\ Len(<<>>) = 0
    OBVIOUS
  <2>3. Filled(s) \in Seq(Word) /\ Len(Filled(s)) <= MaxPayload
    BY <1>2, <2>1, <2>2
  <2>4. FoundSize(s) \in 0..(MaxPayload - 1)
    BY <1>2, <2>1
  <2> QED BY <1>1, <1>3, <2>1, <2>3, <2>4
<1>4. CASE ~Overflows(buffer[s], f)
  <2> DEFINE b == buffer[s] \o f
  <2>1. b \in Seq(Word) /\ Len(b) = Len(buffer[s]) + Len(f)
    BY <1>1, ConcatProperties
  <2>2. Filled(s) = b
    BY <1>4 DEF Filled
  <2> HIDE DEF b
  <2>3. ~(Len(f) > MaxPayload - Len(buffer[s]))
    BY <1>4 DEF Overflows
  <2>4. Len(b) \in Nat /\ Len(b) <= MaxPayload
    <3>1. Len(f) \in Nat /\ Len(buffer[s]) \in Nat
      BY <1>1
    <3>2. Len(b) = Len(buffer[s]) + Len(f)
      BY <2>1
    <3> HIDE DEF f
    <3> QED BY <1>2, <2>3, <3>1, <3>2, RoomLeft
  <2>5. FoundSize(s) = IF f = <<>> THEN 0 ELSE find_dword(b) % MaxPayload
    BY <1>4 DEF FoundSize, b
  <2>6. find_dword(b) \in 0..Len(b)
    BY <2>1, FindDword
  <2>7. find_dword(b) \in 0..MaxPayload
    BY <1>2, <2>4, <2>6
  <2>8. find_dword(b) % MaxPayload =
            IF find_dword(b) = MaxPayload THEN 0 ELSE find_dword(b)
    BY <1>2, <2>7, HeaderField
  <2>9. FoundSize(s) = 0 \/ (FoundSize(s) = find_dword(b) /\ find_dword(b) # MaxPayload)
    BY <2>5, <2>8
  <2>10. FoundSize(s) # 0 => IsSubeventEnd(b, FoundSize(s))
    BY <2>1, <2>9, FindDword
  <2>11. FoundSize(s) \in 0..(MaxPayload - 1)
    BY <1>2, <2>7, <2>9
  <2>12. FoundSize(s) # 0 => FoundSize(s) \in 1..Len(b)
    BY <2>4, <2>6, <2>9
  <2>13. Filled(s) = buffer[s] \o f
    BY <2>2 DEF b
  <2> QED BY <1>1, <2>1, <2>2, <2>4, <2>10, <2>11, <2>12, <2>13
<1> QED BY <1>3, <1>4

-----------------------------------------------------------------------------
LEMMA InitInvariant == Init => IInv
<1> SUFFICES ASSUME Init PROVE IInv
  OBVIOUS
<1>1. <<>> \in Seq(Word) /\ Len(<<>>) = 0 /\ <<>> = <<>> \o <<>>
  OBVIOUS
<1>2. TypeOK
  BY ConstantsAssumption DEF Init, TypeOK
<1>3. Lockstep /\ HeaderClear
  BY DEF Init, Lockstep, HeaderClear
<1>4. BufferFits
  <2>1. \A s \in SFP : Len(buffer[s]) = 0
    BY <1>1 DEF Init
  <2>2. 0 <= MaxPayload
    BY ConstantsAssumption
  <2> QED BY <2>1, <2>2 DEF BufferFits
<1>5. AnswerIsSubevent
  BY DEF Init, AnswerIsSubevent
<1>6. NothingLost
  BY <1>1 DEF Init, NothingLost
<1>7. BoundaryAligned
  BY DEF Init, BoundaryAligned
<1> QED BY <1>2, <1>3, <1>4, <1>5, <1>6, <1>7 DEF IInv

LEMMA RecvReadInvariant ==
    ASSUME IInv, NEW s \in SFP, RecvRead(s)
    PROVE  IInv'
<1> USE DEF IInv, RecvRead
<1>1. TypeOK'
  BY ConstantsAssumption DEF TypeOK, history
<1>2. Lockstep'
  BY DEF TypeOK, Lockstep, history
<1>3. HeaderClear'
  BY DEF TypeOK, HeaderClear
<1>4. (BufferFits /\ AnswerIsSubevent /\ NothingLost /\ BoundaryAligned)'
  BY DEF BufferFits, AnswerIsSubevent, NothingLost, BoundaryAligned, history
<1> QED BY <1>1, <1>2, <1>3, <1>4

(* The two kinds of reply are answers.                                     *)
LEMMA AnswerType ==
    ASSUME NEW st \in {0, 1}, NEW p \in Seq(Word)
    PROVE  /\ <<[status |-> st, payload |-> p]>> \in Seq(Answer)
           /\ Len(<<[status |-> st, payload |-> p]>>) = 1
<1> DEFINE a == [status |-> st, payload |-> p]
<1>1. a \in Answer
  BY DEF Answer
<1> HIDE DEF a
<1>2. <<a>> \in Seq(Answer) /\ Len(<<a>>) = 1
  BY <1>1
<1> QED BY <1>2 DEF a

LEMMA RecvUnknownInvariant ==
    ASSUME IInv, NEW s \in SFP, RecvUnknown(s)
    PROVE  IInv'
<1> USE DEF IInv, RecvUnknown
<1>0. <<[status |-> 1, payload |-> <<>>]>> \in Seq(Answer)
  <2>1. <<>> \in Seq(Word) /\ 1 \in {0, 1}
    OBVIOUS
  <2> QED BY <2>1, AnswerType
<1>1. TypeOK'
  BY <1>0, ConstantsAssumption DEF TypeOK, history, ccbus
<1>2. Lockstep'
  BY DEF TypeOK, Lockstep, ccbus
<1>3. HeaderClear'
  BY DEF TypeOK, HeaderClear
<1>4. AnswerIsSubevent'
  BY DEF TypeOK, AnswerIsSubevent
<1>5. (BufferFits /\ NothingLost /\ BoundaryAligned)'
  BY DEF BufferFits, NothingLost, BoundaryAligned, history
<1> QED BY <1>1, <1>2, <1>3, <1>4, <1>5

LEMMA ExpireInvariant ==
    ASSUME IInv, NEW s \in SFP, Expire(s)
    PROVE  IInv'
<1> USE DEF IInv, Expire, cmdsock, ccbus, header, history
<1>1. TypeOK'
  BY DEF TypeOK
<1>2. (Lockstep /\ HeaderClear)'
  BY DEF Lockstep, HeaderClear
<1>3. (BufferFits /\ AnswerIsSubevent /\ NothingLost /\ BoundaryAligned)'
  BY DEF BufferFits, AnswerIsSubevent, NothingLost, BoundaryAligned
<1> QED BY <1>1, <1>2, <1>3

(* What every receipt of a fragment does to the histories.                 *)
LEMMA FragmentReceived ==
    ASSUME IInv, NEW s \in SFP, RecvFragment(s)
    PROVE  /\ fragment' = [fragment EXCEPT ![s] = <<>>]
           /\ fragment' \in [SFP -> Seq(Seq(Word))]
           /\ received' \in [SFP -> Seq(Word)]
           /\ overflowed' \in [SFP -> BOOLEAN]
           /\ \A r \in SFP \ {s} : received'[r] = received[r]
           /\ \A r \in SFP \ {s} : overflowed'[r] = overflowed[r]
           /\ Filled(s) \in Seq(Word)
           /\ Len(Filled(s)) <= MaxPayload
           /\ ~overflowed'[s] => received'[s] = delivered[s] \o Filled(s)
           /\ payload_size[s] = 0 /\ status[s] = 0
           /\ request[s] = <<>> /\ answer[s] = <<>> /\ query[s] = FALSE
           /\ FoundSize(s) \in 0..(MaxPayload - 1)
           /\ FoundSize(s) # 0 => /\ FoundSize(s) \in 1..Len(Filled(s))
                                  /\ IsSubeventEnd(Filled(s), FoundSize(s))
<1> USE DEF IInv
<1> DEFINE f == Head(fragment[s])
<1>1. /\ payload_size[s] = 0 /\ status[s] = 0
      /\ request[s] = <<>> /\ answer[s] = <<>> /\ query[s] = FALSE
  BY DEF RecvFragment, HeaderClear, Lockstep, TypeOK
<1>2. /\ f \in Seq(Word)
      /\ Filled(s) \in Seq(Word)
      /\ Len(Filled(s)) <= MaxPayload
      /\ ~Overflows(buffer[s], f) => Filled(s) = buffer[s] \o f
      /\ FoundSize(s) \in 0..(MaxPayload - 1)
      /\ FoundSize(s) # 0 => /\ FoundSize(s) \in 1..Len(Filled(s))
                             /\ IsSubeventEnd(Filled(s), FoundSize(s))
  BY <1>1, ProcessFragment DEF RecvFragment
<1>3. /\ received' = [received EXCEPT ![s] = @ \o f]
      /\ overflowed' = [overflowed EXCEPT ![s] = @ \/ Overflows(buffer[s], f)]
      /\ fragment' = [fragment EXCEPT ![s] = <<>>]
  BY DEF RecvFragment
<1>4. received[s] \o f \in Seq(Word)
  BY <1>2, ConcatProperties DEF TypeOK
<1> HIDE DEF f
<1>5. received' \in [SFP -> Seq(Word)] /\ received'[s] = received[s] \o f
  BY <1>3, <1>4 DEF TypeOK
<1>6. Overflows(buffer[s], f) \in BOOLEAN
  BY DEF Overflows
<1>7. /\ overflowed' \in [SFP -> BOOLEAN]
      /\ overflowed'[s] = (overflowed[s] \/ Overflows(buffer[s], f))
  BY <1>3, <1>6 DEF TypeOK
<1>8. fragment' \in [SFP -> Seq(Seq(Word))]
  BY <1>3 DEF TypeOK
<1>9. ~overflowed'[s] => received'[s] = delivered[s] \o Filled(s)
  <2> SUFFICES ASSUME ~overflowed'[s]
               PROVE  received'[s] = delivered[s] \o Filled(s)
    OBVIOUS
  <2>1. ~overflowed[s] /\ ~Overflows(buffer[s], f)
    BY <1>7
  <2>2. received[s] = delivered[s] \o buffer[s]
    BY <2>1 DEF NothingLost
  <2>3. Filled(s) = buffer[s] \o f
    BY <1>2, <2>1 DEF f
  <2>4. (delivered[s] \o buffer[s]) \o f = delivered[s] \o (buffer[s] \o f)
    <3>1. f \in Seq(Word)
      BY <1>2 DEF f
    <3>2. delivered[s] \in Seq(Word) /\ buffer[s] \in Seq(Word)
      BY DEF TypeOK
    <3> QED BY <3>1, <3>2, WordsAssociate
  <2> QED BY <1>5, <2>2, <2>3, <2>4
<1>10. /\ \A r \in SFP \ {s} : received'[r] = received[r]
       /\ \A r \in SFP \ {s} : overflowed'[r] = overflowed[r]
  BY <1>3 DEF TypeOK
<1> QED BY <1>1, <1>2, <1>3, <1>5, <1>7, <1>8, <1>9, <1>10

LEMMA ReplyTimeoutInvariant ==
    ASSUME IInv, NEW s \in SFP, ReplyTimeout(s)
    PROVE  IInv'
<1> USE DEF IInv
<1>0. RecvFragment(s)
  BY DEF ReplyTimeout
<1>1. <<[status |-> 1, payload |-> <<>>]>> \in Seq(Answer)
  <2>1. <<>> \in Seq(Word) /\ 1 \in {0, 1}
    OBVIOUS
  <2> QED BY <2>1, AnswerType
<1>2. TypeOK'
  <2>1. /\ fragment' \in [SFP -> Seq(Seq(Word))]
        /\ received' \in [SFP -> Seq(Word)]
        /\ overflowed' \in [SFP -> BOOLEAN]
        /\ Filled(s) \in Seq(Word)
    BY <1>0, FragmentReceived
  <2>2. request' = request /\ expired' = expired
    BY <1>0 DEF RecvFragment
  <2>3. /\ payload_size' \in [SFP -> 0..(MaxPayload - 1)]
        /\ status' \in [SFP -> {0, 1}]
    BY ConstantsAssumption DEF ReplyTimeout, TypeOK
  <2>4. pc' \in [SFP -> {"recv", "dump"}] /\ query' \in [SFP -> BOOLEAN]
    BY DEF ReplyTimeout, TypeOK
  <2>5. answer' \in [SFP -> Seq(Answer)]
    BY <1>1 DEF ReplyTimeout, TypeOK
  <2>6. buffer' \in [SFP -> Seq(Word)] /\ delivered' \in [SFP -> Seq(Word)]
    BY <2>1 DEF ReplyTimeout, TypeOK
  <2> QED BY <2>1, <2>2, <2>3, <2>4, <2>5, <2>6 DEF TypeOK
<1>3. (Lockstep /\ HeaderClear)'
  BY <1>0, FragmentReceived
     DEF ReplyTimeout, RecvFragment, TypeOK, Lockstep, HeaderClear
<1>4. BufferFits'
  BY <1>0, FragmentReceived DEF ReplyTimeout, TypeOK, BufferFits
<1>5. AnswerIsSubevent'
  BY DEF ReplyTimeout, TypeOK, AnswerIsSubevent
<1>6. NothingLost'
  <2>1. /\ \A r \in SFP \ {s} : received'[r] = received[r]
        /\ \A r \in SFP \ {s} : overflowed'[r] = overflowed[r]
        /\ ~overflowed'[s] => received'[s] = delivered[s] \o Filled(s)
    BY <1>0, FragmentReceived
  <2>2. /\ delivered' = delivered
        /\ buffer'[s] = Filled(s)
        /\ \A r \in SFP \ {s} : buffer'[r] = buffer[r]
    BY DEF ReplyTimeout, TypeOK
  <2> QED BY <2>1, <2>2 DEF NothingLost
<1>7. BoundaryAligned'
  BY DEF ReplyTimeout, BoundaryAligned
<1> QED BY <1>2, <1>3, <1>4, <1>5, <1>6, <1>7

LEMMA QueryAgainInvariant ==
    ASSUME IInv, NEW s \in SFP, QueryAgain(s)
    PROVE  IInv'
<1> USE DEF IInv
<1>0. RecvFragment(s)
  BY DEF QueryAgain
<1>1. TypeOK'
  <2>1. /\ fragment' \in [SFP -> Seq(Seq(Word))]
        /\ received' \in [SFP -> Seq(Word)]
        /\ overflowed' \in [SFP -> BOOLEAN]
        /\ Filled(s) \in Seq(Word)
    BY <1>0, FragmentReceived
  <2>2. request' = request /\ expired' = expired
    BY <1>0 DEF RecvFragment
  <2>3. /\ payload_size' \in [SFP -> 0..(MaxPayload - 1)]
        /\ status' \in [SFP -> {0, 1}]
    BY ConstantsAssumption DEF QueryAgain, TypeOK
  <2>4. pc' \in [SFP -> {"recv", "dump"}] /\ query' \in [SFP -> BOOLEAN]
    BY DEF QueryAgain, TypeOK
  <2>5. buffer' \in [SFP -> Seq(Word)] /\ delivered' \in [SFP -> Seq(Word)]
    BY <2>1 DEF QueryAgain, TypeOK
  <2>6. answer' \in [SFP -> Seq(Answer)]
    BY DEF QueryAgain, TypeOK
  <2> QED BY <2>1, <2>2, <2>3, <2>4, <2>5, <2>6 DEF TypeOK
<1>2. Lockstep'
  <2>1. /\ request[s] = <<>> /\ answer[s] = <<>>
        /\ fragment' = [fragment EXCEPT ![s] = <<>>]
    BY <1>0, FragmentReceived
  <2>2. pc[s] = "dump" /\ request' = request
    BY <1>0 DEF RecvFragment
  <2>3. /\ pc' = pc /\ answer' = answer /\ query'[s] = TRUE
        /\ fragment'[s] = <<>>
        /\ \A r \in SFP \ {s} : query'[r] = query[r] /\ fragment'[r] = fragment[r]
    BY <2>1 DEF QueryAgain, TypeOK
  <2>4. Len(<<>>) = 0
    OBVIOUS
  <2>5. \A queue \in {request'[s], answer'[s], fragment'[s]} : Len(queue) \in {0, 1}
    BY <2>1, <2>2, <2>3, <2>4
  <2>6. \A r \in SFP \ {s} :
           /\ pc'[r] = pc[r] /\ query'[r] = query[r] /\ fragment'[r] = fragment[r]
           /\ request'[r] = request[r] /\ answer'[r] = answer[r]
    BY <2>2, <2>3
  <2>7. pc'[s] = "dump" /\ request'[s] = <<>> /\ answer'[s] = <<>>
    BY <2>1, <2>2, <2>3
  <2> QED BY <2>3, <2>5, <2>6, <2>7 DEF Lockstep
<1>7. HeaderClear'
  <2>1. status[s] = 0
    BY <1>0, FragmentReceived
  <2> QED BY <2>1 DEF QueryAgain, TypeOK, HeaderClear
<1>3. BufferFits'
  BY <1>0, FragmentReceived DEF QueryAgain, TypeOK, BufferFits
<1>4. AnswerIsSubevent'
  BY DEF QueryAgain, AnswerIsSubevent
<1>5. NothingLost'
  <2>1. /\ \A r \in SFP \ {s} : received'[r] = received[r]
        /\ \A r \in SFP \ {s} : overflowed'[r] = overflowed[r]
        /\ ~overflowed'[s] => received'[s] = delivered[s] \o Filled(s)
    BY <1>0, FragmentReceived
  <2>2. /\ delivered' = delivered
        /\ buffer'[s] = Filled(s)
        /\ \A r \in SFP \ {s} : buffer'[r] = buffer[r]
    BY DEF QueryAgain, TypeOK
  <2> QED BY <2>1, <2>2 DEF NothingLost
<1>6. BoundaryAligned'
  BY DEF QueryAgain, BoundaryAligned
<1> QED BY <1>1, <1>2, <1>3, <1>4, <1>5, <1>6, <1>7

(* Cutting a subevent off the buffer moves it to the end of what has been  *)
(* delivered and changes nothing else.                                     *)
LEMMA DeliverFront ==
    ASSUME NEW d \in Seq(Word), NEW b \in Seq(Word), NEW n \in 1..Len(b),
           IsSubeventEnd(b, n)
    PROVE  LET e == d \o SubSeq(b, 1, n)
           IN  /\ e \in Seq(Word)
               /\ e \o SubSeq(b, n + 1, Len(b)) = d \o b
               /\ e[Len(e)] = EOD
<1> DEFINE p == SubSeq(b, 1, n)
           q == SubSeq(b, n + 1, Len(b))
           e == d \o p
<1>1. p \in Seq(Word) /\ Len(p) = n /\ p[n] = EOD
  BY FrontIsSubevent
<1>2. q \in Seq(Word) /\ b = p \o q
  BY CutBuffer
<1> HIDE DEF p, q
<1>3. e \in Seq(Word) /\ Len(e) = Len(d) + n
  BY <1>1, ConcatProperties
<1>4. e[Len(d) + n] = p[n]
  <2>1. Len(d) + n \in 1..(Len(d) + Len(p))
    BY <1>1
  <2>2. ~(Len(d) + n <= Len(d)) /\ (Len(d) + n) - Len(d) = n
    OBVIOUS
  <2> QED BY <1>1, <2>1, <2>2, ConcatProperties
<1>5. e \o q = d \o b
  BY <1>1, <1>2, WordsAssociate
<1> HIDE DEF e
<1>6. e[Len(e)] = EOD
  BY <1>1, <1>3, <1>4
<1> QED BY <1>3, <1>5, <1>6 DEF e, p, q

LEMMA ReplySubeventInvariant ==
    ASSUME IInv, NEW s \in SFP, ReplySubevent(s)
    PROVE  IInv'
<1> USE DEF IInv
<1> DEFINE n == FoundSize(s)
           b == Filled(s)
           p == SubSeq(b, 1, n)
           q == SubSeq(b, n + 1, Len(b))
           a == <<[status |-> status[s], payload |-> p]>>
<1>0. RecvFragment(s)
  BY DEF ReplySubevent
<1>1. /\ fragment' = [fragment EXCEPT ![s] = <<>>]
      /\ fragment' \in [SFP -> Seq(Seq(Word))]
      /\ received' \in [SFP -> Seq(Word)]
      /\ overflowed' \in [SFP -> BOOLEAN]
      /\ request' = request /\ expired' = expired
  BY <1>0, FragmentReceived DEF RecvFragment
<1>2. /\ b \in Seq(Word) /\ Len(b) <= MaxPayload
      /\ status[s] = 0 /\ request[s] = <<>> /\ answer[s] = <<>> /\ query[s] = FALSE
      /\ n \in 0..(MaxPayload - 1)
      /\ n # 0 => n \in 1..Len(b) /\ IsSubeventEnd(b, n)
  BY <1>0, FragmentReceived
<1>3. /\ payload_size' = [payload_size EXCEPT ![s] = n]
      /\ buffer' = [buffer EXCEPT ![s] = q]
      /\ answer' = [answer EXCEPT ![s] = a]
      /\ delivered' = [delivered EXCEPT ![s] = @ \o p]
      /\ pc' = [pc EXCEPT ![s] = "recv"]
      /\ query' = query /\ status' = status
  BY DEF ReplySubevent
<1>4. n \in 1..Len(b) /\ IsSubeventEnd(b, n)
  <2>1. n # 0
    BY <1>2 DEF ReplySubevent
  <2> QED BY <1>2, <2>1
<1>5. ~overflowed'[s] => received'[s] = delivered[s] \o b
  BY <1>0, FragmentReceived
<1>6. /\ \A r \in SFP \ {s} : received'[r] = received[r]
      /\ \A r \in SFP \ {s} : overflowed'[r] = overflowed[r]
  BY <1>0, FragmentReceived
<1> HIDE DEF n, b
<1>7. p \in Seq(Word) /\ IsSubevent(p)
  BY <1>2, <1>4, FrontIsSubevent
<1>8. q \in Seq(Word) /\ Len(q) <= MaxPayload
  <2>1. n \in 0..Len(b) /\ n \in Nat
    BY <1>2, <1>4
  <2>2. q \in Seq(Word) /\ Len(q) = Len(b) - n
    BY <1>2, <2>1, CutBuffer
  <2> HIDE DEF q
  <2> QED BY <1>2, <2>1, <2>2, ConstantsAssumption
<1>9. delivered[s] \in Seq(Word)
  BY DEF TypeOK
<1>10. /\ delivered[s] \o p \in Seq(Word)
       /\ (delivered[s] \o p) \o q = delivered[s] \o b
       /\ (delivered[s] \o p)[Len(delivered[s] \o p)] = EOD
  BY <1>2, <1>4, <1>9, DeliverFront
<1>11. a \in Seq(Answer) /\ Len(a) = 1
  <2>1. status[s] \in {0, 1}
    BY <1>2
  <2> HIDE DEF p
  <2> QED BY <1>7, <2>1, AnswerType
<1>12. a = <<[status |-> 0, payload |-> p]>>
  BY <1>2
<1> HIDE DEF p, q
<1>13. AnswerIsSubevent'
  <2>1. \A i \in DOMAIN a : a[i].status = 0 /\ a[i].payload = p
    BY <1>12
  <2>2. answer'[s] = a /\ \A r \in SFP \ {s} : answer'[r] = answer[r]
    BY <1>3 DEF TypeOK
  <2> HIDE DEF a
  <2> QED BY <1>7, <2>1, <2>2 DEF AnswerIsSubevent
<1> HIDE DEF a
<1>14. TypeOK'
  <2>1. payload_size' \in [SFP -> 0..(MaxPayload - 1)]
    BY <1>2, <1>3 DEF TypeOK
  <2>2. buffer' \in [SFP -> Seq(Word)]
    BY <1>3, <1>8 DEF TypeOK
  <2>3. answer' \in [SFP -> Seq(Answer)]
    BY <1>3, <1>11 DEF TypeOK
  <2>4. delivered' \in [SFP -> Seq(Word)]
    BY <1>3, <1>10 DEF TypeOK
  <2>5. pc' \in [SFP -> {"recv", "dump"}]
    BY <1>3 DEF TypeOK
  <2> QED BY <1>1, <1>3, <2>1, <2>2, <2>3, <2>4, <2>5 DEF TypeOK
<1>15. Lockstep'
  <2>1. /\ fragment'[s] = <<>> /\ answer'[s] = a /\ pc'[s] = "recv"
        /\ \A r \in SFP \ {s} : /\ fragment'[r] = fragment[r]
                                 /\ answer'[r] = answer[r]
                                 /\ pc'[r] = pc[r]
    BY <1>1, <1>3 DEF TypeOK
  <2>2. Len(<<>>) = 0
    OBVIOUS
  <2>3. \A queue \in {request'[s], answer'[s], fragment'[s]} : Len(queue) \in {0, 1}
    BY <1>1, <1>2, <1>11, <2>1, <2>2
  <2> QED BY <1>1, <1>2, <1>3, <2>1, <2>3 DEF Lockstep
<1>16. HeaderClear'
  BY <1>3 DEF TypeOK, HeaderClear
<1>17. BufferFits'
  BY <1>3, <1>8 DEF TypeOK, BufferFits
<1>18. NothingLost'
  <2>1. /\ delivered'[s] = delivered[s] \o p /\ buffer'[s] = q
        /\ \A r \in SFP \ {s} : delivered'[r] = delivered[r] /\ buffer'[r] = buffer[r]
    BY <1>3 DEF TypeOK
  <2> QED BY <1>5, <1>6, <1>10, <2>1 DEF NothingLost
<1>19. BoundaryAligned'
  BY <1>3, <1>10 DEF TypeOK, BoundaryAligned
<1> QED BY <1>13, <1>14, <1>15, <1>16, <1>17, <1>18, <1>19

(* The environment's three actions touch no more than the two sockets.     *)
LEMMA EnvironmentInvariant ==
    ASSUME IInv, NEW s \in SFP, Environment(s)
    PROVE  IInv'
<1> USE DEF IInv, history, header, ccbus, cmdsock
<1>1. CASE ClientSend(s)
  <2> USE <1>1 DEF ClientSend
  <2>1. PICK c \in Command : request' = [request EXCEPT ![s] = <<c>>]
    OBVIOUS
  <2>2. <<c>> \in Seq(Command) /\ Len(<<c>>) = 1
    OBVIOUS
  <2>3. TypeOK'
    BY <2>1, <2>2 DEF TypeOK
  <2>4. Lockstep'
    <3>1. request'[s] = <<c>> /\ \A r \in SFP \ {s} : request'[r] = request[r]
      BY <2>1 DEF TypeOK
    <3>2. fragment[s] = <<>> /\ answer[s] = <<>> /\ Len(<<>>) = 0
      BY DEF Lockstep
    <3>3. \A queue \in {request'[s], answer'[s], fragment'[s]} : Len(queue) \in {0, 1}
      BY <2>2, <3>1, <3>2
    <3> QED BY <3>1, <3>3 DEF Lockstep
  <2>5. (HeaderClear /\ BufferFits /\ AnswerIsSubevent)'
    BY DEF HeaderClear, BufferFits, AnswerIsSubevent
  <2>6. (NothingLost /\ BoundaryAligned)'
    BY DEF NothingLost, BoundaryAligned
  <2> QED BY <2>3, <2>4, <2>5, <2>6
<1>2. CASE ClientReceive(s)
  <2> USE <1>2 DEF ClientReceive
  <2>1. TypeOK'
    BY DEF TypeOK
  <2>2. answer'[s] = <<>> /\ \A r \in SFP \ {s} : answer'[r] = answer[r]
    BY DEF TypeOK
  <2>3. Lockstep'
    <3>1. \A queue \in {request[s], fragment[s]} : Len(queue) \in {0, 1}
      BY DEF Lockstep
    <3>2. Len(<<>>) = 0
      OBVIOUS
    <3>3. pc[s] = "dump" => answer[s] = <<>>
      BY DEF Lockstep
    <3> QED BY <2>2, <3>1, <3>2, <3>3 DEF Lockstep
  <2>4. AnswerIsSubevent'
    BY <2>2 DEF AnswerIsSubevent
  <2>5. (HeaderClear /\ BufferFits /\ NothingLost /\ BoundaryAligned)'
    BY DEF HeaderClear, BufferFits, NothingLost, BoundaryAligned
  <2> QED BY <2>1, <2>3, <2>4, <2>5
<1>3. CASE CcbusReply(s)
  <2> USE <1>3 DEF CcbusReply
  <2>1. PICK f \in Fragment : fragment' = [fragment EXCEPT ![s] = <<f>>]
    OBVIOUS
  <2>2. <<f>> \in Seq(Seq(Word)) /\ Len(<<f>>) = 1
    BY ConstantsAssumption
  <2>3. TypeOK'
    BY <2>1, <2>2 DEF TypeOK
  <2>4. Lockstep'
    <3>1. /\ fragment'[s] = <<f>> /\ query'[s] = FALSE
          /\ \A r \in SFP \ {s} : fragment'[r] = fragment[r] /\ query'[r] = query[r]
      BY <2>1 DEF TypeOK
    <3>2. pc[s] = "dump" /\ request[s] = <<>> /\ answer[s] = <<>> /\ Len(<<>>) = 0
      BY DEF TypeOK, Lockstep
    <3>3. \A queue \in {request'[s], answer'[s], fragment'[s]} : Len(queue) \in {0, 1}
      BY <2>2, <3>1, <3>2
    <3>4. <<f>> # <<>>
      BY <2>2, <3>2
    <3> QED BY <3>1, <3>2, <3>3, <3>4 DEF Lockstep
  <2>5. (HeaderClear /\ BufferFits /\ AnswerIsSubevent)'
    BY DEF HeaderClear, BufferFits, AnswerIsSubevent
  <2>6. (NothingLost /\ BoundaryAligned)'
    BY DEF NothingLost, BoundaryAligned
  <2> QED BY <2>3, <2>4, <2>5, <2>6
<1> QED BY <1>1, <1>2, <1>3 DEF Environment

LEMMA StutterInvariant == ASSUME IInv, UNCHANGED vars PROVE IInv'
BY DEF IInv, vars, cmdsock, ccbus, header, history, TypeOK, Lockstep, HeaderClear,
       BufferFits, AnswerIsSubevent, NothingLost, BoundaryAligned

THEOREM Invariance == Spec => []IInv
<1>1. Init => IInv
  BY InitInvariant
<1>2. IInv /\ [Next]_vars => IInv'
  <2> SUFFICES ASSUME IInv, [Next]_vars PROVE IInv'
    OBVIOUS
  <2>1. ASSUME NEW s \in SFP, Builder(s) PROVE IInv'
    BY <2>1, RecvReadInvariant, RecvUnknownInvariant, ExpireInvariant,
       ReplyTimeoutInvariant, QueryAgainInvariant, ReplySubeventInvariant
       DEF Builder
  <2>2. ASSUME NEW s \in SFP, Environment(s) PROVE IInv'
    BY <2>2, EnvironmentInvariant
  <2>3. CASE UNCHANGED vars
    BY <2>3, StutterInvariant
  <2> QED BY <2>1, <2>2, <2>3 DEF Next
<1> QED BY <1>1, <1>2, PTL DEF Spec

(* Every variable keeps its type, and the header field never overflows.    *)
THEOREM TypeCorrect == Spec => []TypeOK
BY Invariance, PTL DEF IInv

(* A query and its reply never outlive the read that sent them.            *)
THEOREM LockstepHolds == Spec => []Lockstep
BY Invariance, PTL DEF IInv

(* A reply with status 0 carries one subevent, whatever the fragments.     *)
THEOREM RepliesAreSubevents == Spec => []AnswerIsSubevent
BY Invariance, PTL DEF IInv

(* Without an overflow the client is sent what the proxy returned, in      *)
(* order, but for what is still buffered.                                  *)
THEOREM NothingIsLost == Spec => []NothingLost
BY Invariance, PTL DEF IInv

(* The buffer starts at a subevent boundary, overflow or not.              *)
THEOREM AlwaysAligned == Spec => []BoundaryAligned
BY Invariance, PTL DEF IInv

(* The buffer stays inside buffer.payload.                                 *)
THEOREM BufferNeverOverruns == Spec => []BufferFits
BY Invariance, PTL DEF IInv

-----------------------------------------------------------------------------
(* The loop of find_dword.                                                 *)

Marked(first) ==
    /\ \A k \in 1..(first - 1) : memory[k] # EOD
    /\ \A k \in first..index : memory[k] = EOD
    /\ memory[first] = EOD

LoopInv ==
    /\ LoopTypeOK
    /\ phase = "scan" => \A k \in 1..index : memory[k] # EOD
    /\ phase = "run" => \E first \in 1..size : first - 1 <= index /\ Marked(first)
    /\ LoopFindsSubevent

-----------------------------------------------------------------------------
(* A buffer has at most one end of its first run of markers.               *)
LEMMA OneSubeventEnd ==
    ASSUME NEW b, Len(b) \in Nat,
           NEW m \in 1..Len(b), NEW n \in 1..Len(b),
           IsSubeventEnd(b, m), IsSubeventEnd(b, n)
    PROVE  m = n
<1>1. PICK f \in 1..m : /\ \A k \in 1..(f - 1) : b[k] # EOD
                        /\ \A k \in f..m : b[k] = EOD
                        /\ m < Len(b) => b[m + 1] # EOD
  BY DEF IsSubeventEnd
<1>2. PICK g \in 1..n : /\ \A k \in 1..(g - 1) : b[k] # EOD
                        /\ \A k \in g..n : b[k] = EOD
                        /\ n < Len(b) => b[n + 1] # EOD
  BY DEF IsSubeventEnd
<1>3. f = g
  <2>1. b[f] = EOD /\ b[g] = EOD
    BY <1>1, <1>2
  <2>2. ~(f < g) /\ ~(g < f)
    BY <1>1, <1>2, <2>1
  <2> QED BY <2>2
<1>4. ~(m < n)
  <2> SUFFICES ASSUME m < n PROVE FALSE
    OBVIOUS
  <2>1. m + 1 \in g..n
    BY <1>3
  <2> QED BY <1>1, <1>2, <2>1
<1>5. ~(n < m)
  <2> SUFFICES ASSUME n < m PROVE FALSE
    OBVIOUS
  <2>1. n + 1 \in f..m
    BY <1>3
  <2> QED BY <1>1, <1>2, <2>1
<1> QED BY <1>4, <1>5

(* An end of the first run of markers is what find_dword returns.               *)
LEMMA FindDwordReturns ==
    ASSUME NEW b, Len(b) \in Nat, NEW n \in 1..Len(b), IsSubeventEnd(b, n)
    PROVE  find_dword(b) = n
<1>1. HasSubevent(b)
  BY DEF HasSubevent
<1>2. /\ find_dword(b) \in 1..Len(b)
      /\ IsSubeventEnd(b, find_dword(b))
  BY <1>1 DEF find_dword, HasSubevent
<1> QED BY <1>2, OneSubeventEnd

(* A buffer without markers has no subevent.                               *)
LEMMA FindDwordReturnsZero ==
    ASSUME NEW b, Len(b) \in Nat, \A k \in 1..Len(b) : b[k] # EOD
    PROVE  find_dword(b) = 0
<1>1. ASSUME NEW n \in 1..Len(b), IsSubeventEnd(b, n) PROVE FALSE
  BY <1>1 DEF IsSubeventEnd
<1> QED BY <1>1 DEF find_dword, HasSubevent

LEMMA ContentsAreMemory ==
    ASSUME LoopTypeOK
    PROVE  /\ Len(Contents) = size
           /\ \A k \in 1..size : Contents[k] = memory[k]
<1>1. size \in 0..Capacity /\ \A k \in 1..size : memory[k] \in Dword
  BY CapacityAssumption DEF LoopTypeOK
<1> QED BY <1>1, CapacityAssumption, SubSeqProperties DEF Contents

-----------------------------------------------------------------------------
(* What the loop knows of the dwords behind it, in its two states.         *)
THEOREM LoopInvariance == LoopSpec => []LoopInv
<1> USE CapacityAssumption
<1>1. LoopInit => LoopInv
  BY DEF LoopInit, LoopInv, LoopTypeOK, LoopFindsSubevent
<1>2. LoopInv /\ [LoopNext]_loopvars => LoopInv'
  <2> SUFFICES ASSUME LoopInv, [LoopNext]_loopvars PROVE LoopInv'
    OBVIOUS
  <2>1. CASE ScanOn
    <3>1. memory[index + 1] # EOD /\ index + 1 \in 1..size
      BY <2>1 DEF ScanOn, Read, LoopInv, LoopTypeOK
    <3> QED BY <2>1, <3>1 DEF ScanOn, LoopInv, LoopTypeOK, LoopFindsSubevent
  <2>2. CASE ScanHit
    <3>1. memory[index + 1] = EOD /\ index + 1 \in 1..size
      BY <2>2 DEF ScanHit, Read, LoopInv, LoopTypeOK
    <3>2. Marked(index + 1)
      BY <2>2, <3>1 DEF ScanHit, LoopInv, LoopTypeOK, Marked
    <3>3. Marked(index + 1)'
      BY <2>2, <3>2 DEF ScanHit, Marked
    <3>4. \E first \in 1..size' : first - 1 <= index' /\ Marked(first)'
      BY <2>2, <3>1, <3>3 DEF ScanHit, LoopInv, LoopTypeOK
    <3>5. LoopTypeOK'
      BY <2>2 DEF ScanHit, LoopInv, LoopTypeOK
    <3> QED BY <2>2, <3>4, <3>5 DEF ScanHit, LoopInv, LoopFindsSubevent
  <2>3. CASE ScanEnd
    <3>1. index = size /\ LoopTypeOK'
      BY <2>3 DEF ScanEnd, LoopInv, LoopTypeOK
    <3>2. \A k \in 1..Len(Contents) : Contents[k] # EOD
      BY <2>3, <3>1, ContentsAreMemory DEF ScanEnd, LoopInv
    <3>3. Len(Contents) \in Nat
      BY ContentsAreMemory DEF LoopInv, LoopTypeOK
    <3>4. find_dword(Contents) = 0
      BY <3>2, <3>3, FindDwordReturnsZero
    <3> QED BY <2>3, <3>1, <3>4
            DEF ScanEnd, LoopInv, LoopFindsSubevent, Contents
  <2>4. CASE RunOn
    <3>1. /\ phase = "run" /\ phase' = "run" /\ index < size /\ index' = index + 1
          /\ memory' = memory /\ size' = size /\ result' = result
      BY <2>4 DEF RunOn
    <3>2. memory[index + 1] = EOD
      BY <2>4 DEF RunOn, Read, LoopInv, LoopTypeOK
    <3>3. PICK first \in 1..size : first - 1 <= index /\ Marked(first)
      BY <3>1 DEF LoopInv
    <3>4. Marked(first)'
      BY <3>1, <3>2, <3>3 DEF Marked, LoopInv, LoopTypeOK
    <3>5. first - 1 <= index'
      BY <3>1, <3>3 DEF LoopInv, LoopTypeOK
    <3>6. LoopTypeOK'
      BY <3>1 DEF LoopInv, LoopTypeOK
    <3> QED BY <3>1, <3>3, <3>4, <3>5, <3>6 DEF LoopInv, LoopFindsSubevent
  <2>5. CASE RunEnd
    <3>1. /\ phase = "run" /\ phase' = "done" /\ result' = index
          /\ memory' = memory /\ size' = size /\ index' = index
      BY <2>5 DEF RunEnd
    <3>2. PICK first \in 1..size : first - 1 <= index /\ Marked(first)
      BY <3>1 DEF LoopInv
    <3>3. index = size \/ (index < size /\ memory[index + 1] # EOD)
      BY <2>5 DEF RunEnd, Read, LoopInv, LoopTypeOK
    <3>4. first \in 1..index
      BY <3>2, <3>3 DEF Marked, LoopInv, LoopTypeOK
    <3>5. index \in 1..Len(Contents) /\ Len(Contents) \in Nat /\ Len(Contents) = size
      BY <3>4, ContentsAreMemory DEF LoopInv, LoopTypeOK
    <3>6. IsSubeventEnd(Contents, index)
      <4>1. \A k \in 1..size : Contents[k] = memory[k]
        BY ContentsAreMemory DEF LoopInv
      <4>2. \A k \in 1..(first - 1) : Contents[k] # EOD
        <5>1. size \in Nat /\ \A k \in 1..(first - 1) : k \in 1..size
          BY <3>2 DEF LoopInv, LoopTypeOK
        <5>2. \A k \in 1..(first - 1) : memory[k] # EOD
          BY <3>2 DEF Marked
        <5> QED BY <4>1, <5>1, <5>2
      <4>3. \A k \in first..index : Contents[k] = EOD
        BY <3>2, <3>5, <4>1 DEF Marked
      <4>4. index < Len(Contents) => Contents[index + 1] # EOD
        BY <3>3, <3>5, <4>1 DEF LoopInv, LoopTypeOK
      <4> QED BY <3>4, <4>2, <4>3, <4>4 DEF IsSubeventEnd
    <3>7. find_dword(Contents) = index
      BY <3>5, <3>6, FindDwordReturns
    <3>8. Contents' = Contents
      BY <3>1 DEF Contents
    <3>9. LoopTypeOK'
      BY <3>1 DEF LoopInv, LoopTypeOK
    <3> QED BY <3>1, <3>7, <3>8, <3>9 DEF LoopInv, LoopFindsSubevent
  <2>6. CASE UNCHANGED loopvars
    BY <2>6 DEF loopvars, LoopInv, LoopTypeOK, Marked, LoopFindsSubevent, Contents
  <2> QED BY <2>1, <2>2, <2>3, <2>4, <2>5, <2>6 DEF LoopNext
<1> QED BY <1>1, <1>2, PTL DEF LoopSpec

(* The loop returns what the definition says.                              *)
THEOREM LoopCorrect == LoopSpec => []LoopFindsSubevent
BY LoopInvariance, PTL DEF LoopInv

(* Its index never leaves the data, so the value returned is a size.       *)
THEOREM LoopTypeCorrect == LoopSpec => []LoopTypeOK
BY LoopInvariance, PTL DEF LoopInv
=============================================================================
