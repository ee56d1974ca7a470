-------------------------- MODULE CruParserProofs --------------------------
(***************************************************************************)
(* Theorems about FeeParser and CruParser, for every number of links and   *)
(* channels, every page size and every payload: the list of expectations   *)
(* (FeeInv), the reader's place in pages and links (PlaceInv) and what is  *)
(* expected while the first link is read (FirstInv).                       *)
(***************************************************************************)
EXTENDS CruParser, SequenceTheorems, WellFoundedInduction, TLAPS

Entry == Open \cup Closed
ClosedFct == {"trk", "hc1", "hc2", "hc3", "adc", "digit"}
OpenFct == Fct \ ClosedFct

(* What a function that leads on appends: closed entries, then an open one.*)
Shaped(s) ==
    /\ s \in Seq(Entry)
    /\ s # <<>>
    /\ s[Len(s)] \in Open
    /\ \A i \in 1..Len(s) - 1 : s[i] \in Closed

-----------------------------------------------------------------------------
LEMMA Disjoint == Open \cap Closed = {}
BY DEF Open, Closed, Fallback, AfterTracklet, AfterEot, AfterAdc, AfterEod, ExtraHeader

(* The first function that accepts the dword is one of the entry's.        *)
LEMMA ChosenIsExpected ==
    ASSUME NEW e, NEW w, NEW n \in 1..3, DOMAIN e = 1..n, Matching(e, w) # {}
    PROVE  \E i \in 1..n : /\ Accepts(e[i], w)
                           /\ Chosen(e, w) = IF e[i] = "find" THEN Found(w) ELSE e[i]
<1> DEFINE M == Matching(e, w)
           First(i) == i \in M /\ \A j \in M : i <= j
<1>1. M \subseteq 1..n /\ \A i \in M : Accepts(e[i], w)
  BY DEF Matching
<1>2. \E i \in M : \A j \in M : i <= j
  <2>1. CASE 1 \in M
    BY <2>1, <1>1
  <2>2. CASE 1 \notin M /\ 2 \in M
    BY <2>2, <1>1
  <2>3. CASE 1 \notin M /\ 2 \notin M
    BY <2>3, <1>1
  <2> QED BY <2>1, <2>2, <2>3
<1>3. PICK i \in M : i = CHOOSE k \in M : \A j \in M : k <= j
  BY <1>2
<1>4. Chosen(e, w) = IF e[i] = "find" THEN Found(w) ELSE e[i]
  BY <1>3 DEF Chosen
<1> QED BY <1>1, <1>4

LEMMA ClosedChoice ==
    ASSUME NEW e \in Closed, NEW w, Matching(e, w) # {}
    PROVE  Chosen(e, w) \in ClosedFct
<1>1. PICK n \in 1..3 : DOMAIN e = 1..n /\ \A i \in 1..n : e[i] \in ClosedFct
  <2>1. CASE e = <<"trk">> \/ e = <<"adc">> \/ e = <<"digit">>
    <3>1. DOMAIN e = 1..1 /\ e[1] \in ClosedFct
      BY <2>1 DEF ClosedFct
    <3> QED BY <3>1
  <2>2. CASE e = ExtraHeader
    <3>1. DOMAIN e = 1..3 /\ e[1] \in ClosedFct /\ e[2] \in ClosedFct /\ e[3] \in ClosedFct
      BY <2>2 DEF ClosedFct, ExtraHeader
    <3> QED BY <3>1
  <2> QED BY <2>1, <2>2 DEF Closed
<1>2. \A f \in ClosedFct : f # "find"
  BY DEF ClosedFct
<1> QED BY <1>1, <1>2, ChosenIsExpected

LEMMA OpenChoice ==
    ASSUME NEW e \in Open, NEW w, Matching(e, w) # {}
    PROVE  Chosen(e, w) \in OpenFct
<1> DEFINE Good(f) == f \in OpenFct
<1>1. PICK n \in 1..3 : DOMAIN e = 1..n /\ \A i \in 1..n : e[i] \in OpenFct
  <2>1. CASE e = <<"mcmhdr">> \/ e = <<"adcmask">> \/ e = <<"pad">> \/ e = <<"find">>
    <3>1. DOMAIN e = 1..1 /\ e[1] \in OpenFct
      BY <2>1 DEF ClosedFct, OpenFct, Fct
    <3> QED BY <3>1
  <2>2. CASE e = AfterEot
    <3>1. DOMAIN e = 1..3 /\ e[1] \in OpenFct /\ e[2] \in OpenFct /\ e[3] \in OpenFct
      BY <2>2 DEF ClosedFct, OpenFct, Fct, AfterEot
    <3> QED BY <3>1
  <2>3. CASE e \in {<<"thc", "eot">>, AfterTracklet, AfterAdc, AfterEod, <<"eod", "skip">>}
    <3>1. DOMAIN e = 1..2 /\ e[1] \in OpenFct /\ e[2] \in OpenFct
      BY <2>3 DEF ClosedFct, OpenFct, Fct, AfterTracklet, AfterAdc, AfterEod
    <3> QED BY <3>1
  <2> QED BY <2>1, <2>2, <2>3 DEF Open, Fallback
<1>2. Found(w) \in OpenFct
  BY DEF Found, OpenFct, Fct, ClosedFct
<1> QED BY <1>1, <1>2, ChosenIsExpected

-----------------------------------------------------------------------------
LEMMA ClosedThenOpen ==
    ASSUME NEW n \in Nat, NEW c \in [1..n -> Closed], NEW o \in Open
    PROVE  Shaped(c \o <<o>>)
<1> DEFINE s == c \o <<o>>
<1>1. c \in Seq(Entry) /\ Len(c) = n /\ <<o>> \in Seq(Entry)
  BY DEF Entry
<1>2. s \in Seq(Entry) /\ Len(s) = n + 1
  BY <1>1
<1>3. s[n + 1] = o /\ \A i \in 1..n : s[i] = c[i]
  BY <1>1
<1>4. \A i \in 1..n : c[i] \in Closed
  OBVIOUS
<1> HIDE DEF s
<1>5. s # <<>>
  BY <1>2
<1> QED BY <1>2, <1>3, <1>4, <1>5 DEF Shaped

LEMMA AdcDataShaped ==
    ASSUME NEW n \in Nat, NEW ntb \in Nat
    PROVE  Shaped(AdcData(n, ntb))
<1> DEFINE d == Dwords(ntb)
           m == n * d
           c == [i \in 1..m |-> IF i % d = 0 THEN <<"digit">> ELSE <<"adc">>]
<1>1. d \in Nat
  BY DEF Dwords
<1>2. m \in Nat
  BY <1>1
<1>3. c \in [1..m -> Closed]
  BY DEF Closed
<1>4. AfterAdc \in Open
  BY DEF Open
<1>5. AdcData(n, ntb) = c \o <<AfterAdc>>
  BY DEF AdcData
<1> HIDE DEF m, c
<1> QED BY <1>2, <1>3, <1>4, <1>5, ClosedThenOpen

LEMMA OneOpen ==
    ASSUME NEW o \in Open
    PROVE  Shaped(<<o>>)
BY DEF Shaped, Entry

(* Every function that leads on appends closed entries and an open one.    *)
LEMMA FollowShaped ==
    ASSUME NEW f \in OpenFct, NEW w \in Word,
           NEW c \in [hc : Int, zs : BOOLEAN, ntb : Nat, set : SUBSET {"hc0", "hc1"}]
    PROVE  Shaped(Follow(f, w, c))
<1>0. DOMAIN Leads = {"thc", "eot", "eod", "pad", "find", "skip"}
  BY DEF Leads
<1>1. CASE f = "tmcm"
  <2> DEFINE n == w.n
             trks == [i \in 1..n |-> <<"trk">>]
  <2>1. trks \in [1..n -> Closed]
    BY DEF Closed
  <2>2. AfterTracklet \in Open /\ n \in Nat
    BY DEF Open, Word
  <2>3. Follow(f, w, c) = trks \o <<AfterTracklet>>
    BY <1>0, <1>1 DEF Follow
  <2> HIDE DEF n, trks
  <2>4. Shaped(trks \o <<AfterTracklet>>)
    BY <2>1, <2>2, ClosedThenOpen
  <2> QED BY <2>3, <2>4
<1>2. CASE f = "hc0"
  <2> DEFINE n == NHeaders(w)
             hdrs == [i \in 1..n |-> ExtraHeader]
  <2>1. n \in Nat
    BY DEF NHeaders, Word
  <2>2. hdrs \in [1..n -> Closed]
    BY DEF Closed
  <2>3. <<"mcmhdr">> \in Open
    BY DEF Open
  <2>4. Follow(f, w, c) = Headers(w)
    BY <1>0, <1>2 DEF Follow
  <2>5. Headers(w) = hdrs \o <<<<"mcmhdr">>>>
    BY DEF Headers
  <2> HIDE DEF n, hdrs
  <2>6. Shaped(hdrs \o <<<<"mcmhdr">>>>)
    BY <2>1, <2>2, <2>3, ClosedThenOpen
  <2> QED BY <2>4, <2>5, <2>6
<1>3. CASE f = "mcmhdr"
  <2>1. <<"adcmask">> \in Open
    BY DEF Open
  <2>2. Follow(f, w, c) = IF c.zs THEN <<<<"adcmask">>>> ELSE AdcData(NChannels, c.ntb)
    BY <1>0, <1>3 DEF Follow
  <2> QED BY <2>1, <2>2, OneOpen, AdcDataShaped, ChannelAssumption
<1>4. CASE f = "adcmask"
  <2>1. Follow(f, w, c) = AdcData(w.n, c.ntb)
    BY <1>0, <1>4 DEF Follow
  <2> QED BY <2>1, AdcDataShaped DEF Word
<1>5. CASE f \in DOMAIN Leads
  <2>1. Leads[f] \in Open
    BY <1>0, <1>5 DEF Leads, Open, Fallback
  <2>2. Follow(f, w, c) = <<Leads[f]>>
    BY <1>5 DEF Follow
  <2> QED BY <2>1, <2>2, OneOpen
<1> QED BY <1>0, <1>1, <1>2, <1>3, <1>4, <1>5 DEF OpenFct, ClosedFct, Fct

LEMMA FollowClosed ==
    ASSUME NEW f \in ClosedFct, NEW w, NEW c
    PROVE  Follow(f, w, c) = <<>>
<1>1. DOMAIN Leads = {"thc", "eot", "eod", "pad", "find", "skip"}
  BY DEF Leads
<1> QED BY <1>1 DEF Follow, ClosedFct

-----------------------------------------------------------------------------
(* The parser under any dword.                                             *)
FeeInv == FeeTypeOK /\ AlwaysExpecting /\ InOrder

(* What is appended at the end keeps an open entry and the order.          *)
LEMMA AppendShaped ==
    ASSUME NEW t \in Seq(Entry), NEW s, Shaped(s)
    PROVE  /\ t \o s \in Seq(Entry)
           /\ \E i \in DOMAIN (t \o s) : (t \o s)[i] \in Open
           /\ t = <<>> => Shaped(t \o s)
<1>1. s \in Seq(Entry) /\ Len(s) \in Nat \ {0} /\ s[Len(s)] \in Open
  BY DEF Shaped
<1>2. t \o s \in Seq(Entry) /\ Len(t \o s) = Len(t) + Len(s)
  BY <1>1
<1>3. (t \o s)[Len(t) + Len(s)] = s[Len(s)]
  BY <1>1
<1>4. Len(t) + Len(s) \in DOMAIN (t \o s)
  BY <1>1, <1>2
<1>5. t = <<>> => t \o s = s
  BY <1>1
<1> QED BY <1>1, <1>2, <1>3, <1>4, <1>5

(* Popping an entry.                                                       *)
LEMMA Popped ==
    ASSUME NEW r \in Seq(Entry), r # <<>>
    PROVE  /\ Head(r) = r[1] /\ Head(r) \in Entry
           /\ Tail(r) \in Seq(Entry) /\ Len(Tail(r)) = Len(r) - 1
           /\ \A i \in 1..Len(r) - 1 : Tail(r)[i] = r[i + 1]
OBVIOUS

LEMMA ParseInv ==
    ASSUME FeeInv, NEW w \in Word, NEW fallback \in Fallback, Parse(w, fallback)
    PROVE  FeeInv'
<1> DEFINE r == readlist
           e == Head(readlist)
           t == Tail(readlist)
<1>1. r \in Seq(Entry) /\ r # <<>> /\ ~crashed /\ UNCHANGED bound
  BY DEF FeeInv, FeeTypeOK, Parse, Entry
<1>2. /\ e = r[1] /\ e \in Entry
      /\ t \in Seq(Entry) /\ Len(t) = Len(r) - 1 /\ Len(r) \in Nat \ {0}
      /\ \A i \in 1..Len(r) - 1 : t[i] = r[i + 1]
  BY <1>1, Popped
<1>3. PICK x \in DOMAIN r : r[x] \in Open
  BY <1>1 DEF FeeInv, AlwaysExpecting
<1> HIDE DEF r, e, t
<1>4. CASE NoMatch(w, fallback)
  <2>1. readlist' = t \o <<fallback>> /\ fallback \in Open /\ nomatch' = TRUE
    BY <1>4 DEF NoMatch, t, Open
  <2>2. Shaped(<<fallback>>)
    BY <2>1, OneOpen
  <2>3. readlist' \in Seq(Entry) /\ \E i \in DOMAIN readlist' : readlist'[i] \in Open
    BY <2>1, <2>2, <1>2, AppendShaped
  <2>4. FeeTypeOK'
    BY <1>1, <1>4, <2>1, <2>3 DEF FeeInv, FeeTypeOK, NoMatch, Entry
  <2> QED BY <2>1, <2>3, <2>4 DEF FeeInv, AlwaysExpecting, InOrder
<1>5. CASE Crash(w)
  <2>1. readlist' \in Seq(Entry)
    BY <1>2, <1>5 DEF Crash, t
  <2>2. Chosen(e, w) \in Fct
    BY <1>2, <1>5, ClosedChoice, OpenChoice DEF Crash, Entry, OpenFct, ClosedFct, Fct, e
  <2>3. FeeTypeOK'
    BY <1>1, <1>5, <2>1, <2>2 DEF FeeInv, FeeTypeOK, Crash, Entry, e
  <2> QED BY <1>5, <2>3 DEF FeeInv, AlwaysExpecting, InOrder, Crash
<1>6. CASE Match(w)
  <2> DEFINE f == Chosen(e, w)
             s == Follow(f, w, ctx')
             CtxType == [hc : Int, zs : BOOLEAN, ntb : Nat, set : SUBSET {"hc0", "hc1"}]
  <2>1. /\ Matching(e, w) # {}
        /\ ctx' = Context(f, w)
        /\ readlist' = t \o s
        /\ last' = [w |-> w, f |-> f]
        /\ UNCHANGED <<crashed, nomatch>>
    BY <1>6 DEF Match, e, t
  <2>2. ctx' \in CtxType
    <3>1. ctx \in CtxType /\ w.hc \in Int /\ w.zs \in BOOLEAN /\ w.n \in Nat
      BY DEF FeeInv, FeeTypeOK, Word
    <3>2. OldHC0(w) \in BOOLEAN
      BY DEF OldHC0
    <3> HIDE DEF f
    <3> QED BY <2>1, <3>1, <3>2 DEF Context
  <2>3. f \in Fct /\ (e \in Closed => f \in ClosedFct) /\ (e \in Open => f \in OpenFct)
    BY <1>2, <2>1, ClosedChoice, OpenChoice DEF Entry, OpenFct, ClosedFct, Fct
  <2> HIDE DEF f
  <2>4. CASE e \in Open
    <3>1. Shaped(s)
      BY <2>2, <2>3, <2>4, FollowShaped
    <3> HIDE DEF s
    <3>2. /\ readlist' \in Seq(Entry)
          /\ \E i \in DOMAIN readlist' : readlist'[i] \in Open
          /\ t = <<>> => Shaped(readlist')
      BY <1>2, <2>1, <3>1, AppendShaped
    <3>3. FeeTypeOK'
      BY <1>1, <2>1, <2>2, <2>3, <3>2 DEF FeeInv, FeeTypeOK, Entry
    <3>4. ~nomatch => t = <<>>
      <4>1. ~nomatch /\ Len(r) > 1 => e \in Closed
        BY <1>1, <1>2 DEF FeeInv, InOrder, r
      <4>2. ~nomatch => Len(t) = 0
        BY <4>1, <1>2, <2>4, Disjoint
      <4> QED BY <4>2, <1>2
    <3>5. InOrder'
      BY <2>1, <3>2, <3>4 DEF InOrder, Shaped
    <3> QED BY <3>2, <3>3, <3>5 DEF FeeInv, AlwaysExpecting
  <2>5. CASE e \in Closed
    <3>1. s = <<>>
      BY <2>3, <2>5, FollowClosed
    <3>2. readlist' = t
      BY <1>2, <2>1, <3>1
    <3>3. FeeTypeOK'
      BY <1>1, <1>2, <2>1, <2>2, <2>3, <3>2 DEF FeeInv, FeeTypeOK, Entry
    <3>4. x > 1 /\ x \in 1..Len(r)
      BY <1>2, <1>3, <2>5, Disjoint, <1>1
    <3>5. x - 1 \in DOMAIN t /\ t[x - 1] \in Open
      BY <1>2, <1>3, <3>4
    <3>6. InOrder'
      <4>1. SUFFICES ASSUME ~nomatch
                     PROVE  t # <<>> /\ t[Len(t)] \in Open /\ \A i \in 1..Len(t) - 1 : t[i] \in Closed
        BY <2>1, <3>2 DEF InOrder
      <4>2. r[Len(r)] \in Open /\ \A i \in 1..Len(r) - 1 : r[i] \in Closed
        BY <1>1, <4>1 DEF FeeInv, InOrder, r
      <4>3. Len(t) \in Nat \ {0}
        BY <1>2, <3>5, <3>4
      <4> QED BY <1>2, <4>2, <4>3
    <3> QED BY <3>2, <3>3, <3>5, <3>6 DEF FeeInv, AlwaysExpecting
  <2> QED BY <1>2, <2>4, <2>5 DEF Entry
<1> QED BY <1>4, <1>5, <1>6 DEF Parse

LEMMA ResetInv ==
    ASSUME FeeInv, Reset
    PROVE  FeeInv'
BY DEF FeeInv, FeeTypeOK, AlwaysExpecting, InOrder, Reset

LEMMA FeeInitInv ==
    ASSUME FeeInit
    PROVE  FeeInv
<1>1. readlist = <<<<"thc", "eot">>>> /\ <<"thc", "eot">> \in Open
  BY DEF FeeInit, Open
<1>2. Len(readlist) = 1 /\ readlist[1] \in Open /\ readlist # <<>> /\ DOMAIN readlist = {1}
  BY <1>1
<1>3. FeeTypeOK
  <2>1. readlist \in Seq(Open \cup Closed)
    BY <1>1
  <2>2. ctx \in [hc : Int, zs : BOOLEAN, ntb : Nat, set : SUBSET {"hc0", "hc1"}]
    BY DEF FeeInit, NoHC
  <2>3. last \in [w : Word, f : Fct \cup {"none"}]
    <3>1. [k |-> "bad", n |-> 0, hc |-> NoHC, zs |-> FALSE] \in Word
      BY DEF Word, Kind, NoHC
    <3> QED BY <3>1 DEF FeeInit
  <2> QED BY <2>1, <2>2, <2>3 DEF FeeInit, FeeTypeOK
<1> QED BY <1>2, <1>3 DEF FeeInv, AlwaysExpecting, InOrder

-----------------------------------------------------------------------------
(* The parser in its readers.                                              *)
LEMMA WordAtType ==
    ASSUME payload \in Payload, NEW p
    PROVE  WordAt(p) \in Word
<1>1. \A k \in {"bad", "pad"} : Block(k) \in Word
  BY DEF Block, Word, Kind, NoHC
<1>2. CASE p < HeaderSize \/ Owner(p) = {}
  BY <1>1, <1>2 DEF WordAt
<1>3. CASE ~(p < HeaderSize) /\ Owner(p) # {}
  <2> DEFINE i == CHOOSE i \in Owner(p) : TRUE
             j == CHOOSE j \in DOMAIN data[i] : p = Start[i] + j - 1
  <2>1. i \in Link /\ \E j_1 \in DOMAIN data[i] : p = Start[i] + j_1 - 1
    BY <1>3 DEF Owner
  <2>2. j \in DOMAIN data[i]
    BY <2>1
  <2>3. data[i] \in Seq(Word)
    BY <2>1 DEF data, Payload
  <2>4. WordAt(p) = data[i][j]
    BY <1>3 DEF WordAt
  <2> HIDE DEF i, j
  <2> QED BY <2>2, <2>3, <2>4
<1> QED BY <1>2, <1>3

ReaderInv == FeeInv /\ payload \in Payload

(* Reset and the parser's loop are all that the readers do to the parser.  *)
LEMMA ReaderStep ==
    ASSUME ReaderInv, [Next]_vars
    PROVE  ReaderInv'
<1> USE DEF ReaderInv
<1>1. ASSUME NEW x \in Intact \cup Damaged, Send(x), UNCHANGED feevars \/ Reset
      PROVE  ReaderInv'
  <2>1. payload' \in Payload
    BY <1>1, LayoutAssumption DEF Send
  <2>2. FeeInv'
    <3>1. CASE UNCHANGED feevars
      BY <3>1 DEF feevars, FeeInv, FeeTypeOK, AlwaysExpecting, InOrder
    <3>2. CASE Reset
      BY <3>2, ResetInv
    <3> QED BY <1>1, <3>1, <3>2
  <2> QED BY <2>1, <2>2
<1>2. ASSUME UNCHANGED filevars, UNCHANGED feevars \/ Reset
      PROVE  ReaderInv'
  <2>1. payload' \in Payload
    BY <1>2 DEF filevars
  <2>2. FeeInv'
    <3>1. CASE UNCHANGED feevars
      BY <3>1 DEF feevars, FeeInv, FeeTypeOK, AlwaysExpecting, InOrder
    <3>2. CASE Reset
      BY <3>2, ResetInv
    <3> QED BY <1>2, <3>1, <3>2
  <2> QED BY <2>1, <2>2
<1>3. CASE NewData
  <2>1. PICK x \in Intact \cup Damaged : NewPayload(x) \/ Process(x) \/ ReadSubevent(x)
    BY <1>3 DEF NewData
  <2>2. Send(x) /\ (UNCHANGED feevars \/ Reset)
    BY <2>1 DEF NewPayload, Process, ReadSubevent, Subevent
  <2> QED BY <2>2, <1>1
<1>4. CASE FeeDword
  <2>1. Parse(WordAt(pos), IF reader = "o32" THEN <<"eod", "skip">> ELSE <<"find">>)
    BY <1>4 DEF FeeDword
  <2>2. (IF reader = "o32" THEN <<"eod", "skip">> ELSE <<"find">>) \in Fallback
    BY DEF Fallback
  <2>3. FeeInv'
    BY <2>1, <2>2, WordAtType, ParseInv
  <2> QED BY <1>4, <2>3 DEF FeeDword, filevars
<1>5. CASE NextPage \/ PageDone \/ Padding \/ Astray \/ SubeventDone
  BY <1>2, <1>5 DEF NextPage, PageDone, Padding, Astray, SubeventDone
<1>6. CASE CallFeeParser
  BY <1>2, <1>6 DEF CallFeeParser
<1>7. CASE EmptyLink \/ FeeReturn
  BY <1>2, <1>7 DEF EmptyLink, FeeReturn, EndLink
<1>8. CASE UNCHANGED vars
  BY <1>2, <1>8 DEF vars
<1> QED BY <1>3, <1>4, <1>5, <1>6, <1>7, <1>8 DEF Next, Read

LEMMA ReaderInit ==
    ASSUME Init
    PROVE  ReaderInv
<1>1. payload \in Payload
  BY LayoutAssumption DEF Init, Payload, Link
<1> QED BY <1>1, FeeInitInv DEF Init, ReaderInv

LEMMA ReaderInvariant == Spec => []ReaderInv
<1>1. Init => ReaderInv
  BY ReaderInit
<1>2. ReaderInv /\ [Next]_vars => ReaderInv'
  BY ReaderStep
<1> QED BY <1>1, <1>2, PTL DEF Spec

(* TrdFeeParser never reaches "extra data after end of readlist", whatever *)
(* it is given (trdfeeparser.py:422-469, 471-526).                         *)
THEOREM ParserAlwaysExpects == Spec => []AlwaysExpecting
<1>1. ReaderInv => AlwaysExpecting
  BY DEF ReaderInv, FeeInv
<1> QED BY <1>1, ReaderInvariant, PTL

(* As long as every dword matches, one entry of the list leads on, and it  *)
(* is the last: appending at the end keeps the order of the format         *)
(* (trdfeeparser.py:428-452, 492-511).                                     *)
THEOREM ParserInOrder == Spec => []InOrder
<1>1. ReaderInv => InOrder
  BY DEF ReaderInv, FeeInv
<1> QED BY <1>1, ReaderInvariant, PTL

-----------------------------------------------------------------------------
(* TrdCruParser's place in the payload.                                    *)
(* What LayoutAssumption says of a payload; it also holds before the first.*)
Laid ==
    /\ Start[0] = HeaderSize
    /\ \A n \in Link : Start[n + 1] = Start[n] + Len(data[n])

(* For RDH pages only; the end of the links; the datasize of a header.     *)
Tf == reader = "tf"
End == Start[LastLink + 1]
Sizes == [n \in Link |-> Len(data[n])]

(* The types of the loop; unread is set while a link is read, and a call  *)
(* reads something.                                                        *)
Loop ==
    /\ reader \in {"tf", "o32", "bin"}
    /\ units \in 0..MaxUnits
    /\ pc \in {"file", "cru", "fee", "astray"}
    /\ {pos, page, maxpos, feemax, readsize} \subseteq Nat
    /\ intact \in BOOLEAN /\ first \in BOOLEAN /\ swallowed \in BOOLEAN
    /\ \/ hcruheader = NoHeader /\ link = None /\ unread = None
       \/ /\ hcruheader \in [Link -> Nat] /\ link \in Link
          /\ unread \in (1..hcruheader[link]) \cup {None}
    /\ ~Tf => hcruheader = NoHeader /\ pc \in {"file", "fee"}
    /\ Tf /\ pc = "fee" => hcruheader # NoHeader /\ unread # None /\ readsize \in 1..unread

(* The pages: where the current one ends, and that pos is on it.           *)
Pages ==
    Tf =>
        /\ page = 0 => pc = "file" /\ pos = Total /\ maxpos = Total /\ hcruheader = NoHeader
        /\ page # 0 =>
               /\ maxpos = Least(PageSize * page, Total)
               /\ pos \in PageSize * (page - 1)..maxpos
        /\ pc = "file" => pos = maxpos
        /\ pc = "fee" => pos \in feemax - readsize..feemax /\ feemax <= maxpos
                         /\ feemax - readsize >= PageSize * (page - 1)

(* As long as no data were taken for padding: pos is where the data that   *)
(* are left of the current link begin; with nothing left it is at the end, *)
(* or at the beginning of a payload whose header has not been read.        *)
Place ==
    Tf /\ ~swallowed =>
        /\ pc # "astray"
        /\ pc = "fee" \/ ~NothingLeft => hcruheader = Sizes
        /\ pc = "fee" => feemax - readsize = Start[link + 1] - unread
        /\ pc # "fee" /\ ~NothingLeft =>
               pos = IF unread = None THEN Start[link] ELSE Start[link + 1] - unread
        /\ pc # "fee" /\ NothingLeft => pos \in {0, End, Total}

Less == {p \in Nat \X Nat : p[1] < p[2]}

(* Induction, as the least counterexample.                                 *)
LEMMA LeastOne ==
    ASSUME NEW T \in SUBSET Nat, T # {}
    PROVE  \E n \in T : \A m \in T : ~(m < n)
<1>1. IsWellFoundedOn(Less, Nat)
  BY NatLessThanWellFounded, SMT DEF OpToRel, Less
<1>2. \E n \in T : \A m \in T : ~(<<m, n>> \in Less)
  BY <1>1, WFMin
<1> QED BY <1>2 DEF Less

(* A payload, for the provers in one place.                                *)
LEMMA Layout ==
    ASSUME payload \in Payload, Laid
    PROVE  /\ Start[0] = HeaderSize /\ LastLink \in Nat
           /\ \A n \in 0..LastLink + 1 : Start[n] \in Nat
           /\ \A n \in Link : /\ n \in 0..LastLink + 1 /\ n + 1 \in 0..LastLink + 1
                              /\ data[n] \in Seq(Word) /\ Len(data[n]) \in Nat
                              /\ Start[n + 1] = Start[n] + Len(data[n])
                              /\ Sizes[n] = Len(data[n])
           /\ Sizes \in [Link -> Nat]
<1>1. LastLink \in Nat /\ Start \in [0..LastLink + 1 -> Nat] /\ data \in [Link -> Seq(Word)]
  BY LayoutAssumption DEF Payload, data, Start
<1>2. \A n \in Link : n \in 0..LastLink + 1 /\ n + 1 \in 0..LastLink + 1
  BY <1>1 DEF Link
<1>3. \A n \in Link : data[n] \in Seq(Word) /\ Len(data[n]) \in Nat
  BY <1>1
<1> QED BY <1>1, <1>2, <1>3 DEF Laid, Sizes

(* The links follow one another.                                           *)
LEMMA StartsRise ==
    ASSUME payload \in Payload, Laid, NEW n \in 0..LastLink + 1, NEW m \in 0..n
    PROVE  Start[m] <= Start[n]
<1> DEFINE T == {k \in Nat : k \in m..LastLink + 1 /\ ~(Start[m] <= Start[k])}
<1>1. SUFFICES ASSUME T # {} PROVE FALSE
  BY Layout
<1>2. PICK k \in T : \A l \in T : ~(l < k)
  BY <1>1, LeastOne
<1>3. k # m
  BY <1>2, Layout
<1>4. k - 1 \in Link /\ k - 1 \in m..LastLink + 1 /\ k - 1 \in Nat /\ (k - 1) + 1 = k /\ k - 1 < k
  BY <1>2, <1>3, Layout DEF Link
<1>5. Start[m] <= Start[k - 1]
  BY <1>2, <1>4
<1>6. Start[k] = Start[k - 1] + Len(data[k - 1]) /\ Len(data[k - 1]) \in Nat
  BY <1>4, Layout
<1>7. Start[m] \in Nat /\ Start[k - 1] \in Nat
  BY <1>4, Layout
<1> HIDE DEF T
<1>8. ~(Start[m] <= Start[k])
  BY <1>2 DEF T
<1> QED BY <1>5, <1>6, <1>7, <1>8

(* The last one ends at the end, which padding makes even.                 *)
LEMMA Ending ==
    ASSUME payload \in Payload, Laid
    PROVE  /\ End \in Nat /\ HeaderSize \in Nat /\ HeaderSize > 1 /\ HeaderSize <= End
           /\ Total \in Nat /\ Total \in {End, End + 1}
           /\ \A n \in Link : /\ HeaderSize <= Start[n]
                              /\ Start[n + 1] <= End
                              /\ Start[n] <= Start[n + 1]
<1>1. \A n \in 0..LastLink + 1 : HeaderSize <= Start[n] /\ Start[n] <= End
  <2> TAKE n \in 0..LastLink + 1
  <2>1. LastLink + 1 \in 0..LastLink + 1 /\ n \in 0..LastLink + 1 /\ 0 \in 0..n
    BY Layout
  <2> QED BY <2>1, StartsRise, Layout DEF End
<1>2. End \in Nat /\ HeaderSize \in Nat /\ HeaderSize > 1 /\ HeaderSize <= End
  <2>1. LastLink + 1 \in 0..LastLink + 1
    BY Layout
  <2> QED BY <2>1, <1>1, Layout, LayoutAssumption DEF End
<1>3. Total = End + (End % 2)
  BY DEF Total, Padded, End, Start
<1> HIDE DEF End
<1>4. End % 2 \in 0..1
  BY <1>2
<1> QED BY <1>1, <1>2, <1>3, <1>4, Layout

(* Behind the header and before the end, a block is of some link.          *)
LEMMA Covered ==
    ASSUME payload \in Payload, Laid, NEW p \in Int, HeaderSize <= p, p < End
    PROVE  Owner(p) # {}
<1> DEFINE T == {k \in Nat : k \in 0..LastLink + 1 /\ p < Start[k]}
<1>1. T # {}
  <2>1. LastLink + 1 \in T
    BY Layout DEF End
  <2> QED BY <2>1
<1>2. PICK k \in T : \A l \in T : ~(l < k)
  BY <1>1, LeastOne
<1>3. k # 0
  BY <1>2, Layout, Ending
<1>4. k - 1 \in Link /\ k - 1 \in 0..LastLink + 1 /\ k - 1 \in Nat /\ (k - 1) + 1 = k /\ k - 1 < k
  BY <1>2, <1>3, Layout DEF Link
<1>5. ~(p < Start[k - 1])
  BY <1>2, <1>4
<1>6. Start[k] = Start[k - 1] + Len(data[k - 1]) /\ data[k - 1] \in Seq(Word)
      /\ Start[k - 1] \in Nat /\ p < Start[k]
  BY <1>2, <1>4, Layout
<1> DEFINE j == p - Start[k - 1] + 1
<1>7. j \in 1..Len(data[k - 1]) /\ p = Start[k - 1] + j - 1
  BY <1>5, <1>6
<1>8. j \in DOMAIN data[k - 1]
  BY <1>6, <1>7
<1> QED BY <1>4, <1>7, <1>8 DEF Owner

(* From link n on there is nothing if and only if n starts at the end.     *)
LEMMA Tight ==
    ASSUME payload \in Payload, Laid, NEW n \in 0..LastLink + 1
    PROVE  (\A l \in n..LastLink : Sizes[l] = 0) <=> Start[n] = End
<1>0. \A l \in n..LastLink : l \in Link
  BY DEF Link
<1>1. ASSUME \A l \in n..LastLink : Sizes[l] = 0, Start[n] # End
      PROVE  FALSE
  <2>1. Start[n] \in Nat /\ HeaderSize <= Start[n] /\ Start[n] < End
    <3>1. LastLink + 1 \in 0..LastLink + 1 /\ n \in 0..LastLink + 1 /\ 0 \in 0..n
      BY Layout
    <3>2. Start[0] <= Start[n] /\ Start[n] <= End
      BY <3>1, StartsRise DEF End
    <3> QED BY <1>1, <3>2, Layout, Ending
  <2>2. PICK o \in Link : \E j \in DOMAIN data[o] : Start[n] = Start[o] + j - 1
    BY <2>1, Covered DEF Owner
  <2>6. PICK j \in DOMAIN data[o] : Start[n] = Start[o] + j - 1
    BY <2>2
  <2>3. j \in 1..Len(data[o]) /\ Start[o + 1] = Start[o] + Len(data[o]) /\ Start[o] \in Nat
        /\ o + 1 \in 0..LastLink + 1 /\ o \in 0..LastLink
    BY <2>2, Layout DEF Link
  <2>4. CASE o >= n
    BY <1>1, <2>3, <2>4, Layout, <1>0
  <2>5. CASE ~(o >= n)
    <3>1. o + 1 \in 0..n
      BY <2>3, <2>5
    <3>2. Start[o + 1] <= Start[n]
      BY <3>1, StartsRise
    <3> QED BY <2>1, <2>6, <2>3, <3>2
  <2> QED BY <2>3, <2>4, <2>5
<1>2. ASSUME Start[n] = End, NEW l \in n..LastLink
      PROVE  Sizes[l] = 0
  <2>1. l \in Link /\ n \in 0..l /\ l \in 0..LastLink + 1
    BY <1>0, Layout
  <2>2. Start[n] <= Start[l]
    BY <2>1, StartsRise
  <2>3. Start[l + 1] <= End /\ Start[l + 1] = Start[l] + Len(data[l]) /\ Len(data[l]) \in Nat
        /\ Start[l] \in Nat
    BY <2>1, Ending, Layout
  <2> QED BY <1>2, <2>1, <2>2, <2>3, Layout, Ending
<1> QED BY <1>1, <1>2

-----------------------------------------------------------------------------
(* Every payload is laid out in this way.                                  *)
LEMMA LaidStep ==
    ASSUME Laid, [Next]_vars
    PROVE  Laid'
<1>1. CASE payload' = payload
  BY <1>1 DEF Laid, Start, data
<1>2. CASE NewData
  <2>1. PICK x \in Intact \cup Damaged : payload' = x
    BY <1>2 DEF NewData, NewPayload, Process, ReadSubevent, Subevent, Send
  <2> QED BY <2>1, LayoutAssumption DEF Laid, Start, data
<1>3. CASE Read
  BY <1>1, <1>3 DEF Read, NextPage, PageDone, Padding, Astray, CallFeeParser, EmptyLink,
                    FeeDword, FeeReturn, SubeventDone, filevars
<1> QED BY <1>1, <1>2, <1>3 DEF Next, vars, filevars

(* The link a turn of the loop is for, and what is left of it.             *)
LEMMA TurnIs ==
    ASSUME payload \in Payload, Laid, Loop, Turn
    PROVE  /\ TurnHeader \in [Link -> Nat] /\ TurnHeader # NoHeader
           /\ TurnLink \in Link
           /\ TurnUnread \in 0..TurnHeader[TurnLink]
           /\ TurnPos \in Nat
           /\ AtHeader => TurnHeader = Sizes /\ TurnLink = 0 /\ TurnPos = pos + HeaderSize
                          /\ TurnUnread = Sizes[0]
           /\ ~AtHeader => TurnHeader = hcruheader /\ TurnLink = link /\ TurnPos = pos
                           /\ TurnUnread = IF unread = None THEN hcruheader[link] ELSE unread
<1>1. 0 \in Link /\ Sizes \in [Link -> Nat] /\ LastLink \in Nat
  BY Layout DEF Link
<1>2. \A h \in [Link -> Nat] : h # NoHeader
  BY <1>1 DEF NoHeader
<1>3. {pos, maxpos} \subseteq Nat /\ maxpos - pos > 1
  BY DEF Turn, Loop
<1>4. CASE AtHeader
  <2>1. TurnHeader = Sizes /\ TurnLink = 0 /\ TurnPos = pos + HeaderSize
    BY <1>4 DEF TurnHeader, TurnLink, TurnPos, Sizes
  <2>2. TurnUnread = Sizes[0]
    BY <1>4, <2>1 DEF TurnUnread
  <2>3. Sizes[0] \in Nat
    BY <1>1
  <2> QED BY <1>1, <1>2, <1>3, <1>4, <2>1, <2>2, <2>3, Ending
<1>5. CASE ~AtHeader
  <2>1. TurnHeader = hcruheader /\ TurnLink = link /\ TurnPos = pos
    BY <1>5 DEF TurnHeader, TurnLink, TurnPos
  <2>2. TurnUnread = IF unread = None THEN hcruheader[link] ELSE unread
    BY <1>5, <2>1 DEF TurnUnread
  <2>3. /\ hcruheader \in [Link -> Nat] /\ link \in Link
        /\ unread \in (1..hcruheader[link]) \cup {None}
    BY <1>5 DEF Loop, AtHeader
  <2>4. TurnUnread \in 0..hcruheader[link]
    BY <2>2, <2>3
  <2> QED BY <1>2, <1>3, <1>5, <2>1, <2>2, <2>3, <2>4
<1> QED BY <1>4, <1>5

(* The end of a payload, for this one and the next.                        *)
EndIs == End \in Nat /\ HeaderSize \in Nat /\ HeaderSize <= End /\ Total \in Nat

LEMMA EndingOf == payload \in Payload /\ Laid => EndIs
BY Ending DEF EndIs

LEMMA EndingNext == (payload \in Payload /\ Laid => EndIs)'
BY EndingOf, PTL

(* A page holds more than a header, and a call reads something.            *)
LEMMA ReadSizeIs ==
    ASSUME payload \in Payload, Laid, Loop, Pages, Turn, AtHeader => pos = 0, TurnUnread > 0
    PROVE  /\ ReadSize \in 1..TurnUnread /\ TurnPos + ReadSize <= maxpos
           /\ ReadSize = Least(TurnUnread, maxpos - TurnPos)
<1>1. Tf /\ page # 0 /\ page \in Nat /\ maxpos = Least(PageSize * page, Total)
      /\ maxpos \in Nat /\ pos \in Nat
  BY DEF Turn, Loop, Pages
<1>2. TurnPos \in Nat /\ TurnUnread \in Nat
  <2>1. TurnHeader[TurnLink] \in Nat
    BY TurnIs
  <2> QED BY <2>1, TurnIs
<1>3. TurnPos < maxpos
  <2>1. CASE ~AtHeader
    BY <2>1, <1>1, TurnIs DEF Turn
  <2>2. CASE AtHeader
    <3>1. TurnPos = HeaderSize /\ TurnUnread = Sizes[0] /\ 0 \in Link
      BY <2>2, TurnIs, Ending, Layout DEF Link
    <3>2. Start[1] = HeaderSize + Sizes[0] /\ Start[1] <= End /\ Sizes[0] \in Nat /\ Start[1] \in Nat
      <4>1. 0 + 1 = 1 /\ 0 \in Link /\ 1 \in 0..LastLink + 1
        BY <3>1, Layout
      <4>2. Start[0 + 1] = Start[0] + Len(data[0]) /\ Start[0 + 1] <= End
        BY <3>1, Ending, Layout
      <4> QED BY <4>1, <4>2, Layout
    <3>3. HeaderSize < Total
      BY <3>1, <3>2, Ending
    <3>4. HeaderSize < PageSize * page
      <4>1. PageSize \in Nat /\ PageSize > HeaderSize /\ HeaderSize \in Nat
        BY LayoutAssumption
      <4>2. PageSize * page >= PageSize
        BY <1>1, <4>1
      <4>3. PageSize * page \in Nat
        BY <1>1, <4>1
      <4> QED BY <4>1, <4>2, <4>3
    <3> QED BY <1>1, <3>1, <3>3, <3>4 DEF Least
  <2> QED BY <2>1, <2>2
<1> QED BY <1>1, <1>2, <1>3 DEF ReadSize, Least

(* The link after a link: the next one of its header, or that of a header. *)
LEMMA EndLinkTypes ==
    ASSUME NEW h \in [Link -> Nat], NEW l \in Link, EndLink(h, l)
    PROVE  \/ hcruheader' = NoHeader /\ link' = None /\ unread' = None
           \/ /\ hcruheader' \in [Link -> Nat] /\ link' \in Link
              /\ unread' \in (1..hcruheader'[link']) \cup {None}
<1>1. CASE l < LastLink
  <2>1. l + 1 \in Link
    BY <1>1, LayoutAssumption DEF Link
  <2> QED BY <1>1, <2>1 DEF EndLink
<1>2. CASE ~(l < LastLink)
  BY <1>2 DEF EndLink
<1> QED BY <1>1, <1>2

(* Every step keeps the types of the loop.                                 *)
LEMMA LoopStep ==
    ASSUME payload \in Payload, Laid, Loop, Pages, [Next]_vars, payload' \in Payload, Laid'
    PROVE  Loop'
<1> USE DEF Tf
<1>1. ASSUME UNCHANGED <<filevars, cruvars, first, swallowed, pc, readsize>>,
             {pos, page, maxpos, feemax}' \subseteq Nat
      PROVE  Loop'
  BY <1>1 DEF Loop, filevars, cruvars
<1>2. {pos, page, maxpos, feemax, readsize} \subseteq Nat /\ {PageSize, HeaderSize} \subseteq Nat
      /\ Total \in Nat
  BY Ending, LayoutAssumption DEF Loop
<1>3. CASE NewData
  <2>1. PICK x \in Intact \cup Damaged : NewPayload(x) \/ Process(x) \/ ReadSubevent(x)
    BY <1>3 DEF NewData
  <2>2. units' = units + 1 /\ payload' = x /\ intact' \in BOOLEAN /\ units < MaxUnits
        /\ UNCHANGED <<cruvars, reader, first, swallowed>>
    BY <1>3, <2>1 DEF NewData, NewPayload, Process, ReadSubevent, Subevent, Send
  <2>3. units' \in 0..MaxUnits
    BY <2>2, LayoutAssumption DEF Loop
  <2>4. x \in Payload /\ x.start[LastLink + 1] \in Nat /\ HeaderSize <= x.start[LastLink + 1]
        /\ Padded(x) \in Nat
    <3>1. End' = x.start[LastLink + 1] /\ Total' = Padded(x)
      BY <2>2 DEF End, Start, Total, Padded
    <3>2. End' \in Nat /\ HeaderSize <= End' /\ Total' \in Nat
      BY EndingNext DEF EndIs
    <3> QED BY <2>2, <3>1, <3>2
  <2>5. CASE NewPayload(x)
    <3>1. pos' = 0 /\ page' = 1 /\ maxpos' = Least(PageSize, Padded(x)) /\ pc' = "cru"
          /\ Tf /\ UNCHANGED <<readsize, feemax>>
      BY <2>5 DEF NewPayload
    <3>2. maxpos' \in Nat
      BY <1>2, <2>4, <3>1 DEF Least
    <3> QED BY <2>2, <2>3, <3>1, <3>2 DEF Loop, cruvars
  <2>6. CASE ~Tf /\ Subevent(x)
    <3>1. pos' = HeaderSize /\ pc' = "fee" /\ UNCHANGED <<page, maxpos>>
          /\ readsize' \in Nat /\ feemax' \in Nat
      BY <1>2, <2>4, <2>6 DEF Subevent
    <3> QED BY <1>2, <2>2, <2>3, <2>6, <3>1 DEF Loop, cruvars
  <2> QED BY <2>1, <2>5, <2>6 DEF Process, ReadSubevent
<1>4. CASE NextPage
  <2>1. maxpos' \in Nat /\ page' \in Nat
    BY <1>2, <1>4 DEF NextPage, Least
  <2> QED BY <1>2, <1>4, <2>1 DEF NextPage, Loop, filevars, cruvars
<1>5. CASE PageDone \/ Astray
  BY <1>5 DEF PageDone, Astray, Turn, Loop, filevars, cruvars
<1>6. CASE Padding
  <2>1. pos' \in Nat /\ swallowed' \in BOOLEAN
    BY <1>2, <1>6 DEF Padding, Loop
  <2> QED BY <1>2, <1>6, <2>1 DEF Padding, Loop, filevars, cruvars
<1>7. CASE CallFeeParser
  <2>1. /\ Turn /\ (AtHeader => pos = 0) /\ TurnUnread > 0
        /\ hcruheader' = TurnHeader /\ link' = TurnLink /\ unread' = TurnUnread
        /\ pos' = TurnPos /\ readsize' = ReadSize /\ feemax' = TurnPos + ReadSize /\ pc' = "fee"
        /\ UNCHANGED <<filevars, page, maxpos, first, swallowed>>
    BY <1>7 DEF CallFeeParser
  <2>2. ReadSize \in 1..TurnUnread
    BY <2>1, ReadSizeIs
  <2>3. Tf
    BY <2>1 DEF Turn, Loop
  <2>4. /\ TurnHeader \in [Link -> Nat] /\ TurnHeader # NoHeader /\ TurnLink \in Link
        /\ TurnUnread \in 1..TurnHeader[TurnLink] /\ TurnPos \in Nat /\ TurnUnread # None
    <3>1. TurnHeader[TurnLink] \in Nat
      BY <2>1, TurnIs
    <3> QED BY <2>1, <3>1, TurnIs DEF None
  <2>5. {pos, page, maxpos, feemax, readsize}' \subseteq Nat
    BY <1>2, <2>1, <2>2, <2>4
  <2> HIDE DEF Tf
  <2>6. Tf' /\ UNCHANGED <<reader, units, intact>>
    BY <2>1, <2>3 DEF Tf, filevars
  <2> QED BY <2>1, <2>2, <2>4, <2>5, <2>6 DEF Loop
<1>8. CASE EmptyLink
  <2>1. /\ Turn /\ EndLink(TurnHeader, TurnLink) /\ pos' = TurnPos
        /\ UNCHANGED <<filevars, page, pc, maxpos, readsize, feemax, first, swallowed>>
    BY <1>8 DEF EmptyLink
  <2>2. Tf /\ pc = "cru"
    BY <2>1 DEF Turn, Loop
  <2>3. TurnHeader \in [Link -> Nat] /\ TurnLink \in Link /\ TurnPos \in Nat
    BY <2>1, TurnIs
  <2>4. \/ hcruheader' = NoHeader /\ link' = None /\ unread' = None
        \/ /\ hcruheader' \in [Link -> Nat] /\ link' \in Link
           /\ unread' \in (1..hcruheader'[link']) \cup {None}
    BY <2>1, <2>3, EndLinkTypes
  <2> QED BY <1>2, <2>1, <2>2, <2>3, <2>4 DEF Loop, filevars
<1>9. CASE FeeDword
  BY <1>1, <1>2, <1>9 DEF FeeDword
<1>10. CASE FeeReturn
  <2>1. /\ Tf /\ pc = "fee" /\ pc' = "cru"
        /\ UNCHANGED <<filevars, page, pos, maxpos, readsize, feemax, swallowed>>
    BY <1>10 DEF FeeReturn
  <2>2. /\ hcruheader \in [Link -> Nat] /\ link \in Link /\ hcruheader # NoHeader
        /\ unread \in 1..hcruheader[link] /\ readsize \in 1..unread
    BY <2>1 DEF Loop
  <2>3. CASE unread = readsize
    <3>1. EndLink(hcruheader, link) /\ first' = FALSE
      BY <1>10, <2>3 DEF FeeReturn
    <3>2. \/ hcruheader' = NoHeader /\ link' = None /\ unread' = None
          \/ /\ hcruheader' \in [Link -> Nat] /\ link' \in Link
             /\ unread' \in (1..hcruheader'[link']) \cup {None}
      BY <2>2, <3>1, EndLinkTypes
    <3> QED BY <1>2, <2>1, <3>1, <3>2 DEF Loop, filevars
  <2>4. CASE unread # readsize
    <3>1. unread' = unread - readsize /\ UNCHANGED <<hcruheader, link, first>>
      BY <1>10, <2>4 DEF FeeReturn
    <3>2. unread' \in 1..hcruheader[link]
      BY <2>2, <2>4, <3>1
    <3> QED BY <1>2, <2>1, <2>2, <3>1, <3>2 DEF Loop, filevars
  <2> QED BY <2>3, <2>4
<1>11. CASE SubeventDone
  BY <1>11 DEF SubeventDone, Loop, filevars, cruvars
<1>12. CASE UNCHANGED vars
  BY <1>1, <1>2, <1>12 DEF vars
<1> QED BY <1>3, <1>4, <1>5, <1>6, <1>7, <1>8, <1>9, <1>10, <1>11, <1>12 DEF Next, Read

(* No step leaves the page but to the next one.                            *)
LEMMA PagesStep ==
    ASSUME payload \in Payload, Laid, Loop, Pages, [Next]_vars, payload' \in Payload, Laid'
    PROVE  Pages'
<1>0. /\ {pos, page, maxpos, feemax, readsize} \subseteq Nat
      /\ PageSize \in Nat /\ HeaderSize \in Nat /\ PageSize > HeaderSize
      /\ Total \in Nat /\ Total' \in Nat
  BY Ending, EndingNext, LayoutAssumption DEF Loop, EndIs
<1>1. CASE NewData
  <2>1. PICK x \in Intact \cup Damaged : NewPayload(x) \/ Process(x) \/ ReadSubevent(x)
    BY <1>1 DEF NewData
  <2>2. CASE NewPayload(x)
    <3>1. /\ payload' = x /\ pos' = 0 /\ page' = 1 /\ pc' = "cru"
          /\ maxpos' = Least(PageSize, Padded(x))
      BY <2>2 DEF NewPayload, Send
    <3>2. Total' = Padded(x)
      BY <3>1 DEF Total, Padded
    <3>3. maxpos' = Least(PageSize * 1, Total') /\ maxpos' \in Nat
      BY <1>0, <3>1, <3>2 DEF Least
    <3>4. pos' \in PageSize * (1 - 1)..maxpos'
      BY <1>0, <3>1, <3>3
    <3> QED BY <3>1, <3>3, <3>4 DEF Pages
  <2>3. CASE Process(x) \/ ReadSubevent(x)
    BY <2>3 DEF Process, ReadSubevent, Subevent, Pages, Tf
  <2> QED BY <2>1, <2>2, <2>3
<1>2. CASE ~Tf /\ UNCHANGED reader
  BY <1>2 DEF Tf, Pages
<1>3. CASE Tf /\ (Read \/ UNCHANGED vars)
  <2>1. payload' = payload /\ UNCHANGED reader
    BY <1>3 DEF Read, NextPage, PageDone, Padding, Astray, CallFeeParser, EmptyLink,
                FeeDword, FeeReturn, SubeventDone, filevars, vars
  <2>2. Total' = Total
    BY <2>1 DEF Total
  <2> DEFINE low == PageSize * (page - 1)
  <2>3. /\ page = 0 => pc = "file" /\ pos = Total /\ maxpos = Total /\ hcruheader = NoHeader
        /\ page # 0 => maxpos = Least(PageSize * page, Total) /\ pos \in low..maxpos
        /\ pc = "file" => pos = maxpos
        /\ pc = "fee" => pos \in feemax - readsize..feemax /\ feemax <= maxpos
                         /\ feemax - readsize >= low
    BY <1>3 DEF Pages
  <2>4. PageSize * page \in Nat /\ low \in Int
    BY <1>0
  <2>5. CASE NextPage
    <3>1. pos < Total /\ pc = "file" /\ pc' = "cru" /\ page' = page + 1 /\ pos' = pos
          /\ maxpos' = Least(pos + PageSize, Total)
      BY <2>5 DEF NextPage
    <3>2. page # 0 /\ pos = PageSize * page
      BY <1>0, <2>3, <2>4, <3>1 DEF Least
    <3>3. PageSize * (page + 1) = PageSize * page + PageSize
      BY <1>0
    <3>4. maxpos' = Least(PageSize * (page + 1), Total)
      BY <3>1, <3>2, <3>3
    <3>5. PageSize * ((page + 1) - 1) = PageSize * page
      BY <1>0
    <3>6. pos \in PageSize * ((page + 1) - 1)..maxpos'
      BY <1>0, <2>4, <3>1, <3>2, <3>5 DEF Least
    <3> QED BY <1>0, <2>2, <3>1, <3>4, <3>6 DEF Pages
  <2> DEFINE mid == PageSize * page
  <2>6. ASSUME UNCHANGED <<page, maxpos>>, page # 0,
               pos' \in low..maxpos, pc' = "file" => pos' = maxpos,
               pc' = "fee" => pos' \in feemax' - readsize'..feemax' /\ feemax' <= maxpos
                              /\ feemax' - readsize' >= low
        PROVE  Pages'
    BY <2>2, <2>3, <2>6 DEF Pages
  <2> HIDE DEF low, mid
  <2>7. CASE PageDone \/ Astray
    BY <2>3, <2>6, <2>7 DEF PageDone, Astray, Turn
  <2>8. CASE Padding
    BY <1>0, <2>3, <2>4, <2>6, <2>8 DEF Padding
  <2>9. CASE CallFeeParser
    <3>1. /\ Turn /\ (AtHeader => pos = 0) /\ TurnUnread > 0
          /\ pos' = TurnPos /\ readsize' = ReadSize /\ feemax' = TurnPos + ReadSize
          /\ pc' = "fee" /\ UNCHANGED <<page, maxpos>>
      BY <2>9 DEF CallFeeParser
    <3>2. page # 0 /\ pos \in low..maxpos
      BY <2>3, <3>1 DEF Turn
    <3>3. TurnUnread \in Nat
      <4>1. TurnHeader[TurnLink] \in Nat
        BY <3>1, TurnIs
      <4> QED BY <3>1, <4>1, TurnIs
    <3>4. ReadSize \in 1..TurnUnread /\ TurnPos + ReadSize <= maxpos
      BY <3>1, ReadSizeIs
    <3>5. TurnPos \in Nat /\ TurnPos >= pos
      BY <1>0, <3>1, TurnIs
    <3> QED BY <1>0, <2>4, <2>6, <3>1, <3>2, <3>3, <3>4, <3>5
  <2>10. CASE EmptyLink
    <3>1. /\ Turn /\ (AtHeader => pos = 0) /\ pos' = TurnPos
          /\ pc' = pc /\ UNCHANGED <<page, maxpos>>
      BY <2>10 DEF EmptyLink
    <3>2. page # 0 /\ pos \in low..maxpos /\ pc = "cru"
      BY <2>3, <3>1 DEF Turn
    <3>3. TurnPos \in low..maxpos
      <4>1. CASE ~AtHeader
        BY <3>1, <3>2, <4>1, TurnIs
      <4>2. CASE AtHeader
        <5>1. TurnPos = HeaderSize /\ pos = 0
          BY <1>0, <3>1, <4>2, TurnIs
        <5>2. HeaderSize <= Total
          BY Ending
        <5>3. HeaderSize < PageSize * page
          <6>1. PageSize * page >= PageSize
            BY <1>0, <3>2
          <6> QED BY <1>0, <2>4, <6>1
        <5> QED BY <1>0, <2>3, <2>4, <3>2, <5>1, <5>2, <5>3 DEF Least
      <4> QED BY <4>1, <4>2
    <3> QED BY <2>6, <3>1, <3>2, <3>3
  <2>11. CASE FeeDword
    <3>1. pc = "fee" /\ pc' = "fee" /\ pos < feemax /\ pos' = pos + 1
          /\ UNCHANGED <<page, maxpos, readsize, feemax>>
      BY <2>11 DEF FeeDword
    <3>2. page # 0
      BY <2>3, <3>1
    <3> QED BY <1>0, <2>3, <2>4, <2>6, <3>1, <3>2
  <2>12. CASE FeeReturn
    BY <2>3, <2>6, <2>12 DEF FeeReturn
  <2>13. CASE SubeventDone
    BY <1>3, <2>13 DEF SubeventDone, Tf
  <2>14. CASE UNCHANGED vars
    <3>1. UNCHANGED <<page, maxpos, pos, pc, feemax, readsize, hcruheader>>
      BY <2>14 DEF vars, cruvars
    <3>2. CASE page # 0
      BY <2>3, <2>6, <3>1, <3>2
    <3>3. CASE page = 0
      BY <2>2, <2>3, <3>1, <3>3 DEF Pages
    <3> QED BY <3>2, <3>3
  <2> QED BY <1>3, <2>5, <2>7, <2>8, <2>9, <2>10, <2>11, <2>12, <2>13, <2>14 DEF Read
<1>4. CASE Read \/ UNCHANGED vars
  <2>1. UNCHANGED reader
    BY <1>4 DEF Read, NextPage, PageDone, Padding, Astray, CallFeeParser, EmptyLink,
                FeeDword, FeeReturn, SubeventDone, filevars, vars
  <2> QED BY <1>2, <1>3, <1>4, <2>1
<1> QED BY <1>1, <1>4 DEF Next

-----------------------------------------------------------------------------
(* Where data are left, they are at pos.                                   *)
LEMMA AtData ==
    ASSUME payload \in Payload, Laid, Loop, Place, Tf, ~swallowed, pc # "fee", ~NothingLeft
    PROVE  /\ hcruheader = Sizes /\ link \in Link
           /\ pos \in Nat /\ HeaderSize <= pos /\ pos < End
           /\ unread = None => pos = Start[link]
           /\ unread # None => unread \in 1..Sizes[link] /\ pos = Start[link + 1] - unread
<1>1. hcruheader # NoHeader /\ (unread = None => ~\A n \in link..LastLink : hcruheader[n] = 0)
  BY DEF NothingLeft
<1>2. /\ hcruheader = Sizes /\ link \in Link /\ unread \in (1..Sizes[link]) \cup {None}
      /\ pos \in Nat
      /\ pos = IF unread = None THEN Start[link] ELSE Start[link + 1] - unread
  BY <1>1 DEF Loop, Place
<1>3. /\ Start[link] \in Nat /\ Start[link + 1] \in Nat /\ Sizes[link] \in Nat
      /\ Start[link + 1] = Start[link] + Sizes[link]
      /\ HeaderSize <= Start[link] /\ Start[link + 1] <= End /\ Start[link] <= End
      /\ End \in Nat /\ HeaderSize \in Nat
  BY <1>2, Layout, Ending
<1>4. CASE unread = None
  <2>1. link \in 0..LastLink + 1
    BY <1>2, Layout
  <2>2. Start[link] # End
    BY <1>1, <1>2, <1>4, <2>1, Tight
  <2> QED BY <1>2, <1>3, <1>4, <2>2
<1>5. CASE unread # None
  BY <1>2, <1>3, <1>5
<1> QED BY <1>4, <1>5

(* A link has ended where the next one starts, or nothing was left anyway. *)
LEMMA AfterLink ==
    ASSUME payload \in Payload, Laid, payload' = payload,
           NEW h \in [Link -> Nat], NEW l \in Link, EndLink(h, l),
           pc' \notin {"fee", "astray"},
           \/ h = Sizes /\ pos' = Start[l + 1]
           \/ (\A n \in l..LastLink : h[n] = 0) /\ pos' \in {0, End, Total}
    PROVE  Place'
<1>0. Sizes' = Sizes /\ Start' = Start /\ End' = End /\ Total' = Total
  BY DEF Sizes, data, Start, End, Total
<1>1. LastLink \in Nat /\ l \in 0..LastLink
  BY Layout DEF Link
<1>2. CASE l < LastLink
  <2>1. hcruheader' = h /\ link' = l + 1 /\ unread' = None
    BY <1>2 DEF EndLink
  <2>2. h # NoHeader
    BY <1>1 DEF NoHeader, Link
  <2>3. NothingLeft' <=> \A n \in l + 1..LastLink : h[n] = 0
    BY <2>1, <2>2 DEF NothingLeft
  <2>4. CASE h = Sizes /\ pos' = Start[l + 1]
    <3>1. l + 1 \in 0..LastLink + 1
      BY <1>1
    <3>2. NothingLeft' <=> Start[l + 1] = End
      BY <2>3, <2>4, <3>1, Tight
    <3> QED BY <1>0, <2>1, <2>4, <3>2 DEF Place
  <2>5. CASE (\A n \in l..LastLink : h[n] = 0) /\ pos' \in {0, End, Total}
    <3>1. \A n \in l + 1..LastLink : n \in l..LastLink
      BY <1>1
    <3>2. NothingLeft'
      BY <2>3, <2>5, <3>1
    <3> QED BY <1>0, <2>5, <3>2 DEF Place
  <2> QED BY <2>4, <2>5
<1>3. CASE ~(l < LastLink)
  <2>1. hcruheader' = NoHeader /\ l = LastLink
    BY <1>1, <1>3 DEF EndLink
  <2>2. NothingLeft'
    BY <2>1 DEF NothingLeft
  <2>3. pos' \in {0, End, Total}
    <3>1. CASE h = Sizes /\ pos' = Start[l + 1]
      BY <2>1, <3>1 DEF End
    <3> QED BY <3>1
  <2> QED BY <1>0, <2>2, <2>3 DEF Place
<1> QED BY <1>2, <1>3

(* No step loses the place.                                                *)
LEMMA PlaceStep ==
    ASSUME payload \in Payload, Laid, Loop, Pages, Place, [Next]_vars
    PROVE  Place'
<1>0. /\ {pos, page, maxpos, feemax, readsize} \subseteq Nat
      /\ PageSize \in Nat /\ HeaderSize \in Nat /\ PageSize > HeaderSize /\ HeaderSize > 1
      /\ End \in Nat /\ Total \in {End, End + 1} /\ HeaderSize <= End
  BY Ending, LayoutAssumption DEF Loop
<1>1. CASE ~Tf' \/ swallowed'
  BY <1>1 DEF Place
<1>2. CASE Tf' /\ ~swallowed'
  <2>1. Tf /\ ~swallowed
    <3>1. CASE NewData
      <4>1. PICK x : NewPayload(x) \/ Process(x) \/ ReadSubevent(x)
        BY <3>1 DEF NewData
      <4>2. UNCHANGED <<reader, swallowed>>
        BY <4>1 DEF NewPayload, Process, ReadSubevent, Subevent
      <4> QED BY <1>2, <4>2 DEF Tf
    <3>2. CASE Padding
      <4>1. reader' = reader /\ swallowed' = (swallowed \/ Owner(pos) # {})
        BY <3>2 DEF Padding, filevars
      <4> QED BY <1>2, <4>1 DEF Tf
    <3>3. CASE UNCHANGED <<reader, swallowed>>
      BY <1>2, <3>3 DEF Tf
    <3>4. CASE NextPage \/ PageDone \/ Astray \/ CallFeeParser \/ EmptyLink \/ FeeDword
               \/ FeeReturn \/ SubeventDone \/ UNCHANGED vars
      BY <3>3, <3>4 DEF NextPage, PageDone, Astray, CallFeeParser, EmptyLink, FeeDword,
                        FeeReturn, SubeventDone, filevars, vars
    <3> QED BY <3>1, <3>2, <3>4 DEF Next, Read
  <2>2. CASE NewData
    <3>1. PICK x \in Intact \cup Damaged : NewPayload(x)
      BY <2>1, <2>2 DEF NewData, Process, ReadSubevent, Tf
    <3>2. pos' = 0 /\ pc' = "cru" /\ pos = Total /\ pc = "file" /\ UNCHANGED cruvars
      BY <2>2, <3>1 DEF NewData, NewPayload
    <3>3. NothingLeft
      BY <1>0, <2>1, <3>2, AtData
    <3>4. NothingLeft'
      BY <3>2, <3>3 DEF NothingLeft, cruvars
    <3> QED BY <3>2, <3>4 DEF Place
  <2>3. ASSUME payload' = payload, UNCHANGED <<cruvars, pos>>,
               pc # "fee", pc' \notin {"fee", "astray"}
        PROVE  Place'
    <3>1. Sizes' = Sizes /\ Start' = Start /\ End' = End /\ Total' = Total
          /\ NothingLeft' = NothingLeft
      BY <2>3 DEF Sizes, data, Start, End, Total, NothingLeft, cruvars
    <3> QED BY <2>1, <2>3, <3>1 DEF Place, cruvars
  <2>4. CASE NextPage \/ PageDone
    BY <2>3, <2>4 DEF NextPage, PageDone, filevars
  <2>5. pc = "cru" =>
           /\ page # 0 /\ maxpos <= Total /\ maxpos > 1
    <3>1. SUFFICES ASSUME pc = "cru"
                   PROVE  page # 0 /\ maxpos <= Total /\ maxpos > 1
      OBVIOUS
    <3>2. page # 0 /\ maxpos = Least(PageSize * page, Total)
      BY <2>1, <3>1 DEF Pages
    <3>3. PageSize * page >= PageSize /\ PageSize * page \in Nat
      BY <1>0, <3>2
    <3> QED BY <1>0, <3>2, <3>3 DEF Least
  <2>6. CASE Padding
    <3>1. /\ pc = "cru" /\ maxpos - pos = 1 /\ pos' = pos + 1 /\ Owner(pos) = {}
          /\ UNCHANGED <<cruvars, pc>> /\ payload' = payload
      BY <1>2, <2>6 DEF Padding, filevars
    <3>2. NothingLeft
      BY <2>1, <3>1, AtData, Covered
    <3>3. pos \in {0, End, Total}
      BY <2>1, <3>1, <3>2 DEF Place
    <3>4. pos' = Total
      BY <1>0, <2>5, <3>1, <3>3
    <3>5. Total' = Total /\ NothingLeft'
      BY <3>1, <3>2 DEF Total, NothingLeft, cruvars
    <3> QED BY <3>1, <3>4, <3>5 DEF Place
  <2>7. CASE Astray
    <3>1. Turn /\ AtHeader /\ pos # 0 /\ pc = "cru" /\ maxpos - pos > 1
      BY <2>7 DEF Astray, Turn
    <3>2. pos \in {End, Total}
      BY <2>1, <3>1 DEF Place, NothingLeft, AtHeader
    <3> QED BY <1>0, <2>5, <3>1, <3>2
  <2>8. CASE CallFeeParser
    <3>1. /\ Turn /\ (AtHeader => pos = 0) /\ TurnUnread > 0
          /\ hcruheader' = TurnHeader /\ link' = TurnLink /\ unread' = TurnUnread
          /\ readsize' = ReadSize /\ feemax' = TurnPos + ReadSize
          /\ pc' = "fee" /\ pc = "cru" /\ payload' = payload
      BY <2>8 DEF CallFeeParser, Turn, filevars
    <3>2. Sizes' = Sizes /\ Start' = Start
      BY <3>1 DEF Sizes, data, Start
    <3>3. ReadSize \in 1..TurnUnread /\ TurnPos \in Nat /\ TurnUnread \in Nat
      <4>1. TurnHeader[TurnLink] \in Nat
        BY <3>1, TurnIs
      <4> QED BY <3>1, <4>1, TurnIs, ReadSizeIs
    <3>4. feemax' - readsize' = TurnPos
      BY <3>1, <3>3
    <3>5. TurnHeader = Sizes /\ TurnPos = Start[TurnLink + 1] - TurnUnread
      <4>1. CASE AtHeader
        <5>1. TurnHeader = Sizes /\ TurnLink = 0 /\ TurnPos = HeaderSize
              /\ TurnUnread = Sizes[0] /\ 0 \in Link
          BY <1>0, <3>1, <4>1, TurnIs
        <5>2. Start[0 + 1] = HeaderSize + Sizes[0] /\ Sizes[0] \in Nat
          BY <5>1, Layout
        <5> QED BY <1>0, <5>1, <5>2
      <4>2. CASE ~AtHeader
        <5>1. /\ TurnHeader = hcruheader /\ TurnLink = link /\ TurnPos = pos /\ link \in Link
              /\ TurnUnread = IF unread = None THEN hcruheader[link] ELSE unread
          BY <3>1, <4>2, TurnIs
        <5>2. link \in link..LastLink
          BY <5>1, Layout DEF Link
        <5>3. ~NothingLeft
          BY <3>1, <4>2, <5>1, <5>2 DEF NothingLeft, AtHeader
        <5>4. /\ hcruheader = Sizes
              /\ unread = None => pos = Start[link]
              /\ unread # None => pos = Start[link + 1] - unread
          BY <2>1, <3>1, <5>3, AtData
        <5>5. Start[link + 1] = Start[link] + Sizes[link] /\ Sizes[link] \in Nat
              /\ Start[link] \in Nat
          BY <5>1, Layout
        <5> QED BY <5>1, <5>4, <5>5
      <4> QED BY <4>1, <4>2
    <3> QED BY <3>1, <3>2, <3>4, <3>5 DEF Place
  <2>9. CASE EmptyLink
    <3>1. /\ Turn /\ (AtHeader => pos = 0) /\ TurnUnread = 0 /\ pos' = TurnPos
          /\ EndLink(TurnHeader, TurnLink) /\ pc = "cru" /\ pc' = pc /\ payload' = payload
      BY <2>9 DEF EmptyLink, Turn, filevars
    <3>2. TurnHeader \in [Link -> Nat] /\ TurnLink \in Link
      BY <3>1, TurnIs
    <3>3. \/ TurnHeader = Sizes /\ pos' = Start[TurnLink + 1]
          \/ (\A n \in TurnLink..LastLink : TurnHeader[n] = 0) /\ pos' \in {0, End, Total}
      <4>1. CASE AtHeader
        <5>1. TurnHeader = Sizes /\ TurnLink = 0 /\ TurnPos = HeaderSize
              /\ Sizes[0] = 0 /\ 0 \in Link
          BY <1>0, <3>1, <4>1, TurnIs
        <5>2. Start[0 + 1] = HeaderSize + Sizes[0]
          BY <5>1, Layout
        <5> QED BY <1>0, <3>1, <5>1, <5>2
      <4>2. CASE ~AtHeader
        <5>1. /\ TurnHeader = hcruheader /\ TurnLink = link /\ TurnPos = pos /\ link \in Link
              /\ 0 = IF unread = None THEN hcruheader[link] ELSE unread
          BY <3>1, <3>2, <4>2, TurnIs
        <5>2. unread = None /\ hcruheader[link] = 0
          <6>1. unread # None => unread \in 1..hcruheader[link]
            BY <4>2 DEF Loop, AtHeader
          <6>2. 0 \notin 1..hcruheader[link]
            BY <3>2, <5>1
          <6> QED BY <5>1, <6>1, <6>2
        <5>3. CASE NothingLeft
          <6>1. pos \in {0, End, Total}
            BY <2>1, <3>1, <5>3 DEF Place
          <6>2. \A n \in link..LastLink : hcruheader[n] = 0
            BY <4>2, <5>3 DEF NothingLeft, AtHeader
          <6> QED BY <3>1, <5>1, <6>1, <6>2
        <5>4. CASE ~NothingLeft
          <6>1. hcruheader = Sizes /\ pos = Start[link]
            BY <2>1, <3>1, <5>2, <5>4, AtData
          <6>2. Start[link + 1] = Start[link] + Sizes[link] /\ Start[link] \in Nat
            BY <5>1, Layout
          <6> QED BY <3>1, <5>1, <5>2, <6>1, <6>2
        <5> QED BY <5>3, <5>4
      <4> QED BY <4>1, <4>2
    <3> QED BY <3>1, <3>2, <3>3, AfterLink
  <2>10. CASE FeeDword
    <3>1. pc = "fee" /\ pc' = "fee" /\ UNCHANGED <<cruvars, readsize, feemax>> /\ payload' = payload
      BY <2>10 DEF FeeDword, filevars
    <3>2. Sizes' = Sizes /\ Start' = Start
      BY <3>1 DEF Sizes, data, Start
    <3> QED BY <2>1, <3>1, <3>2 DEF Place, cruvars
  <2>11. CASE FeeReturn
    <3>1. /\ pc = "fee" /\ pos = feemax /\ pc' = "cru" /\ pos' = pos /\ payload' = payload
      BY <2>11 DEF FeeReturn, filevars
    <3>2. /\ hcruheader = Sizes /\ link \in Link /\ unread \in 1..Sizes[link]
          /\ readsize \in 1..unread /\ feemax - readsize = Start[link + 1] - unread
      BY <2>1, <3>1 DEF Place, Loop
    <3>3. Start[link + 1] \in Nat /\ Sizes[link] \in Nat /\ Sizes \in [Link -> Nat]
      BY <3>2, Layout
    <3>4. CASE unread = readsize
      <4>1. EndLink(hcruheader, link)
        BY <2>11, <3>4 DEF FeeReturn
      <4>2. pos' = Start[link + 1]
        BY <1>0, <3>1, <3>2, <3>3, <3>4
      <4>3. hcruheader \in [Link -> Nat] /\ pc' \notin {"fee", "astray"}
        BY <3>1, <3>2, <3>3
      <4> QED BY <3>1, <3>2, <4>1, <4>2, <4>3, AfterLink
    <3>5. CASE unread # readsize
      <4>1. unread' = unread - readsize /\ UNCHANGED <<hcruheader, link>>
        BY <2>11, <3>5 DEF FeeReturn
      <4>2. unread' \in 1..Sizes[link] /\ pos' = Start[link + 1] - unread'
        BY <1>0, <3>1, <3>2, <3>3, <3>5, <4>1
      <4>3. Sizes' = Sizes /\ Start' = Start
        BY <3>1 DEF Sizes, data, Start
      <4>4. Sizes # NoHeader /\ unread' # None
        <5>1. unread' \in Nat
          BY <3>3, <4>2
        <5>2. unread' # None
          BY <5>1 DEF None
        <5> QED BY <5>2, <3>2, <3>3 DEF NoHeader
      <4>5. ~NothingLeft'
        BY <3>2, <4>1, <4>4 DEF NothingLeft
      <4> QED BY <3>1, <3>2, <4>1, <4>2, <4>3, <4>4, <4>5 DEF Place
    <3> QED BY <3>4, <3>5
  <2>12. CASE SubeventDone
    BY <2>1, <2>12 DEF SubeventDone, Tf
  <2>13. CASE UNCHANGED vars
    <3>1. UNCHANGED <<payload, cruvars, pos, pc, readsize, feemax>>
      BY <2>13 DEF vars, filevars
    <3>2. Sizes' = Sizes /\ Start' = Start /\ End' = End /\ Total' = Total
          /\ NothingLeft' = NothingLeft
      BY <3>1 DEF Sizes, data, Start, End, Total, NothingLeft, cruvars
    <3> QED BY <2>1, <3>1, <3>2 DEF Place, cruvars
  <2> QED BY <2>2, <2>4, <2>6, <2>7, <2>8, <2>9, <2>10, <2>11, <2>12, <2>13 DEF Next, Read
<1> QED BY <1>1, <1>2

PlaceInv == ReaderInv /\ Laid /\ Loop /\ Pages /\ Place

(* Before the first payload nothing is left.                               *)
LEMMA PlaceInit == Init => PlaceInv
<1> SUFFICES ASSUME Init PROVE PlaceInv
  OBVIOUS
<1>1. ReaderInv
  BY ReaderInit
<1>2. Laid
  <2>1. \A n \in Link : Start[n] = HeaderSize /\ Start[n + 1] = HeaderSize /\ data[n] = <<>>
    BY LayoutAssumption DEF Init, Start, data, Link
  <2>2. Start[0] = HeaderSize
    BY LayoutAssumption DEF Init, Start
  <2> QED BY <2>1, <2>2, LayoutAssumption DEF Laid
<1>3. Total \in Nat /\ pos = Total /\ maxpos = Total
  BY <1>1, <1>2, Ending DEF Init, ReaderInv
<1>4. Loop
  <2>1. /\ reader \in {"tf", "o32", "bin"} /\ units = 0 /\ page = 0 /\ pc = "file"
        /\ hcruheader = NoHeader /\ link = None /\ unread = None
        /\ readsize = 0 /\ feemax = 0
        /\ intact = TRUE /\ first = TRUE /\ swallowed = FALSE
    BY DEF Init
  <2>2. 0 \in 0..MaxUnits /\ {pos, page, maxpos, feemax, readsize} \subseteq Nat
    BY <1>3, <2>1, LayoutAssumption
  <2> QED BY <2>1, <2>2 DEF Loop
<1>5. Pages
  BY <1>3 DEF Init, Pages, Tf
<1>6. Place
  BY <1>3 DEF Init, Place, NothingLeft
<1> QED BY <1>1, <1>2, <1>4, <1>5, <1>6 DEF PlaceInv

(* The parser and its place are kept together.                             *)
LEMMA PlaceInvariant == Spec => []PlaceInv
<1>1. PlaceInv /\ [Next]_vars => PlaceInv'
  <2> SUFFICES ASSUME PlaceInv, [Next]_vars PROVE PlaceInv'
    OBVIOUS
  <2>1. ReaderInv /\ payload \in Payload /\ Laid /\ Loop /\ Pages /\ Place
    BY DEF PlaceInv, ReaderInv
  <2>2. ReaderInv' /\ payload' \in Payload
    <3>1. ReaderInv'
      BY <2>1, ReaderStep
    <3> QED BY <3>1 DEF ReaderInv
  <2>3. Laid'
    BY <2>1, LaidStep
  <2>4. Loop'
    BY <2>1, <2>2, <2>3, LoopStep
  <2>5. Pages'
    BY <2>1, <2>2, <2>3, PagesStep
  <2>6. Place'
    BY <2>1, PlaceStep
  <2> QED BY <2>2, <2>3, <2>4, <2>5, <2>6 DEF PlaceInv
<1> QED BY <1>1, PlaceInit, PTL DEF Spec

(* The type invariant: the link that is read is one of 0..LastLink and     *)
(* what is left of it no negative number (trdfeeparser.py:606-657).        *)
THEOREM TypeCorrect == Spec => []TypeOK
<1>1. PlaceInv => TypeOK
  <2> SUFFICES ASSUME PlaceInv PROVE TypeOK
    OBVIOUS
  <2>1. FeeTypeOK /\ payload \in Payload /\ Loop
    BY DEF PlaceInv, ReaderInv, FeeInv
  <2>2. /\ hcruheader \in [Link -> Nat] \cup {NoHeader} /\ link \in Link \cup {None}
        /\ unread \in Nat \cup {None}
    <3>1. CASE hcruheader = NoHeader /\ link = None /\ unread = None
      BY <3>1
    <3>2. CASE hcruheader \in [Link -> Nat] /\ link \in Link
               /\ unread \in (1..hcruheader[link]) \cup {None}
      <4>1. hcruheader[link] \in Nat
        BY <3>2
      <4> QED BY <3>2, <4>1
    <3> QED BY <2>1, <3>1, <3>2 DEF Loop
  <2> QED BY <2>1, <2>2 DEF Loop, TypeOK
<1> QED BY <1>1, PlaceInvariant, PTL

(* Division by a number that is not known.                                 *)
LEMMA Dividing ==
    ASSUME NEW P \in Nat \ {0}, NEW q \in Nat, NEW r \in 0..P - 1
    PROVE  (P * q + r) \div P = q /\ (P * q + r) % P = r
OBVIOUS

(* What is read of the file up to a position in the q + 1st page.          *)
LEMMA OffsetIs ==
    ASSUME NEW n, Start[n] \in Nat, NEW q \in Nat, NEW r \in 0..PageSize - 1,
           Start[n] = PageSize * q + r
    PROVE  Offset(n) = Start[n] + RdhSize * (q + 1)
<1>1. PageSize \in Nat \ {0} /\ RdhSize \in Nat
  BY LayoutAssumption
<1>2. Start[n] \div PageSize = q /\ Start[n] % PageSize = r
  BY <1>1, Dividing
<1>3. Offset(n) = (PageSize + RdhSize) * q + RdhSize + r
  BY <1>2 DEF Offset
<1>4. /\ (PageSize + RdhSize) * q = PageSize * q + RdhSize * q
      /\ RdhSize * (q + 1) = RdhSize * q + RdhSize
      /\ PageSize * q \in Nat /\ RdhSize * q \in Nat
  BY <1>1
<1> QED BY <1>1, <1>3, <1>4

(* TrdCruParser keeps its place: each call of feeparser.read covers data   *)
(* of the current link only and goes on where the last one stopped, a      *)
(* header is read only where there is one, and each link starts where      *)
(* TrdHalfCruHeader.offset says it does, for every layout of links over    *)
(* pages, as long as no data were taken for padding                        *)
(* (trdfeeparser.py:555-569, 606-657).                                     *)
THEOREM ReaderKeepsPlace == Spec => []InPlace
<1>1. PlaceInv => InPlace
  <2> SUFFICES ASSUME PlaceInv, Tf, ~swallowed
               PROVE  /\ pc # "astray"
                      /\ pc = "fee" =>
                             /\ feemax - readsize = Start[link] + Len(data[link]) - unread
                             /\ feemax <= Start[link + 1] /\ feemax <= maxpos
                      /\ pc # "fee" /\ ~NothingLeft =>
                             pos = Start[link]
                                   + IF unread = None THEN 0 ELSE Len(data[link]) - unread
                      /\ pc # "fee" /\ NothingLeft => pos \in {0, Start[LastLink + 1], Total}
                      /\ pc = "fee" /\ pos = feemax - readsize /\ unread = Len(data[link])
                             => Tell = Offset(link)
    BY DEF InPlace, Tf
  <2>1. payload \in Payload /\ Laid /\ Loop /\ Pages /\ Place
    BY DEF PlaceInv, ReaderInv
  <2>2. pc # "astray" /\ (pc # "fee" /\ NothingLeft => pos \in {0, Start[LastLink + 1], Total})
    BY <2>1 DEF Place, End
  <2>3. ASSUME pc # "fee", ~NothingLeft
        PROVE  pos = Start[link] + IF unread = None THEN 0 ELSE Len(data[link]) - unread
    <3>1. /\ link \in Link
          /\ unread = None => pos = Start[link]
          /\ unread # None => unread \in 1..Sizes[link] /\ pos = Start[link + 1] - unread
      BY <2>1, <2>3, AtData
    <3>2. Start[link + 1] = Start[link] + Len(data[link]) /\ Start[link] \in Nat
          /\ Len(data[link]) \in Nat /\ Sizes[link] = Len(data[link])
      BY <2>1, <3>1, Layout
    <3> QED BY <3>1, <3>2
  <2>4. ASSUME pc = "fee"
        PROVE  /\ feemax - readsize = Start[link] + Len(data[link]) - unread
               /\ feemax <= Start[link + 1] /\ feemax <= maxpos
               /\ pos = feemax - readsize /\ unread = Len(data[link]) => Tell = Offset(link)
    <3>1. /\ hcruheader = Sizes /\ link \in Link /\ unread \in 1..Sizes[link]
          /\ readsize \in 1..unread /\ feemax - readsize = Start[link + 1] - unread
          /\ feemax \in Nat /\ pos \in Nat /\ page \in Nat /\ maxpos \in Nat
      BY <2>1, <2>4 DEF Place, Loop
    <3>2. Start[link + 1] = Start[link] + Len(data[link]) /\ Start[link] \in Nat
          /\ Len(data[link]) \in Nat /\ Sizes[link] = Len(data[link])
      BY <2>1, <3>1, Layout
    <3>3. page # 0 /\ feemax <= maxpos /\ maxpos = Least(PageSize * page, Total)
          /\ feemax - readsize >= PageSize * (page - 1)
      BY <2>1, <2>4 DEF Pages
    <3>4. ASSUME pos = feemax - readsize, unread = Len(data[link])
          PROVE  Tell = Offset(link)
      <4> DEFINE q == page - 1
                 r == pos - PageSize * (page - 1)
      <4>1. pos = Start[link]
        BY <3>1, <3>2, <3>4
      <4>2. q \in Nat /\ page = q + 1 /\ PageSize \in Nat /\ RdhSize \in Nat
        BY <3>1, <3>3, LayoutAssumption
      <4>3. PageSize * page = PageSize * q + PageSize /\ PageSize * q \in Nat
        BY <4>2
      <4>4. maxpos <= PageSize * page
        <5>1. Total \in Nat
          BY <2>1, Ending
        <5> DEFINE T == Total
                   U == PageSize * page
        <5>2. U \in Nat /\ T \in Nat /\ maxpos = Least(U, T)
          BY <3>3, <4>3, <4>2, <5>1
        <5> HIDE DEF T, U
        <5>3. maxpos <= U
          BY <5>2 DEF Least
        <5> QED BY <5>3 DEF U
      <4>5. r \in 0..PageSize - 1 /\ pos = PageSize * q + r
        BY <3>1, <3>3, <3>4, <4>2, <4>3, <4>4
      <4> HIDE DEF q, r
      <4>6. Offset(link) = Start[link] + RdhSize * (q + 1)
        BY <3>2, <4>1, <4>2, <4>5, OffsetIs
      <4> QED BY <4>1, <4>2, <4>6 DEF Tell
    <3> QED BY <3>1, <3>2, <3>3, <3>4
  <2> QED BY <2>2, <2>3, <2>4
<1> QED BY <1>1, PlaceInvariant, PTL

-----------------------------------------------------------------------------
(* The first link.  Which kinds of dword an entry is meant for.            *)
Fits(e, w) ==
    \/ e = AfterTracklet /\ w.k \in {"tmcm", "eot"}
    \/ e = AfterEot /\ w.k \in {"eot", "pad", "hc0"}
    \/ e = AfterAdc /\ w.k \in {"mcm", "eod"}
    \/ e = AfterEod /\ w.k \in {"eod", "pad"}
    \/ e = <<"pad">> /\ w.k = "pad"
    \/ e = <<"mcmhdr">> /\ w.k = "mcm"
    \/ e = <<"adcmask">> /\ w.k = "msk"
    \/ e = <<"trk">> /\ w.k = "trk"
    \/ e = <<"adc">> /\ w.k = "adc"
    \/ e = <<"digit">> /\ w.k = "adcl"
    \/ e = ExtraHeader /\ w.k \in {"hc1", "hc2", "hc3"}

Initial == <<"thc", "eot">>

(* The function that takes it is the one meant for it.                     *)
LEMMA FitsTaken ==
    ASSUME NEW e \in Entry, NEW w \in Word,
           Fits(e, w) \/ (e = Initial /\ w.k \in {"thc", "eot"})
    PROVE  /\ Matching(e, w) # {}
           /\ Chosen(e, w) \in Meant(w.k)
           /\ e # Initial => Chosen(e, w) # "thc"
           /\ e \in Open => Chosen(e, w) \in OpenFct
           /\ e \in Closed => Chosen(e, w) \in ClosedFct
<1> DEFINE g == Chosen(e, w)
<1>1. CASE e \in {<<"pad">>, <<"mcmhdr">>, <<"adcmask">>, <<"trk">>, <<"adc">>, <<"digit">>}
  <2>1. DOMAIN e = 1..1 /\ e[1] \in {"pad", "mcmhdr", "adcmask", "trk", "adc", "digit"}
        /\ e = <<e[1]>>
    BY <1>1
  <2>2. Accepts(e[1], w) /\ e[1] \in Meant(w.k)
    BY <1>1, <2>1 DEF Fits, Accepts, Meant, Initial, AfterTracklet, AfterEot, AfterAdc,
                      AfterEod, ExtraHeader
  <2>3. Matching(e, w) # {}
    BY <2>1, <2>2 DEF Matching
  <2>4. g = e[1]
    BY <2>1, <2>3, ChosenIsExpected
  <2> QED BY <2>1, <2>2, <2>3, <2>4, OpenChoice, ClosedChoice
<1>2. CASE e \in {AfterTracklet, AfterAdc, AfterEod, Initial}
  <2>1. DOMAIN e = 1..2 /\ e[1] # "find" /\ e[2] # "find"
    BY <1>2 DEF Initial, AfterTracklet, AfterAdc, AfterEod
  <2>2. /\ Accepts(e[1], w) \/ Accepts(e[2], w)
        /\ Accepts(e[1], w) => e[1] \in Meant(w.k)
        /\ Accepts(e[2], w) => e[2] \in Meant(w.k)
        /\ e # Initial => e[1] # "thc" /\ e[2] # "thc"
    BY <1>2 DEF Fits, Accepts, Meant, Initial, AfterTracklet, AfterEot, AfterAdc,
                AfterEod, ExtraHeader
  <2>3. Matching(e, w) # {}
    BY <2>1, <2>2 DEF Matching
  <2>4. PICK n \in 1..2 : Accepts(e[n], w) /\ g = e[n]
    BY <2>1, <2>3, ChosenIsExpected
  <2>5. n = 1 \/ n = 2
    BY <2>4
  <2> QED BY <2>1, <2>2, <2>3, <2>4, <2>5, OpenChoice, ClosedChoice
<1>3. CASE e \in {AfterEot, ExtraHeader}
  <2>1. DOMAIN e = 1..3 /\ e[1] # "find" /\ e[2] # "find" /\ e[3] # "find"
    BY <1>3 DEF AfterEot, ExtraHeader
  <2>2. CASE e = AfterEot
    <3>1. /\ Accepts(e[1], w) \/ Accepts(e[2], w) \/ Accepts(e[3], w)
          /\ \A n \in 1..3 : Accepts(e[n], w) => e[n] \in Meant(w.k) /\ e[n] # "thc"
      BY <1>3, <2>2 DEF Fits, Accepts, Meant, Initial, AfterTracklet, AfterEot, AfterAdc,
                  AfterEod, ExtraHeader
    <3>2. Matching(e, w) # {}
      BY <2>1, <3>1 DEF Matching
    <3>3. PICK n \in 1..3 : Accepts(e[n], w) /\ g = e[n]
      BY <2>1, <3>2, ChosenIsExpected
    <3> QED BY <3>1, <3>2, <3>3, OpenChoice, ClosedChoice
  <2>3. CASE e = ExtraHeader
    <3>1. e[1] = "hc3" /\ e[2] = "hc2" /\ e[3] = "hc1" /\ w.k \in {"hc1", "hc2", "hc3"}
      BY <2>3 DEF Fits, Initial, AfterTracklet, AfterEot, AfterAdc, AfterEod, ExtraHeader
    <3>2. /\ Accepts(e[1], w) <=> w.k = "hc3"
          /\ Accepts(e[2], w) <=> w.k = "hc2"
          /\ Accepts(e[3], w)
      BY <3>1 DEF Accepts
    <3>3. DOMAIN e = 1..3 /\ Matching(e, w) # {}
      BY <2>1, <3>2 DEF Matching
    <3>4. g \in Meant(w.k) /\ g # "thc"
      <4> DEFINE M == Matching(e, w)
                 First(n) == n \in M /\ \A j \in M : n <= j
      <4>1. M \subseteq 1..3 /\ 3 \in M /\ (1 \in M <=> w.k = "hc3") /\ (2 \in M <=> w.k = "hc2")
        BY <2>1, <3>2 DEF Matching
      <4>2. \E n \in M : \A j \in M : n <= j
        <5>1. CASE 1 \in M
          BY <5>1, <4>1
        <5>2. CASE 1 \notin M /\ 2 \in M
          BY <5>2, <4>1
        <5>3. CASE 1 \notin M /\ 2 \notin M
          BY <5>3, <4>1
        <5> QED BY <5>1, <5>2, <5>3
      <4>3. PICK n \in M : n = (CHOOSE k \in M : \A j \in M : k <= j) /\ \A j \in M : n <= j
        BY <4>2
      <4>4. g = e[n]
        <5>1. g = IF e[n] = "find" THEN Found(w) ELSE e[n]
          BY <4>3 DEF Chosen
        <5> QED BY <5>1, <2>1, <4>1
      <4>5. CASE w.k = "hc1"
        <5>1. n = 3
          BY <4>1, <4>3, <4>5
        <5> QED BY <5>1, <4>4, <3>1, <4>5 DEF Meant
      <4>6. CASE w.k = "hc2"
        <5>1. n = 2
          BY <4>1, <4>3, <4>6
        <5> QED BY <5>1, <4>4, <3>1, <4>6 DEF Meant
      <4>7. CASE w.k = "hc3"
        <5>1. n = 1
          BY <4>1, <4>3, <4>7
        <5> QED BY <5>1, <4>4, <3>1, <4>7 DEF Meant
      <4> QED BY <3>1, <4>5, <4>6, <4>7
    <3> QED BY <3>3, <3>4, OpenChoice, ClosedChoice
  <2> QED BY <1>3, <2>2, <2>3
<1> QED BY <1>1, <1>2, <1>3 DEF Fits

(* What is known of the context when n dwords of d have been parsed, and   *)
(* when an MCM is behind: it is that of the headers before it.             *)
ContextOf(d, n) ==
    /\ "hc0" \in ctx.set => \E h \in 1..n : d[h].k = "hc0" /\ ctx.zs = Suppressed(d[h])
    /\ "hc1" \in ctx.set => \E h \in 1..n : d[h].k = "hc1" /\ ctx.ntb = d[h].n
    /\ \A h \in 1..n : d[h].k \in {"hc0", "hc1"} => d[h].k \in ctx.set

HeadersOf(d, k) ==
    /\ \E h \in 1..k - 1 : d[h].k = "hc0" /\ ctx.zs = Suppressed(d[h])
    /\ \E h \in 1..k - 1 : d[h].k = "hc1" /\ ctx.ntb = d[h].n
    /\ "hc0" \in ctx.set /\ "hc1" \in ctx.set

InMcm == {"mcmhdr", "adcmask"}

(* d[k] has been taken by f, which leads on to the dwords behind it.       *)
Leading(d, k, f) ==
    /\ f \in OpenFct /\ f \in Meant(d[k].k)
    /\ f = "thc" => k = 1
    /\ f \in InMcm => HeadersOf(d, k)

LEMMA MeantOpen ==
    ASSUME NEW w \in Word, NEW f \in OpenFct, f \in Meant(w.k)
    PROVE  /\ f \in {"thc", "tmcm", "eot", "hc0", "mcmhdr", "adcmask", "eod", "pad"}
           /\ f = "thc" => w.k \in {"thc", "eot"}
           /\ f = "mcmhdr" => w.k = "mcm"
           /\ f = "adcmask" => w.k = "msk"
           /\ f \in {"tmcm", "eot", "hc0", "eod", "pad"} => w.k = f
           /\ w.k \in {"hc0"} => f = w.k
BY DEF Word, Kind, Meant, OpenFct, ClosedFct, Fct

(* What an entry stands in, the pieces of what a function appends.         *)
LEMMA AdcDataEntries ==
    ASSUME NEW n \in Nat, NEW ntb \in Nat
    PROVE  LET m == n * Dwords(ntb) IN
           /\ m \in Nat /\ Dwords(ntb) \in Nat
           /\ Len(AdcData(n, ntb)) = m + 1
           /\ \A j \in 1..m : AdcData(n, ntb)[j] =
                                IF j % Dwords(ntb) = 0 THEN <<"digit">> ELSE <<"adc">>
           /\ AdcData(n, ntb)[m + 1] = AfterAdc
<1> DEFINE D == Dwords(ntb)
           m == n * D
           E(j) == IF j % D = 0 THEN <<"digit">> ELSE <<"adc">>
           c == [j \in 1..m |-> E(j)]
<1>1. D \in Nat
  BY DEF Dwords
<1>2. m \in Nat
  BY <1>1
<1>3. AdcData(n, ntb) = c \o <<AfterAdc>>
  BY DEF AdcData
<1> HIDE DEF D, E
<1>4. c \in Seq({E(j) : j \in 1..m}) /\ Len(c) = m
  BY <1>2
<1>5. \A j \in 1..m : c[j] = E(j)
  OBVIOUS
<1> HIDE DEF c
<1>6. Len(c \o <<AfterAdc>>) = m + 1 /\ (c \o <<AfterAdc>>)[m + 1] = AfterAdc
      /\ \A j \in 1..m : (c \o <<AfterAdc>>)[j] = c[j]
  <2> DEFINE S == {E(j) : j \in 1..m} \cup {AfterAdc}
  <2>1. c \in Seq(S) /\ <<AfterAdc>> \in Seq(S)
    BY <1>4
  <2> HIDE DEF S, m
  <2> QED BY <1>2, <1>4, <2>1
<1> QED BY <1>1, <1>2, <1>3, <1>5, <1>6 DEF D, E

LEMMA ConstantThen ==
    ASSUME NEW n \in Nat, NEW e, NEW o
    PROVE  LET s == [i \in 1..n |-> e] \o <<o>> IN
           Len(s) = n + 1 /\ (\A j \in 1..n : s[j] = e) /\ s[n + 1] = o
<1> DEFINE c == [i \in 1..n |-> e]
<1>1. c \in Seq({e, o}) /\ Len(c) = n /\ (\A j \in 1..n : c[j] = e) /\ <<o>> \in Seq({e, o})
  OBVIOUS
<1> HIDE DEF c
<1>2. Len(c \o <<o>>) = n + 1 /\ (c \o <<o>>)[n + 1] = o /\ \A j \in 1..n : (c \o <<o>>)[j] = c[j]
  BY <1>1
<1> QED BY <1>1, <1>2 DEF c

ContextType == ctx \in [hc : Int, zs : BOOLEAN, ntb : Nat, set : SUBSET {"hc0", "hc1"}]

(* What a function meant for d[k] appends fits what is written behind it.  *)
LEMMA ChannelsFit ==
    ASSUME NEW CONSTANT d \in Seq(Word), NEW CONSTANT k \in DOMAIN d, NEW n \in Nat, NEW ntb \in Nat,
           ChannelsBehind(d, k, n, ntb),
           NEW j \in 1..Len(AdcData(n, ntb)), k + j \in DOMAIN d
    PROVE  /\ Fits(AdcData(n, ntb)[j], d[k + j])
           /\ j < Len(AdcData(n, ntb)) => d[k + j].k \in {"adc", "adcl"}
           /\ j = Len(AdcData(n, ntb)) => d[k + j].k \in {"mcm", "eod"}
<1> DEFINE m == n * Dwords(ntb)
           A == AdcData(n, ntb)
<1>1. /\ m \in Nat /\ Len(A) = m + 1 /\ A[m + 1] = AfterAdc
      /\ \A i \in 1..m : A[i] = IF i % Dwords(ntb) = 0 THEN <<"digit">> ELSE <<"adc">>
  BY AdcDataEntries
<1>2. /\ \A i \in 1..m : Stands(d, k + i, {IF i % Dwords(ntb) = 0 THEN "adcl" ELSE "adc"})
      /\ Stands(d, k + m + 1, {"mcm", "eod"})
  BY DEF ChannelsBehind
<1> HIDE DEF m, A
<1>3. CASE j \in 1..m
  <2>1. d[k + j].k = IF j % Dwords(ntb) = 0 THEN "adcl" ELSE "adc"
    BY <1>2, <1>3 DEF Stands
  <2>2. A[j] = IF j % Dwords(ntb) = 0 THEN <<"digit">> ELSE <<"adc">>
    BY <1>1, <1>3
  <2>3. Fits(A[j], d[k + j]) /\ d[k + j].k \in {"adc", "adcl"}
    BY <2>1, <2>2 DEF Fits
  <2>4. j # Len(A)
    BY <1>1, <1>3
  <2> QED BY <2>3, <2>4 DEF A
<1>4. CASE j = m + 1
  <2>1. k + j = k + m + 1
    BY <1>1, <1>4
  <2>2. d[k + j].k \in {"mcm", "eod"}
    BY <1>2, <2>1 DEF Stands
  <2>3. Fits(A[j], d[k + j])
    BY <1>1, <1>4, <2>2 DEF Fits
  <2> QED BY <1>1, <1>4, <2>2, <2>3 DEF A
<1>5. j \in 1..m \/ j = m + 1
  BY <1>1 DEF A
<1> QED BY <1>3, <1>4, <1>5

Suited(d, k, f, F, j) ==
    /\ Fits(F[j], d[k + j])
    /\ j < Len(F) /\ f \in InMcm => d[k + j].k \in {"adc", "adcl"}
    /\ j = Len(F) /\ d[k + j].k = "mcm" =>
           \/ f \in InMcm
           \/ f = "hc0" /\ \E i \in 1..j - 1 : d[k + i].k = "hc1"
    /\ j = Len(F) /\ d[k + j].k = "msk" => f \in InMcm

LEMMA FollowFits ==
    ASSUME NEW CONSTANT d \in Seq(Word), Written(d), NEW CONSTANT k \in DOMAIN d, NEW f, Leading(d, k, f),
           ContextType, NEW j \in 1..Len(Follow(f, d[k], ctx)), k + j \in DOMAIN d
    PROVE  Suited(d, k, f, Follow(f, d[k], ctx), j)
<1> DEFINE v == d[k]
           F == Follow(f, v, ctx)
           w == d[k + j]
<1> USE DEF Suited
<1>0. DOMAIN Leads = {"thc", "eot", "eod", "pad", "find", "skip"}
  BY DEF Leads
<1>1. /\ v \in Word /\ w \in Word /\ k \in 1..Len(d) /\ Len(d) \in Nat
      /\ f \in OpenFct /\ f \in Meant(v.k)
      /\ TrackletsWritten(d, k) /\ RawDataWritten(d, k)
      /\ v.n \in Nat /\ v.k \in Kind
  <2>1. k \in 1..Len(d) /\ Len(d) \in Nat /\ v \in Word /\ w \in Word
    OBVIOUS
  <2>2. v.n \in Nat /\ v.k \in Kind
    BY <2>1 DEF Word
  <2> QED BY <2>1, <2>2 DEF Leading, Written
<1>2. /\ f \in {"thc", "tmcm", "eot", "hc0", "mcmhdr", "adcmask", "eod", "pad"}
      /\ f = "thc" => v.k \in {"thc", "eot"}
      /\ f = "mcmhdr" => v.k = "mcm"
      /\ f = "adcmask" => v.k = "msk"
      /\ f \in {"tmcm", "eot", "hc0", "eod", "pad"} => v.k = f
  BY <1>1, MeantOpen
<1>3. CASE f \in {"thc", "eot", "eod", "pad"}
  <2>1. F = <<Leads[f]>>
    BY <1>0, <1>3 DEF Follow
  <2>2. Len(F) = 1 /\ F[1] = Leads[f] /\ j = 1
    BY <2>1
  <2>3. Fits(Leads[f], d[k + 1]) /\ d[k + 1].k \notin {"mcm", "msk"}
    <3>1. k + 1 \in DOMAIN d
      BY <2>2
    <3>2. CASE f = "thc"
      <4>1. d[k + 1].k \in {"tmcm", "eot"}
        <5>1. f = "thc" => k = 1
          BY DEF Leading
        <5> QED BY <1>1, <1>2, <3>1, <3>2, <5>1 DEF TrackletsWritten, Stands
      <4> QED BY <3>2, <4>1 DEF Leads, Fits
    <3>3. CASE f = "eot"
      <4>1. d[k + 1].k \in {"eot", "pad", "hc0"}
        BY <1>1, <1>2, <3>1, <3>3 DEF TrackletsWritten, Stands
      <4> QED BY <3>3, <4>1 DEF Leads, Fits
    <3>4. CASE f = "eod"
      <4>1. d[k + 1].k \in {"eod", "pad"}
        BY <1>1, <1>2, <3>1, <3>4 DEF RawDataWritten, Stands
      <4> QED BY <3>4, <4>1 DEF Leads, Fits
    <3>5. CASE f = "pad"
      <4>1. d[k + 1].k = "pad"
        BY <1>1, <1>2, <3>1, <3>5 DEF RawDataWritten, Stands
      <4> QED BY <3>5, <4>1 DEF Leads, Fits
    <3> QED BY <1>3, <3>2, <3>3, <3>4, <3>5
  <2> QED BY <1>3, <2>2, <2>3 DEF InMcm
<1>4. CASE f = "tmcm"
  <2>1. F = [i \in 1..v.n |-> <<"trk">>] \o <<AfterTracklet>>
    BY <1>0, <1>4 DEF Follow
  <2>2. Len(F) = v.n + 1 /\ (\A i \in 1..v.n : F[i] = <<"trk">>) /\ F[v.n + 1] = AfterTracklet
    BY <1>1, <2>1, ConstantThen
  <2>3. /\ \A i \in 1..v.n : Stands(d, k + i, {"trk"})
        /\ Stands(d, k + v.n + 1, {"tmcm", "eot"})
    BY <1>1, <1>2, <1>4 DEF TrackletsWritten
  <2> HIDE DEF F
  <2>4. CASE j \in 1..v.n
    <3>1. w.k = "trk" /\ F[j] = <<"trk">>
      BY <2>2, <2>3, <2>4 DEF Stands
    <3> QED BY <1>4, <3>1 DEF F, Fits, InMcm
  <2>5. CASE j = v.n + 1
    <3>1. k + j = k + v.n + 1
      BY <1>1, <2>5
    <3>2. w.k \in {"tmcm", "eot"} /\ F[j] = AfterTracklet
      BY <2>2, <2>3, <2>5, <3>1 DEF Stands
    <3> QED BY <1>4, <3>2 DEF F, Fits, InMcm
  <2> QED BY <1>1, <2>2, <2>4, <2>5 DEF F
<1>5. CASE f = "hc0"
  <2> DEFINE N == NHeaders(v)
  <2>1. F = [i \in 1..N |-> ExtraHeader] \o <<<<"mcmhdr">>>>
    BY <1>0, <1>5 DEF Follow, Headers
  <2>0. N \in Nat
    BY <1>1 DEF NHeaders
  <2>3. /\ \A i \in 1..N : Stands(d, k + i, {"hc1", "hc2", "hc3"})
        /\ k + N + 1 \in DOMAIN d =>
              d[k + N + 1].k = "mcm" /\ \E i \in 1..N : d[k + i].k = "hc1"
    BY <1>1, <1>2, <1>5 DEF RawDataWritten
  <2> HIDE DEF N
  <2>2. Len(F) = N + 1 /\ (\A i \in 1..N : F[i] = ExtraHeader) /\ F[N + 1] = <<"mcmhdr">>
    BY <2>0, <2>1, ConstantThen
  <2> HIDE DEF F
  <2>4. CASE j \in 1..N
    <3>1. w.k \in {"hc1", "hc2", "hc3"} /\ F[j] = ExtraHeader
      BY <2>2, <2>3, <2>4 DEF Stands
    <3> QED BY <1>5, <3>1 DEF F, Fits, InMcm
  <2>5. CASE j = N + 1
    <3>1. k + j = k + N + 1 /\ j - 1 = N
      BY <1>1, <2>0, <2>5
    <3>2. w.k = "mcm" /\ F[j] = <<"mcmhdr">> /\ \E i \in 1..j - 1 : d[k + i].k = "hc1"
      BY <2>2, <2>3, <2>5, <3>1
    <3> QED BY <1>5, <3>2 DEF F, Fits, InMcm
  <2> QED BY <2>0, <2>2, <2>4, <2>5 DEF F
<1>6. CASE f \in InMcm
  <2>1. PICK h \in 1..k - 1 : d[h].k = "hc0" /\ ctx.zs = Suppressed(d[h])
    BY <1>6 DEF Leading, HeadersOf
  <2>2. PICK t \in 1..k - 1 : d[t].k = "hc1" /\ ctx.ntb = d[t].n
    BY <1>6 DEF Leading, HeadersOf
  <2>3. h \in Earlier(d, k, "hc0") /\ t \in Earlier(d, k, "hc1") /\ d[t].n \in Nat
    <3>1. \A i \in 1..k - 1 : i \in DOMAIN d /\ i < k
      BY <1>1
    <3>2. d[t] \in Word
      BY <2>2, <3>1
    <3> QED BY <2>1, <2>2, <3>1, <3>2 DEF Earlier, Word
  <2>4. CASE f = "mcmhdr" /\ ctx.zs
    <3>1. F = <<<<"adcmask">>>>
      BY <1>0, <2>4 DEF Follow
    <3>2. Len(F) = 1 /\ F[1] = <<"adcmask">> /\ j = 1
      BY <3>1
    <3>3. w.k = "msk"
      BY <1>1, <1>2, <2>1, <2>3, <2>4, <3>2 DEF RawDataWritten, Stands
    <3> QED BY <1>6, <3>2, <3>3 DEF Fits
  <2>5. CASE f = "mcmhdr" /\ ~ctx.zs
    <3>1. F = AdcData(NChannels, ctx.ntb)
      BY <1>0, <2>5 DEF Follow
    <3>2. ChannelsBehind(d, k, NChannels, ctx.ntb)
      BY <1>1, <1>2, <2>1, <2>2, <2>3, <2>5 DEF RawDataWritten
    <3>3. ctx.ntb \in Nat /\ NChannels \in Nat
      BY <2>2, <2>3, ChannelAssumption
    <3>4. /\ Fits(F[j], w)
          /\ j < Len(F) => w.k \in {"adc", "adcl"}
      BY <3>1, <3>2, <3>3, ChannelsFit
    <3> QED BY <1>6, <3>4
  <2>6. CASE f = "adcmask"
    <3>1. F = AdcData(v.n, ctx.ntb)
      BY <1>0, <2>6 DEF Follow
    <3>2. ChannelsBehind(d, k, v.n, ctx.ntb)
      BY <1>1, <1>2, <2>2, <2>3, <2>6 DEF RawDataWritten
    <3>3. ctx.ntb \in Nat
      BY <2>2, <2>3
    <3>4. /\ Fits(F[j], w)
          /\ j < Len(F) => w.k \in {"adc", "adcl"}
      BY <1>1, <3>1, <3>2, <3>3, ChannelsFit
    <3> QED BY <1>6, <3>4
  <2> QED BY <1>6, <2>4, <2>5, <2>6 DEF InMcm
<1>7. Suited(d, k, f, F, j)
  BY <1>2, <1>3, <1>4, <1>5, <1>6 DEF InMcm
<1> QED BY <1>7

(* n dwords of d have been parsed: the list begins within what the last    *)
(* function that leads on has appended.                                    *)
Within(d, n, k, f) ==
    LET F == Follow(f, d[k], ctx) IN
    /\ Leading(d, k, f) /\ n - k + 1 \in 1..Len(F)
    /\ readlist = SubSeq(F, n - k + 1, Len(F))

Parsed(d, n) ==
    /\ ContextOf(d, n)
    /\ IF n = 0 THEN readlist = <<Initial>>
       ELSE \E k \in 1..n, f \in OpenFct : Within(d, n, k, f)

(* Popping the list when n dwords have been parsed: an entry that fits the *)
(* next one, with others behind it or none.                                *)
LEMMA NextExpected ==
    ASSUME NEW CONSTANT d \in Seq(Word), Written(d), NEW CONSTANT n \in Nat, n < Len(d),
           ContextType, Parsed(d, n)
    PROVE  LET e == Head(readlist)
               w == d[n + 1]
           IN  /\ readlist \in Seq(Entry) /\ readlist # <<>> /\ e \in Entry
               /\ Fits(e, w) \/ (e = Initial /\ w.k \in {"thc", "eot"})
               /\ n # 0 => e # Initial
               /\ \/ /\ e \in Open /\ Tail(readlist) = <<>>
                     /\ w.k \in {"mcm", "msk"} => "hc0" \in ctx.set /\ "hc1" \in ctx.set
                  \/ /\ e \in Closed
                     /\ \E k \in 1..n, f \in OpenFct :
                            LET F == Follow(f, d[k], ctx) IN
                            /\ Leading(d, k, f) /\ n - k + 2 \in 1..Len(F)
                            /\ Tail(readlist) = SubSeq(F, n - k + 2, Len(F))
                            /\ f \in InMcm => w.k \in {"adc", "adcl"}
<1> DEFINE e == Head(readlist)
           w == d[n + 1]
<1>0. n + 1 \in DOMAIN d /\ w \in Word
  OBVIOUS
<1>1. CASE n = 0
  <2>1. readlist = <<Initial>>
    BY <1>1 DEF Parsed
  <2>2. e = Initial /\ Initial \in Open /\ Tail(readlist) = <<>> /\ readlist # <<>>
    BY <2>1 DEF Initial, Open
  <2>3. w.k \in {"thc", "eot"}
    BY <1>0, <1>1 DEF Written, Stands
  <2>4. readlist \in Seq(Entry) /\ e \in Entry
    BY <2>1, <2>2 DEF Entry
  <2> QED BY <1>1, <2>2, <2>3, <2>4
<1>2. CASE n # 0
  <2>1. PICK k \in 1..n, f \in OpenFct : Within(d, n, k, f)
    BY <1>2 DEF Parsed
  <2>2. LET F == Follow(f, d[k], ctx) IN
        /\ Leading(d, k, f) /\ n - k + 1 \in 1..Len(F)
        /\ readlist = SubSeq(F, n - k + 1, Len(F))
    BY <2>1 DEF Within
  <2> DEFINE F == Follow(f, d[k], ctx)
             j == n - k + 1
  <2>3. k \in DOMAIN d /\ d[k] \in Word /\ k + j = n + 1 /\ j \in 1..Len(F) /\ n - k + 2 = j + 1
        /\ k < n + 1
    BY <2>2
  <2>4. Shaped(F)
    BY <2>3, FollowShaped DEF ContextType
  <2>5. /\ Fits(F[j], w)
        /\ j < Len(F) /\ f \in InMcm => w.k \in {"adc", "adcl"}
        /\ j = Len(F) /\ w.k = "mcm" =>
               f \in InMcm \/ (f = "hc0" /\ \E i \in 1..j - 1 : d[k + i].k = "hc1")
        /\ j = Len(F) /\ w.k = "msk" => f \in InMcm
    <3>1. k + j \in DOMAIN d /\ w = d[k + j] /\ j \in 1..Len(Follow(f, d[k], ctx))
          /\ Leading(d, k, f) /\ k \in DOMAIN d
      BY <1>0, <2>2, <2>3
    <3> HIDE DEF w, j
    <3>2. Suited(d, k, f, Follow(f, d[k], ctx), j)
      BY <3>1, FollowFits
    <3> QED BY <3>1, <3>2 DEF Suited
  <2>6. Leading(d, k, f) /\ readlist = SubSeq(F, j, Len(F))
    BY <2>2
  <2> HIDE DEF F, j
  <2>7. /\ F \in Seq(Entry) /\ Len(F) \in Nat /\ F[Len(F)] \in Open
        /\ \A i \in 1..Len(F) - 1 : F[i] \in Closed
    BY <2>4 DEF Shaped
  <2>8. /\ readlist \in Seq(Entry) /\ Len(readlist) = Len(F) - j + 1 /\ readlist # <<>>
        /\ \A i \in 1..Len(readlist) : readlist[i] = F[j + i - 1]
    <3>1. j \in Nat /\ j >= 1 /\ j <= Len(F)
      BY <2>3, <2>7
    <3>2. SubSeq(F, j, Len(F)) \in Seq(Entry) /\ Len(SubSeq(F, j, Len(F))) = Len(F) - j + 1
          /\ \A i \in 1..Len(F) - j + 1 : SubSeq(F, j, Len(F))[i] = F[j + i - 1]
      BY <2>7, <3>1
    <3>3. readlist \in Seq(Entry) /\ Len(readlist) = Len(F) - j + 1
          /\ \A i \in 1..Len(F) - j + 1 : readlist[i] = F[j + i - 1]
      BY <2>6, <3>2
    <3>4. Len(readlist) # 0
      BY <2>7, <3>1, <3>3
    <3> QED BY <3>3, <3>4
  <2>9. e = F[j] /\ e \in Entry
    <3>1. e = readlist[1] /\ e \in Entry /\ Len(readlist) \in Nat \ {0}
      BY <2>8
    <3>2. 1 \in 1..Len(readlist)
      BY <3>1
    <3>3. readlist[1] = F[j + 1 - 1] /\ j + 1 - 1 = j
      BY <2>3, <2>7, <2>8, <3>2
    <3> QED BY <3>1, <3>3
  <2>10. e # Initial
    BY <2>5, <2>9 DEF Fits, Initial, AfterTracklet, AfterEot, AfterAdc, AfterEod, ExtraHeader
  <2>11. CASE j = Len(F)
    <3>1. Tail(readlist) = <<>>
      <4>1. Len(readlist) = 1 /\ readlist # <<>> /\ readlist \in Seq(Entry)
        BY <2>7, <2>8, <2>11
      <4>2. Tail(readlist) \in Seq(Entry) /\ Len(Tail(readlist)) = Len(readlist) - 1
        BY <4>1, Popped
      <4> DEFINE t == Tail(readlist)
      <4>3. t \in Seq(Entry) /\ Len(t) = 0
        BY <4>1, <4>2
      <4> HIDE DEF t
      <4>4. t = <<>>
        BY <4>3
      <4> QED BY <4>4 DEF t
    <3>2. ASSUME w.k \in {"mcm", "msk"}
          PROVE  "hc0" \in ctx.set /\ "hc1" \in ctx.set
      <4>1. CASE f \in InMcm
        BY <2>6, <4>1 DEF Leading, HeadersOf
      <4>2. CASE f = "hc0" /\ \E i \in 1..j - 1 : d[k + i].k = "hc1"
        <5>1. PICK i \in 1..j - 1 : d[k + i].k = "hc1"
          BY <4>2
        <5>2. k + i \in 1..n /\ k \in 1..n
          BY <2>3, <5>1 DEF j
        <5>3. d[k].k = "hc0"
          BY <2>3, <2>6, <4>2, MeantOpen DEF Leading
        <5> QED BY <5>1, <5>2, <5>3 DEF Parsed, ContextOf
      <4> QED BY <2>5, <2>11, <3>2, <4>1, <4>2
    <3> QED BY <2>5, <2>7, <2>8, <2>9, <2>10, <2>11, <3>1, <3>2
  <2>12. CASE j # Len(F)
    <3>1. j \in 1..Len(F) - 1 /\ j + 1 \in 1..Len(F) /\ j < Len(F)
      BY <2>3, <2>7, <2>12
    <3>2. Tail(readlist) = SubSeq(F, j + 1, Len(F))
      <4>1. /\ Len(Tail(readlist)) = Len(F) - j
            /\ \A i \in 1..Len(F) - j : Tail(readlist)[i] = F[j + i]
            /\ Tail(readlist) \in Seq(Entry)
        BY <2>8, <3>1
      <4>2. /\ Len(SubSeq(F, j + 1, Len(F))) = Len(F) - j
            /\ \A i \in 1..Len(F) - j : SubSeq(F, j + 1, Len(F))[i] = F[j + i]
            /\ SubSeq(F, j + 1, Len(F)) \in Seq(Entry)
        BY <2>7, <3>1
      <4> QED BY <4>1, <4>2, SeqEqual
    <3>3. e \in Closed
      BY <2>7, <2>9, <3>1
    <3>4. n - k + 2 = j + 1
      BY <2>3
    <3>5. \E l \in 1..n, g \in OpenFct :
              LET G == Follow(g, d[l], ctx) IN
              /\ Leading(d, l, g) /\ n - l + 2 \in 1..Len(G)
              /\ Tail(readlist) = SubSeq(G, n - l + 2, Len(G))
              /\ g \in InMcm => w.k \in {"adc", "adcl"}
      BY <2>5, <2>6, <3>1, <3>2, <3>4 DEF F
    <3> QED BY <2>5, <2>8, <2>9, <2>10, <3>3, <3>5
  <2> QED BY <2>11, <2>12
<1> QED BY <1>1, <1>2

(* Nothing that is written fails to match or raises an exception, and each *)
(* dword is taken by the function meant for it.                            *)
LEMMA ParsedStep ==
    ASSUME NEW CONSTANT d \in Seq(Word), Written(d), NEW CONSTANT n \in Nat, n < Len(d),
           ContextType, Parsed(d, n), ~crashed, ~nomatch,
           NEW fallback, Parse(d[n + 1], fallback)
    PROVE  /\ Parsed(d, n + 1)'
           /\ ~crashed' /\ ~nomatch' /\ last'.f \in Meant(last'.w.k)
<1> DEFINE e == Head(readlist)
           w == d[n + 1]
<1>0. n + 1 \in DOMAIN d /\ w \in Word /\ n + 1 \in 1..n + 1 /\ w.n \in Nat /\ w.k \in Kind
  <2>1. n + 1 \in DOMAIN d /\ w \in Word /\ n + 1 \in 1..n + 1
    OBVIOUS
  <2> QED BY <2>1 DEF Word
<1>g. PICK g : g = Chosen(e, w)
  OBVIOUS
<1>1. /\ readlist \in Seq(Entry) /\ readlist # <<>> /\ e \in Entry
      /\ Fits(e, w) \/ (e = Initial /\ w.k \in {"thc", "eot"})
      /\ n # 0 => e # Initial
      /\ \/ /\ e \in Open /\ Tail(readlist) = <<>>
            /\ w.k \in {"mcm", "msk"} => "hc0" \in ctx.set /\ "hc1" \in ctx.set
         \/ /\ e \in Closed
            /\ \E k \in 1..n, f \in OpenFct :
                   LET F == Follow(f, d[k], ctx) IN
                   /\ Leading(d, k, f) /\ n - k + 2 \in 1..Len(F)
                   /\ Tail(readlist) = SubSeq(F, n - k + 2, Len(F))
                   /\ f \in InMcm => w.k \in {"adc", "adcl"}
  BY NextExpected
<1>2. /\ Matching(e, w) # {} /\ g \in Meant(w.k)
      /\ e # Initial => g # "thc"
      /\ e \in Open => g \in OpenFct
      /\ e \in Closed => g \in ClosedFct
  BY <1>0, <1>1, <1>g, FitsTaken
<1>3. /\ g = "hc0" <=> w.k = "hc0"
      /\ g = "hc1" <=> w.k = "hc1"
      /\ g = "mcmhdr" <=> w.k = "mcm"
      /\ g = "adcmask" <=> w.k = "msk"
  <2>1. /\ g \in Meant(w.k) /\ w.k \in Kind
    BY <1>0, <1>2
  <2> QED BY <2>1 DEF Meant, Kind
<1>4. ~TypeError(g)
  <2>1. CASE e \in Open
    <3>1. e \notin Closed
      BY <2>1, Disjoint
    <3>2. g \in {"mcmhdr", "adcmask"} => "hc0" \in ctx.set /\ "hc1" \in ctx.set
      BY <1>1, <1>3, <3>1
    <3> QED BY <3>2 DEF TypeError
  <2>2. CASE e \in Closed
    BY <1>2, <2>2 DEF TypeError, ClosedFct
  <2> QED BY <1>1, <2>1, <2>2
<1>5. /\ ctx' = Context(g, w)
      /\ readlist' = Tail(readlist) \o Follow(g, w, ctx')
      /\ last' = [w |-> w, f |-> g]
      /\ crashed' = crashed /\ nomatch' = nomatch
  BY <1>2, <1>4, <1>g DEF Parse, NoMatch, Match, Crash
<1>6. /\ ~crashed' /\ ~nomatch' /\ last'.f \in Meant(last'.w.k)
  BY <1>2, <1>5
<1>7. ContextType'
  <2>1. w.hc \in Int /\ w.zs \in BOOLEAN /\ w.n \in Nat
    BY <1>0 DEF Word
  <2>2. (w.zs \/ OldHC0(w)) \in BOOLEAN
    OBVIOUS
  <2>3. ctx' = Context(g, w)
    BY <1>5
  <2> QED BY <2>1, <2>2, <2>3 DEF Context, ContextType
<1>8. ContextOf(d, n + 1)'
  <2>0. ContextOf(d, n) /\ n + 1 \in 1..n + 1 /\ (\A h \in 1..n : h \in 1..n + 1)
        /\ \A h \in 1..n + 1 : h \in 1..n \/ h = n + 1
    BY DEF Parsed
  <2>1. CASE g = "hc0"
    <3>1. w.k = "hc0" /\ ctx'.set = ctx.set \cup {"hc0"} /\ ctx'.ntb = ctx.ntb
      BY <1>3, <1>5, <2>1 DEF Context, ContextType
    <3>2. ctx'.zs = (w.zs \/ OldHC0(w))
      BY <1>5, <2>1 DEF Context, ContextType
    <3>3. ctx'.zs = Suppressed(d[n + 1])
      BY <3>2 DEF Suppressed
    <3> QED BY <2>0, <3>1, <3>3 DEF ContextOf
  <2>2. CASE g = "hc1"
    <3>1. w.k = "hc1" /\ ctx'.set = ctx.set \cup {"hc1"} /\ ctx'.ntb = w.n /\ ctx'.zs = ctx.zs
      BY <1>3, <1>5, <2>2 DEF Context, ContextType
    <3> QED BY <2>0, <3>1 DEF ContextOf
  <2>3. CASE g # "hc0" /\ g # "hc1"
    <3>1. w.k # "hc0" /\ w.k # "hc1" /\ ctx' = ctx
      BY <1>3, <1>5, <2>3 DEF Context
    <3> QED BY <2>0, <3>1 DEF ContextOf
  <2> QED BY <2>1, <2>2, <2>3
<1>9. CASE e \in Open
  <2>0. Tail(readlist) = <<>> /\ g \in OpenFct
        /\ (w.k \in {"mcm", "msk"} => "hc0" \in ctx.set /\ "hc1" \in ctx.set)
    BY <1>1, <1>2, <1>9, Disjoint
  <2> DEFINE F == Follow(g, w, ctx')
  <2>1. Shaped(F)
    BY <1>0, <1>7, <2>0, FollowShaped DEF ContextType
  <2>2. F \in Seq(Entry) /\ Len(F) \in Nat /\ Len(F) >= 1
    BY <2>1 DEF Shaped
  <2>3. readlist' = F
    <3>1. readlist' = <<>> \o F
      BY <1>5, <2>0
    <3> HIDE DEF F
    <3> QED BY <2>2, <3>1
  <2> HIDE DEF F
  <2>4. F = SubSeq(F, 1, Len(F))
    BY <2>2
  <2>5. Leading(d, n + 1, g)'
    <3>1. g = "thc" => n + 1 = 1
      BY <1>1, <1>2
    <3>2. ASSUME g \in InMcm
          PROVE  HeadersOf(d, n + 1)'
      <4>1. ctx' = ctx /\ "hc0" \in ctx.set /\ "hc1" \in ctx.set
        BY <1>3, <1>5, <2>0, <3>2 DEF InMcm, Context
      <4>2. ContextOf(d, n) /\ n + 1 - 1 = n
        BY DEF Parsed
      <4> QED BY <4>1, <4>2 DEF ContextOf, HeadersOf
    <3> QED BY <1>2, <2>0, <3>1, <3>2 DEF Leading
  <2>6. n + 1 # 0 /\ n + 1 - (n + 1) + 1 = 1 /\ 1 \in 1..Len(F) /\ n + 1 \in 1..n + 1
    BY <2>2
  <2>7. Within(d, n + 1, n + 1, g)'
    BY <2>3, <2>4, <2>5, <2>6 DEF F, Within
  <2> QED BY <1>6, <1>8, <2>0, <2>6, <2>7 DEF Parsed
<1>10. CASE e \in Closed
  <2>1. PICK k \in 1..n, f \in OpenFct :
                   LET F == Follow(f, d[k], ctx) IN
                   /\ Leading(d, k, f) /\ n - k + 2 \in 1..Len(F)
                   /\ Tail(readlist) = SubSeq(F, n - k + 2, Len(F))
                   /\ f \in InMcm => w.k \in {"adc", "adcl"}
    BY <1>1, <1>10, Disjoint
  <2>2. g \in ClosedFct
    BY <1>2, <1>10
  <2>3. Follow(g, w, ctx') = <<>>
    BY <2>2, FollowClosed
  <2>4. readlist' = Tail(readlist)
    BY <1>1, <1>5, <2>3
  <2>5. f \in InMcm => ctx' = ctx
    BY <1>3, <1>5, <2>1 DEF Context
  <2>6. Follow(f, d[k], ctx') = Follow(f, d[k], ctx)
    BY <2>5 DEF Follow, InMcm
  <2>7. Leading(d, k, f)'
    BY <2>1, <2>5 DEF Leading, HeadersOf
  <2>8. n + 1 # 0 /\ n + 1 - k + 1 = n - k + 2 /\ k \in 1..n + 1
    OBVIOUS
  <2>9. Within(d, n + 1, k, f)'
    BY <2>1, <2>4, <2>6, <2>7, <2>8 DEF Within
  <2> QED BY <1>6, <1>8, <2>8, <2>9 DEF Parsed
<1> QED BY <1>1, <1>9, <1>10

(* What feeparser.read finds within a link.                                *)
LEMMA WordOf ==
    ASSUME payload \in Payload, Laid, NEW l \in Link, NEW n \in Nat, n < Len(data[l])
    PROVE  WordAt(Start[l] + n) = data[l][n + 1]
<1> DEFINE p == Start[l] + n
<1>1. /\ Start[l] \in Nat /\ data[l] \in Seq(Word) /\ Len(data[l]) \in Nat
      /\ Start[l + 1] = Start[l] + Len(data[l]) /\ HeaderSize <= Start[l] /\ HeaderSize \in Nat
      /\ l \in 0..LastLink /\ LastLink \in Nat
  BY Layout, Ending DEF Link
<1>2. ASSUME NEW o \in Link, NEW j \in DOMAIN data[o], p = Start[o] + j - 1
      PROVE  o = l /\ j = n + 1
  <2>1. /\ Start[o] \in Nat /\ Len(data[o]) \in Nat /\ j \in 1..Len(data[o])
        /\ Start[o + 1] = Start[o] + Len(data[o]) /\ o \in 0..LastLink
    BY <1>2, Layout DEF Link
  <2>2. p \in Nat /\ p < Start[l + 1] /\ Start[l] <= p /\ p < Start[o + 1] /\ Start[o] <= p
        /\ Start[l + 1] \in Nat /\ Start[o + 1] \in Nat
    <3>1. p = Start[l] + n /\ n < Len(data[l]) /\ n \in Nat /\ p = Start[o] + j - 1
      BY <1>2
    <3> DEFINE x == Len(data[l])
               y == Len(data[o])
               a == Start[l]
               b == Start[o]
    <3>2. /\ a \in Nat /\ b \in Nat /\ x \in Nat /\ y \in Nat /\ j \in 1..y /\ n < x /\ n \in Nat
          /\ p = a + n /\ p = b + j - 1 /\ Start[l + 1] = a + x /\ Start[o + 1] = b + y
      BY <1>1, <2>1, <3>1
    <3> HIDE DEF p, x, y, a, b
    <3>3. p \in Nat /\ p < a + x /\ a <= p /\ p < b + y /\ b <= p /\ a + x \in Nat /\ b + y \in Nat
      BY <3>2
    <3> QED BY <3>2, <3>3 DEF a, b
  <2>3. CASE o < l
    <3>1. l \in 0..LastLink + 1 /\ o + 1 \in 0..l
      BY <1>1, <2>1, <2>3
    <3>2. Start[o + 1] <= Start[l]
      BY <3>1, StartsRise
    <3> HIDE DEF p
    <3> QED BY <1>1, <2>2, <3>2
  <2>4. CASE o > l
    <3>1. o \in 0..LastLink + 1 /\ l + 1 \in 0..o
      BY <1>1, <2>1, <2>4
    <3>2. Start[l + 1] <= Start[o]
      BY <3>1, StartsRise
    <3> HIDE DEF p
    <3> QED BY <2>1, <2>2, <3>2
  <2>5. o = l
    BY <1>1, <2>1, <2>3, <2>4
  <2> QED BY <1>1, <1>2, <2>1, <2>5
<1>3. n + 1 \in DOMAIN data[l] /\ p = Start[l] + (n + 1) - 1
  BY <1>1
<1>4. Owner(p) = {l}
  BY <1>2, <1>3 DEF Owner
<1>5. ~(p < HeaderSize)
  BY <1>1
<1>6. WordAt(p) = LET i == CHOOSE i \in Owner(p) : TRUE
                      j == CHOOSE j \in DOMAIN data[i] : p = Start[i] + j - 1
                  IN  data[i][j]
  BY <1>4, <1>5 DEF WordAt
<1>7. (CHOOSE i \in Owner(p) : TRUE) = l
  BY <1>4
<1> DEFINE j == CHOOSE j \in DOMAIN data[l] : p = Start[l] + j - 1
<1>8. j \in DOMAIN data[l] /\ p = Start[l] + j - 1
  BY <1>3
<1>9. j = n + 1
  BY <1>2, <1>8
<1> QED BY <1>6, <1>7, <1>9

-----------------------------------------------------------------------------
(* Nothing has been parsed yet.                                            *)
Fresh == readlist = <<Initial>> /\ "hc0" \notin ctx.set /\ "hc1" \notin ctx.set

(* How much of the first link with data has been parsed.                   *)
Progress ==
    /\ pc # "fee" => IF unread = None THEN Fresh ELSE Parsed(data[link], Sizes[link] - unread)
    /\ pc = "fee" /\ Tf => Parsed(data[link], pos - Start[link])
    /\ pc = "fee" /\ ~Tf =>
           \E l \in Link : /\ pos \in Start[l]..feemax /\ feemax <= Start[l + 1]
                           /\ Parsed(data[l], pos - Start[l])

Understood ==
    /\ ~crashed /\ ~nomatch
    /\ last.f # "none" => last.f \in Meant(last.w.k)

FirstInv ==
    /\ intact => \A l \in Link : Written(data[l])
    /\ first /\ intact /\ ~swallowed => Understood /\ Progress

LEMMA FreshIs ==
    ASSUME NEW CONSTANT d
    PROVE  Parsed(d, 0) <=> Fresh
BY DEF Parsed, ContextOf, Fresh

LEMMA FreshNext ==
    ASSUME NEW CONSTANT d
    PROVE  Parsed(d, 0)' <=> Fresh'
BY DEF Parsed, ContextOf, Fresh

Kept == UNCHANGED <<readlist, ctx, crashed, nomatch, last>>

LEMMA ParsedKept ==
    ASSUME NEW CONSTANT d, NEW CONSTANT n, Kept
    PROVE  /\ Parsed(d, n)' <=> Parsed(d, n)
           /\ Fresh' <=> Fresh
           /\ Understood' <=> Understood
BY DEF Kept, Parsed, ContextOf, Within, Leading, HeadersOf, Fresh, Understood

(* The same of the data of a link.                                         *)
LEMMA ParsedSame ==
    ASSUME NEW CONSTANT d, NEW CONSTANT n, NEW l, NEW m,
           d = data[l], n = m, Parsed(d, n)
    PROVE  Parsed(data[l], m)
BY DEF Parsed, ContextOf, Within, Leading, HeadersOf

(* Between two dwords the reader keeps count of what has been parsed.      *)
LEMMA ProgressOf ==
    ASSUME NEW CONSTANT d, NEW CONSTANT n,
           \/ pc # "fee" /\ unread # None /\ d = data[link] /\ n = Sizes[link] - unread
           \/ pc = "fee" /\ Tf /\ d = data[link] /\ n = pos - Start[link],
           Progress
    PROVE  Parsed(d, n)
BY DEF Progress

LEMMA ProgressNext ==
    ASSUME NEW CONSTANT d, NEW CONSTANT n,
           \/ pc' # "fee" /\ unread' # None /\ d = data'[link'] /\ n = Sizes'[link'] - unread'
           \/ pc' = "fee" /\ Tf' /\ d = data'[link'] /\ n = pos' - Start'[link'],
           Parsed(d, n)'
    PROVE  Progress'
<1>1. CASE pc' # "fee" /\ unread' # None /\ d = data'[link'] /\ n = Sizes'[link'] - unread'
  <2>1. ContextOf(data[link], Sizes[link] - unread)'
    BY <1>1 DEF Parsed, ContextOf
  <2>2. CASE n = 0
    BY <1>1, <2>1, <2>2 DEF Parsed, Progress
  <2>3. ASSUME n # 0
        PROVE  \E k \in 1..n, f \in OpenFct : Within(data[link], Sizes[link] - unread, k, f)'
    <3>1. PICK k \in 1..n, f \in OpenFct : Within(d, n, k, f)'
      BY <2>3 DEF Parsed
    <3>2. Within(data[link], Sizes[link] - unread, k, f)'
      BY <1>1, <3>1 DEF Within, Leading, HeadersOf
    <3> QED BY <3>2
  <2>4. CASE n # 0
    <3>1. Parsed(data[link], Sizes[link] - unread)'
      BY <1>1, <2>1, <2>3, <2>4 DEF Parsed
    <3> QED BY <1>1, <3>1 DEF Progress
  <2> QED BY <2>2, <2>4
<1>2. CASE pc' = "fee" /\ Tf' /\ d = data'[link'] /\ n = pos' - Start'[link']
  <2>1. ContextOf(data[link], pos - Start[link])'
    BY <1>2 DEF Parsed, ContextOf
  <2>2. CASE n = 0
    BY <1>2, <2>1, <2>2 DEF Parsed, Progress
  <2>3. ASSUME n # 0
        PROVE  \E k \in 1..n, f \in OpenFct : Within(data[link], pos - Start[link], k, f)'
    <3>1. PICK k \in 1..n, f \in OpenFct : Within(d, n, k, f)'
      BY <2>3 DEF Parsed
    <3>2. Within(data[link], pos - Start[link], k, f)'
      BY <1>2, <3>1 DEF Within, Leading, HeadersOf
    <3> QED BY <3>2
  <2>4. CASE n # 0
    <3>1. Parsed(data[link], pos - Start[link])'
      BY <1>2, <2>1, <2>3, <2>4 DEF Parsed
    <3> QED BY <1>2, <3>1 DEF Progress
  <2> QED BY <2>2, <2>4
<1> QED BY <1>1, <1>2

LEMMA ProgressAlone ==
    ASSUME NEW CONSTANT d, NEW CONSTANT n, NEW CONSTANT l \in Link, pc' = "fee", ~Tf',
           d = data'[l], n = pos' - Start'[l], pos' \in Start'[l]..feemax', feemax' <= Start'[l + 1],
           Parsed(d, n)'
    PROVE  Progress'
<1>1. ContextOf(data[l], pos - Start[l])'
  BY DEF Parsed, ContextOf
<1>2. CASE n = 0
  BY <1>1, <1>2 DEF Parsed, Progress
<1>3. ASSUME n # 0
      PROVE  \E k \in 1..n, f \in OpenFct : Within(data[l], pos - Start[l], k, f)'
  <2>1. PICK k \in 1..n, f \in OpenFct : Within(d, n, k, f)'
    BY <1>3 DEF Parsed
  <2>2. Within(data[l], pos - Start[l], k, f)'
    BY <2>1 DEF Within, Leading, HeadersOf
  <2> QED BY <2>2
<1>4. CASE n # 0
  <2>1. Parsed(data[l], pos - Start[l])'
    BY <1>1, <1>3, <1>4 DEF Parsed
  <2> QED BY <2>1 DEF Progress
<1> QED BY <1>2, <1>4

LEMMA ProgressFresh ==
    ASSUME pc' # "fee", unread' = None, Fresh'
    PROVE  Progress'
BY DEF Progress

(* A step between two calls of feeparser.read that parses nothing.         *)
LEMMA IdleStep ==
    ASSUME Kept, pc # "fee", pc' # "fee", UNCHANGED <<unread, link, payload>>, Understood, Progress
    PROVE  Understood' /\ Progress'
<1>1. Understood'
  BY ParsedKept
<1>2. CASE unread = None
  <2>1. Fresh
    BY <1>2 DEF Progress
  <2> QED BY <1>1, <1>2, <2>1, ParsedKept, ProgressFresh
<1>3. CASE unread # None
  <2>1. PICK d, n : d = data[link] /\ n = Sizes[link] - unread
    OBVIOUS
  <2>2. Parsed(d, n)
    BY <1>3, <2>1, ProgressOf
  <2>3. Parsed(d, n)'
    BY <2>2, ParsedKept
  <2>4. d = data'[link'] /\ n = Sizes'[link'] - unread'
    BY <2>1 DEF data, Sizes
  <2> QED BY <1>1, <1>3, <2>3, <2>4, ProgressNext
<1> QED BY <1>2, <1>3

LEMMA StutterStep ==
    ASSUME Kept, UNCHANGED <<pc, unread, link, payload, pos, feemax, reader>>, Understood, Progress
    PROVE  Understood' /\ Progress'
<1>0. Understood' /\ data' = data /\ Start' = Start /\ Tf' = Tf
  BY ParsedKept DEF data, Start, Tf
<1>1. CASE pc # "fee"
  BY <1>1, IdleStep
<1>2. CASE pc = "fee" /\ Tf
  <2>1. PICK d, n : d = data[link] /\ n = pos - Start[link]
    OBVIOUS
  <2>2. Parsed(d, n)'
    BY <1>2, <2>1, ProgressOf, ParsedKept
  <2>3. pc' = "fee" /\ Tf' /\ d = data'[link'] /\ n = pos' - Start'[link']
    BY <1>0, <1>2, <2>1
  <2> QED BY <1>0, <2>2, <2>3, ProgressNext
<1>3. CASE pc = "fee" /\ ~Tf
  <2>1. PICK l \in Link : /\ pos \in Start[l]..feemax /\ feemax <= Start[l + 1]
                          /\ Parsed(data[l], pos - Start[l])
    BY <1>3 DEF Progress
  <2>2. PICK d, n : d = data[l] /\ n = pos - Start[l]
    OBVIOUS
  <2>3. Parsed(d, n)'
    BY <2>1, <2>2, ParsedKept
  <2>4. /\ pc' = "fee" /\ ~Tf' /\ d = data'[l] /\ n = pos' - Start'[l]
        /\ pos' \in Start'[l]..feemax' /\ feemax' <= Start'[l + 1]
    BY <1>0, <1>3, <2>1, <2>2
  <2> QED BY <1>0, <2>3, <2>4, ProgressAlone
<1> QED BY <1>1, <1>2, <1>3

(* Something is left of a link only while it is read.                      *)
LEMMA UnreadIs ==
    ASSUME Loop, unread # None
    PROVE  /\ hcruheader \in [Link -> Nat] /\ hcruheader # NoHeader /\ link \in Link
           /\ unread \in 1..hcruheader[link] /\ ~NothingLeft
<1>1. hcruheader \in [Link -> Nat] /\ link \in Link /\ unread \in 1..hcruheader[link]
  BY DEF Loop
<1>2. hcruheader # NoHeader
  BY <1>1 DEF NoHeader
<1> QED BY <1>1, <1>2 DEF NothingLeft

LEMMA CallStep ==
    ASSUME PlaceInv, PlaceInv', Understood, Progress, CallFeeParser, ~swallowed'
    PROVE  Understood' /\ Progress'
<1>1. /\ payload \in Payload /\ Laid /\ Loop /\ Pages /\ Place /\ Loop' /\ Place'
      /\ FeeInv /\ FeeInv'
  BY DEF PlaceInv, ReaderInv
<1>2. /\ pc = "cru" /\ pc' = "fee" /\ payload' = payload /\ reader' = reader /\ Turn
      /\ link' = TurnLink /\ unread' = TurnUnread /\ hcruheader' = TurnHeader
      /\ feemax' - readsize' = pos' /\ UNCHANGED swallowed
  <2>1. /\ pos' = TurnPos /\ readsize' = ReadSize /\ feemax' = TurnPos + ReadSize
        /\ TurnPos \in Nat /\ ReadSize \in Nat
    <3>1. /\ pos' = TurnPos /\ readsize' = ReadSize /\ feemax' = TurnPos + ReadSize
      BY DEF CallFeeParser
    <3>2. pos' \in Nat /\ readsize' \in Nat
      BY <1>1 DEF Loop
    <3> QED BY <3>1, <3>2
  <2>2. feemax' - readsize' = pos'
    BY <2>1
  <2> QED BY <2>2 DEF CallFeeParser, Turn, filevars
<1>3. Kept
  BY DEF CallFeeParser, feevars, Reset, Kept
<1>4. Understood'
  BY <1>3, ParsedKept
<1>5. Tf /\ Tf' /\ ~swallowed
  BY <1>1, <1>2 DEF Loop, Tf
<1>6. /\ hcruheader' = Sizes' /\ Sizes' = Sizes /\ Start' = Start /\ data' = data
      /\ pos' = Start[link' + 1] - unread' /\ link' \in Link /\ unread' # None
  <2>1. Sizes' = Sizes /\ Start' = Start /\ data' = data
    BY <1>2 DEF Sizes, Start, data
  <2>2. hcruheader' = Sizes' /\ feemax' - readsize' = Start'[link' + 1] - unread'
    BY <1>1, <1>2, <1>5 DEF Place
  <2>3. link' \in Link /\ unread' # None
    BY <1>1, <1>2, <1>5 DEF Loop, NoHeader
  <2> QED BY <1>2, <2>1, <2>2, <2>3
<1>7. /\ Start[link'] \in Nat /\ Sizes[link'] \in Nat /\ Start[link' + 1] = Start[link'] + Sizes[link']
  BY <1>1, <1>6, Layout
<1>8. CASE unread = None
  <2>1. Fresh'
    BY <1>2, <1>3, <1>8, ParsedKept DEF Progress
  <2>2. unread' = Sizes[link']
    BY <1>2, <1>6, <1>8 DEF TurnUnread
  <2>3. 0 = pos' - Start'[link']
    BY <1>6, <1>7, <2>2
  <2>4. PICK d : d = data'[link']
    OBVIOUS
  <2>5. Parsed(d, 0)'
    BY <2>1, FreshNext
  <2> QED BY <1>2, <1>4, <1>5, <2>3, <2>4, <2>5, ProgressNext
<1>9. CASE unread # None
  <2>1. link' = link /\ unread' = unread /\ unread \in Nat
    <3>1. ~AtHeader /\ unread \in 1..hcruheader[link] /\ hcruheader[link] \in Nat
      <4>1. /\ hcruheader \in [Link -> Nat] /\ hcruheader # NoHeader /\ link \in Link
            /\ unread \in 1..hcruheader[link]
        BY <1>1, <1>9, UnreadIs
      <4> QED BY <4>1 DEF AtHeader
    <3> QED BY <1>2, <1>9, <3>1 DEF TurnLink, TurnUnread
  <2>2. PICK d, n : d = data[link] /\ n = Sizes[link] - unread
    OBVIOUS
  <2>3. Parsed(d, n)
    BY <1>2, <1>9, <2>2, ProgressOf
  <2>4. Parsed(d, n)'
    BY <1>3, <2>3, ParsedKept
  <2>5. d = data'[link'] /\ n = pos' - Start'[link']
    BY <1>6, <1>7, <2>1, <2>2
  <2> QED BY <1>2, <1>4, <1>5, <2>4, <2>5, ProgressNext
<1> QED BY <1>8, <1>9

LEMMA DwordStep ==
    ASSUME PlaceInv, \A l \in Link : Written(data[l]), Understood, Progress, FeeDword, ~swallowed
    PROVE  Understood' /\ Progress'
<1>1. /\ payload \in Payload /\ Laid /\ Loop /\ Pages /\ Place /\ FeeInv /\ ContextType
  BY DEF PlaceInv, ReaderInv, FeeInv, FeeTypeOK, ContextType
<1>2. /\ pc = "fee" /\ pc' = "fee" /\ pos < feemax /\ pos' = pos + 1
      /\ UNCHANGED <<payload, reader, link, feemax>>
      /\ \E fallback : Parse(WordAt(pos), fallback)
  BY DEF FeeDword, cruvars, filevars
<1>3. {pos, feemax, readsize} \subseteq Nat
  BY <1>1 DEF Loop
<1>4. PICK l \in Link : /\ pos \in Start[l]..feemax /\ feemax <= Start[l + 1]
                        /\ Parsed(data[l], pos - Start[l]) /\ (Tf => l = link)
  <2>1. CASE ~Tf
    BY <1>2, <2>1 DEF Progress
  <2>2. CASE Tf
    <3>1. /\ hcruheader = Sizes /\ feemax - readsize = Start[link + 1] - unread
          /\ link \in Link /\ unread \in 1..Sizes[link] /\ readsize \in 1..unread
      BY <1>1, <1>2, <2>2 DEF Place, Loop
    <3>2. pos \in feemax - readsize..feemax
      BY <1>1, <1>2, <2>2 DEF Pages
    <3>3. Start[link] \in Nat /\ Sizes[link] \in Nat /\ Start[link + 1] = Start[link] + Sizes[link]
      BY <1>1, <3>1, Layout
    <3>4. pos \in Start[link]..feemax /\ feemax <= Start[link + 1]
      BY <1>3, <3>1, <3>2, <3>3
    <3>5. Parsed(data[link], pos - Start[link])
      BY <1>2, <2>2 DEF Progress
    <3> QED BY <3>1, <3>4, <3>5
  <2> QED BY <2>1, <2>2
<1>5. PICK d, n : d = data[l] /\ n = pos - Start[l]
  OBVIOUS
<1>6. /\ d \in Seq(Word) /\ Start[l] \in Nat /\ Start[l + 1] = Start[l] + Len(d) /\ Len(d) \in Nat
      /\ Written(d)
  BY <1>1, <1>5, Layout
<1>7. n \in Nat /\ n < Len(d) /\ pos = Start[l] + n
  BY <1>2, <1>3, <1>4, <1>5, <1>6
<1>8. WordAt(pos) = d[n + 1]
  BY <1>1, <1>5, <1>7, WordOf
<1>9. Parsed(d, n)
  BY <1>4, <1>5
<1>10. PICK fallback : Parse(d[n + 1], fallback)
  BY <1>2, <1>8
<1>11. /\ Parsed(d, n + 1)'
       /\ ~crashed' /\ ~nomatch' /\ last'.f \in Meant(last'.w.k)
  BY <1>1, <1>6, <1>7, <1>9, <1>10, ParsedStep DEF Understood
<1>12. Understood'
  BY <1>11 DEF Understood
<1>13. /\ d = data'[l] /\ n + 1 = pos' - Start'[l] /\ n + 1 \in Nat
       /\ pos' \in Start'[l]..feemax' /\ feemax' <= Start'[l + 1]
       /\ (Tf' <=> Tf)
  <2>1. data' = data /\ Start' = Start /\ Tf' = Tf
    BY <1>2 DEF data, Start, Tf
  <2>2. d = data'[l] /\ Tf' = Tf /\ feemax' <= Start'[l + 1]
    BY <1>2, <1>4, <1>5, <2>1
  <2> DEFINE a == Start[l]
  <2>3. a \in Nat /\ pos = a + n /\ pos' = pos + 1 /\ pos < feemax /\ feemax' = feemax
        /\ Start'[l] = a
    BY <1>2, <1>6, <1>7, <2>1
  <2> HIDE DEF a
  <2>4. n + 1 = pos' - a /\ pos' \in a..feemax' /\ n + 1 \in Nat
    BY <1>3, <1>7, <2>3
  <2> QED BY <2>2, <2>3, <2>4
<1>14. CASE Tf
  <2>1. d = data'[link'] /\ n + 1 = pos' - Start'[link']
    BY <1>2, <1>4, <1>13, <1>14
  <2>2. PICK m : m = n + 1
    OBVIOUS
  <2>3. Parsed(d, m)'
    BY <1>11, <2>2
  <2>4. pc' = "fee" /\ Tf' /\ d = data'[link'] /\ m = pos' - Start'[link']
    BY <1>2, <1>13, <1>14, <2>1, <2>2
  <2>5. Progress'
    BY <2>3, <2>4, ProgressNext
  <2> QED BY <1>12, <2>5
<1>15. CASE ~Tf
  <2>1. PICK m : m = n + 1
    OBVIOUS
  <2>2. Parsed(d, m)'
    BY <1>11, <2>1
  <2>3. Progress'
    BY <1>2, <1>13, <1>15, <2>1, <2>2, ProgressAlone
  <2> QED BY <1>12, <2>3
<1> QED BY <1>14, <1>15

LEMMA ReturnStep ==
    ASSUME PlaceInv, Understood, Progress, FeeReturn, ~swallowed, first'
    PROVE  Understood' /\ Progress'
<1>1. /\ payload \in Payload /\ Laid /\ Loop /\ Pages /\ Place /\ Tf
  BY DEF PlaceInv, ReaderInv, FeeReturn, Tf
<1>2. /\ pc = "fee" /\ pc' = "cru" /\ pos = feemax /\ unread' = unread - readsize /\ unread # readsize
      /\ UNCHANGED <<feevars, link, payload, reader>>
  BY DEF FeeReturn, filevars
<1>3. Kept
  BY <1>2 DEF feevars, Kept
<1>4. /\ feemax - readsize = Start[link + 1] - unread
      /\ link \in Link /\ unread \in 1..Sizes[link] /\ readsize \in 1..unread /\ feemax \in Nat
  BY <1>1, <1>2 DEF Place, Loop
<1>5. Start[link] \in Nat /\ Sizes[link] \in Nat /\ Start[link + 1] = Start[link] + Sizes[link]
  BY <1>1, <1>4, Layout
<1>6. PICK d, n : d = data[link] /\ n = pos - Start[link]
  OBVIOUS
<1>7. Parsed(d, n)
  BY <1>1, <1>2, <1>6, ProgressOf
<1>8. Parsed(d, n)' /\ Understood'
  BY <1>3, <1>7, ParsedKept
<1>9. unread' # None /\ n = Sizes[link] - unread'
  BY <1>2, <1>4, <1>5, <1>6 DEF None
<1>10. d = data'[link'] /\ n = Sizes'[link'] - unread'
  <2>1. data' = data /\ Sizes' = Sizes
    BY <1>2 DEF data, Sizes
  <2> QED BY <1>2, <1>6, <1>9, <2>1
<1> QED BY <1>2, <1>8, <1>9, <1>10, ProgressNext

(* A subevent is the data of one link: nothing is before or behind it.     *)
AloneIn(l) == \A o \in Link : l # o => data[o] = <<>>

Alone == \A l \in Link : AloneIn(l) => Start[l] = HeaderSize /\ Start[l + 1] = End

LEMMA AloneIs == payload \in Payload /\ Laid => Alone
<1> SUFFICES ASSUME payload \in Payload, Laid, NEW l \in Link, AloneIn(l)
             PROVE  Start[l] = HeaderSize /\ Start[l + 1] = End
  BY DEF Alone
<1>0. l \in 0..LastLink /\ LastLink \in Nat
  BY LayoutAssumption DEF Link
<1>1. Start[l + 1] = End
  <2>1. \A o \in l + 1..LastLink : o \in Link /\ o # l
    BY <1>0 DEF Link
  <2>2. \A o \in l + 1..LastLink : Sizes[o] = 0
    BY <2>1 DEF Sizes, AloneIn
  <2>3. l + 1 \in 0..LastLink + 1
    BY <1>0
  <2> QED BY <2>2, <2>3, Tight
<1>2. ASSUME Start[l] # HeaderSize PROVE FALSE
  <2> DEFINE T == {k \in Nat : k \in 0..l /\ Start[k] # HeaderSize}
  <2>1. l \in T
    BY <1>0, <1>2
  <2>2. PICK k \in T : \A m \in T : ~(m < k)
    BY <2>1, LeastOne
  <2>3. k # 0
    BY <2>2, Layout
  <2>4. k - 1 \in Link /\ k - 1 # l /\ k - 1 \in 0..l /\ k - 1 \in Nat /\ (k - 1) + 1 = k /\ k - 1 < k
    BY <1>0, <2>2, <2>3 DEF Link
  <2>5. Start[k - 1] = HeaderSize
    BY <2>2, <2>4
  <2>6. Start[k] = Start[k - 1] + Len(data[k - 1]) /\ data[k - 1] = <<>>
    BY <2>4, Layout DEF AloneIn
  <2>7. Start[k] = HeaderSize
    BY <2>5, <2>6, LayoutAssumption
  <2> QED BY <2>2, <2>7
<1> QED BY <1>1, <1>2

LEMMA AloneNext == (payload \in Payload /\ Laid => Alone)'
BY AloneIs, PTL

LEMMA SubeventStep ==
    ASSUME PlaceInv, PlaceInv', Understood, Progress, pc = "file",
           NEW x \in Intact, Process(x) \/ ReadSubevent(x)
    PROVE  Understood' /\ Progress'
<1>1. Loop /\ payload' \in Payload /\ Laid' /\ Loop'
  BY DEF PlaceInv, ReaderInv
<1>2. /\ ~Tf /\ ~Tf' /\ payload' = x /\ pc' = "fee"
      /\ pos' = HeaderSize /\ feemax' = x.start[LastLink + 1]
  BY DEF Process, ReadSubevent, Subevent, Send, Tf
<1>3. Kept
  BY DEF Process, ReadSubevent, Reset, feevars, Kept
<1>4. Fresh
  <2>1. hcruheader = NoHeader
    BY <1>1, <1>2 DEF Loop
  <2>2. unread = None
    BY <1>1, <2>1, UnreadIs
  <2> QED BY <2>2 DEF Progress
<1>5. Fresh' /\ Understood'
  BY <1>3, <1>4, ParsedKept
<1>6. PICK l \in Link : \A o \in Link : l # o => x.data[o] = <<>>
  BY DEF Process, ReadSubevent, Subevent
<1>7. Alone' /\ AloneIn(l)'
  BY <1>1, <1>2, <1>6, AloneNext DEF AloneIn, data
<1>8. Start'[l] = HeaderSize /\ Start'[l + 1] = End' /\ feemax' = End'
  BY <1>2, <1>7 DEF Alone, End, Start
<1>9. HeaderSize <= feemax' /\ feemax' \in Nat /\ HeaderSize \in Nat
  <2>1. EndIs'
    BY <1>1, EndingNext
  <2> QED BY <1>8, <2>1 DEF EndIs
<1>10. PICK d : d = data'[l]
  OBVIOUS
<1>11. Parsed(d, 0)'
  BY <1>5, FreshNext
<1>12. 0 = pos' - Start'[l] /\ pos' \in Start'[l]..feemax' /\ feemax' <= Start'[l + 1]
  BY <1>2, <1>8, <1>9
<1>13. Progress'
  BY <1>2, <1>10, <1>11, <1>12, ProgressAlone
<1> QED BY <1>5, <1>13

LEMMA FirstStep ==
    ASSUME PlaceInv, PlaceInv', FirstInv, [Next]_vars
    PROVE  FirstInv'
<1>1. /\ Loop /\ Pages /\ Place /\ Loop' /\ Pages' /\ Place' /\ payload \in Payload /\ Laid
      /\ first \in BOOLEAN /\ intact \in BOOLEAN /\ swallowed \in BOOLEAN
  BY DEF PlaceInv, ReaderInv, Loop
<1>2. ASSUME intact', NEW l \in Link
      PROVE  Written(data[l])'
  <2>1. CASE NewData
    <3>1. PICK x \in Intact \cup Damaged : Send(x)
      BY <2>1 DEF NewData, NewPayload, Process, ReadSubevent, Subevent
    <3>2. payload' = x /\ x \in Intact
      BY <1>2, <3>1 DEF Send
    <3> QED BY <3>2, FormatAssumption DEF data
  <2>2. CASE Read \/ UNCHANGED vars
    <3>1. UNCHANGED <<payload, intact>>
      BY <2>2 DEF Read, NextPage, PageDone, Padding, Astray, CallFeeParser, EmptyLink,
                  FeeDword, FeeReturn, SubeventDone, filevars, vars
    <3> QED BY <1>2, <3>1 DEF FirstInv, data
  <2> QED BY <2>1, <2>2 DEF Next
<1>3. ASSUME first', intact', ~swallowed'
      PROVE  Understood' /\ Progress'
  <2>1. first /\ intact /\ ~swallowed
    BY <1>1, <1>3 DEF Next, NewData, NewPayload, Process, ReadSubevent, Subevent, Send,
                      Read, NextPage, PageDone, Padding, Astray, CallFeeParser, EmptyLink,
                      FeeDword, FeeReturn, SubeventDone, filevars, vars
  <2>2. Understood /\ Progress /\ \A l \in Link : Written(data[l])
    BY <2>1 DEF FirstInv
  <2>3. CASE NextPage \/ PageDone \/ Padding \/ Astray
    <3>1. Kept /\ pc # "fee" /\ pc' # "fee" /\ UNCHANGED <<unread, link, payload>>
      BY <2>3 DEF NextPage, PageDone, Padding, Astray, Turn, cruvars, filevars, feevars, Kept
    <3> QED BY <2>2, <3>1, IdleStep
  <2>4. CASE CallFeeParser
    BY <1>3, <2>2, <2>4, CallStep
  <2>5. CASE EmptyLink
    <3>1. Kept /\ pc # "fee" /\ pc' # "fee" /\ unread' = None /\ TurnUnread = 0
      BY <2>5 DEF EmptyLink, EndLink, Reset, Turn, Kept
    <3>2. unread = None
      <4>1. SUFFICES ASSUME unread # None PROVE FALSE
        OBVIOUS
      <4>2. hcruheader # NoHeader /\ unread \in 1..hcruheader[link] /\ hcruheader[link] \in Nat
        BY <1>1, <4>1, UnreadIs
      <4> QED BY <3>1, <4>1, <4>2 DEF TurnUnread, AtHeader
    <3>3. Fresh' /\ Understood'
      BY <2>2, <3>1, <3>2, ParsedKept DEF Progress
    <3> QED BY <3>1, <3>3, ProgressFresh
  <2>6. CASE FeeDword
    BY <2>1, <2>2, <2>6, DwordStep
  <2>7. CASE FeeReturn
    BY <1>3, <2>1, <2>2, <2>7, ReturnStep
  <2>8. CASE SubeventDone
    BY <1>3, <2>8 DEF SubeventDone
  <2>9. CASE NewData
    <3>1. PICK x \in Intact \cup Damaged : NewPayload(x) \/ Process(x) \/ ReadSubevent(x)
      BY <2>9 DEF NewData
    <3>2. x \in Intact /\ pc = "file"
      BY <1>3, <2>9, <3>1 DEF NewData, NewPayload, Process, ReadSubevent, Subevent, Send
    <3>3. CASE Process(x) \/ ReadSubevent(x)
      BY <2>2, <3>2, <3>3, SubeventStep
    <3>4. CASE NewPayload(x)
      <4>1. Kept /\ pc' = "cru" /\ unread' = unread /\ Tf /\ pos = Total
        BY <3>4 DEF NewPayload, cruvars, feevars, Kept, Tf
      <4>2. unread = None
        <5>1. SUFFICES ASSUME unread # None PROVE FALSE
          OBVIOUS
        <5>3. ~NothingLeft
          BY <1>1, <5>1, UnreadIs
        <5>4. pos < End /\ pos \in Nat
          BY <1>1, <2>1, <3>2, <4>1, <5>3, AtData
        <5>5. Total \in {End, End + 1} /\ End \in Nat
          BY <1>1, Ending
        <5> QED BY <4>1, <5>4, <5>5
      <4>3. Fresh' /\ Understood'
        BY <2>2, <3>2, <4>1, <4>2, ParsedKept DEF Progress
      <4> QED BY <4>1, <4>2, <4>3, ProgressFresh
    <3> QED BY <3>1, <3>3, <3>4
  <2>10. CASE UNCHANGED vars
    <3>1. Kept /\ UNCHANGED <<pc, unread, link, payload, pos, feemax, reader>>
      BY <2>10 DEF vars, feevars, cruvars, filevars, Kept
    <3> QED BY <2>2, <3>1, StutterStep
  <2> QED BY <2>3, <2>4, <2>5, <2>6, <2>7, <2>8, <2>9, <2>10 DEF Next, Read
<1> QED BY <1>2, <1>3 DEF FirstInv

LEMMA FirstInit == Init => FirstInv
<1> SUFFICES ASSUME Init PROVE FirstInv
  OBVIOUS
<1>1. \A l \in Link : Written(data[l])
  <2>1. \A l \in Link : data[l] = <<>>
    BY DEF Init, data
  <2>2. Written(<<>>)
    BY DEF Written, Stands
  <2> QED BY <2>1, <2>2
<1>2. Understood
  BY DEF Init, FeeInit, Understood
<1>3. Progress
  BY DEF Init, FeeInit, Progress, Fresh, Initial
<1> QED BY <1>1, <1>2, <1>3 DEF FirstInv

(* The first link with data is understood, dword by dword, however the     *)
(* pages cut it, for everything the detector may write (process, read and  *)
(* the parser functions, trdfeeparser.py:140-384, 422-526).                *)
THEOREM FirstLinkUnderstood == Spec => []FirstLinkAsWritten
<1>1. FirstInv => FirstLinkAsWritten
  BY DEF FirstInv, Understood, FirstLinkAsWritten
<1>2. PlaceInv /\ FirstInv /\ [Next]_vars /\ PlaceInv' => FirstInv'
  BY FirstStep
<1> QED BY <1>1, <1>2, FirstInit, PlaceInvariant, PTL DEF Spec
=============================================================================
