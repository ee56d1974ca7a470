---------------------------- MODULE RestartsProofs ----------------------------
(***************************************************************************)
(* The type invariant, the lockstep, the order of the data and the bound   *)
(* on the damage of Restarts, for any number of links, restarts and        *)
(* events.                                                                 *)
(*                                                                         *)
(* Base is what the requests and replies keep whatever ends and starts.    *)
(* Streams looks at all words that are still to come to minidaq on a link: *)
(* no step reorders them, a restart takes some of them out, and each place *)
(* at which they are no longer joined as the detector has sent them is     *)
(* paid for by a restart.  A subevent that is not a whole event holds such *)
(* a place, so it takes one with it.                                       *)
(***************************************************************************)
EXTENDS Restarts, FiniteSets, FiniteSetTheorems, SequenceTheorems,
        WellFoundedInduction, TLAPS

(* Less, LeastOne and the lemmas on FlattenSeq are those of ReadoutProofs. *)
Less == {p \in Nat \X Nat : p[1] < p[2]}

(* < on the naturals, as a relation that WFMin takes.                      *)
LEMMA LessWellFounded == IsWellFoundedOn(Less, Nat)
BY NatLessThanWellFounded, SMT DEF OpToRel, Less

(* Induction, as the least counterexample.                                 *)
LEMMA LeastOne ==
    ASSUME NEW T \in SUBSET Nat, T # {}
    PROVE  \E n \in T : \A m \in T : ~(m < n)
<1>1. \E n \in T : \A m \in T : ~(<<m, n>> \in Less)
  BY LessWellFounded, WFMin
<1> QED BY <1>1 DEF Less

(* What the LET of FlattenSeq defines.                                     *)
Flattens(g, ss, n) ==
    g = [i \in 1..n |-> IF i = 1 THEN ss[i] ELSE g[i - 1] \o ss[i]]

(* Such a function exists for every number of sequences.                   *)
LEMMA FlattensExists ==
    ASSUME NEW S, NEW ss \in Seq(Seq(S)), NEW n \in Nat
    PROVE  \E g : Flattens(g, ss, n)
<1> DEFINE T == {k \in Nat : ~ \E g : Flattens(g, ss, k)}
<1>1. SUFFICES ASSUME T # {} PROVE FALSE
  OBVIOUS
<1>2. PICK k \in T : \A m \in T : ~(m < k)
  BY <1>1, LeastOne
<1>3. k # 0
  <2>1. Flattens([i \in 1..0 |-> ss], ss, 0)
    BY DEF Flattens
  <2> QED BY <2>1, <1>2
<1>4. k - 1 \in Nat /\ k - 1 < k
  BY <1>3
<1>5. PICK g : Flattens(g, ss, k - 1)
  BY <1>2, <1>4
<1> DEFINE h == [i \in 1..k |-> IF i < k THEN g[i]
                                ELSE IF k = 1 THEN ss[1] ELSE g[k - 1] \o ss[k]]
<1>6. \A i \in 1..k : h[i] = IF i = 1 THEN ss[i] ELSE h[i - 1] \o ss[i]
  <2> TAKE i \in 1..k
  <2>1. CASE i < k
    <3>1. i \in 1..(k - 1) /\ (i # 1 => i - 1 \in 1..k /\ i - 1 < k)
      BY <2>1
    <3>2. g[i] = IF i = 1 THEN ss[i] ELSE g[i - 1] \o ss[i]
      BY <1>5, <3>1 DEF Flattens
    <3> QED BY <2>1, <3>1, <3>2
  <2>2. CASE i = k
    <3>1. i # 1 => i - 1 \in 1..k /\ i - 1 < k
      BY <2>2
    <3> QED BY <2>2, <3>1
  <2> QED BY <2>1, <2>2
<1>7. Flattens(h, ss, k)
  <2> HIDE DEF h
  <2>1. h = [i \in 1..k |-> h[i]]
    BY DEF h
  <2> QED BY <1>6, <2>1 DEF Flattens
<1> QED BY <1>2, <1>7

(* FlattenSeq is what it defines, at the last position.                    *)
LEMMA FlattenSeqDef ==
    ASSUME NEW S, NEW ss \in Seq(Seq(S)), Len(ss) # 0
    PROVE  \E g : Flattens(g, ss, Len(ss)) /\ FlattenSeq(ss) = g[Len(ss)]
<1> DEFINE g == CHOOSE g : Flattens(g, ss, Len(ss))
<1>1. Flattens(g, ss, Len(ss))
  BY FlattensExists
<1>2. FlattenSeq(ss) = g[Len(ss)]
  BY DEF FlattenSeq, Flattens
<1> QED BY <1>1, <1>2

(* Nothing flattened is nothing.                                           *)
LEMMA FlattenSeqEmpty == FlattenSeq(<<>>) = <<>>
BY DEF FlattenSeq

(* Appending a sequence to those that are flattened appends it at the end. *)
LEMMA FlattenSeqAppend ==
    ASSUME NEW S, NEW ss \in Seq(Seq(S)), NEW x \in Seq(S)
    PROVE  /\ FlattenSeq(ss) \in Seq(S)
           /\ FlattenSeq(Append(ss, x)) = FlattenSeq(ss) \o x
<1> DEFINE tt == Append(ss, x)
           n == Len(ss)
<1>1. /\ tt \in Seq(Seq(S)) /\ Len(tt) = n + 1 /\ n \in Nat /\ Len(tt) # 0
      /\ \A i \in 1..n : tt[i] = ss[i]
      /\ tt[n + 1] = x
  BY AppendProperties
<1> HIDE DEF tt
<1>2. PICK h : Flattens(h, tt, Len(tt)) /\ FlattenSeq(tt) = h[Len(tt)]
  BY <1>1, FlattenSeqDef
<1>3. h[n + 1] = IF n + 1 = 1 THEN tt[n + 1] ELSE h[(n + 1) - 1] \o tt[n + 1]
  <2>1. n + 1 \in 1..Len(tt)
    BY <1>1
  <2> QED BY <1>2, <2>1 DEF Flattens
<1>4. CASE n = 0
  <2>1. ss = <<>> /\ FlattenSeq(ss) = <<>>
    BY <1>4, FlattenSeqEmpty, EmptySeq
  <2>2. FlattenSeq(tt) = x
    BY <1>1, <1>2, <1>3, <1>4
  <2> QED BY <2>1, <2>2, ConcatEmptySeq, EmptySeq DEF tt
<1>5. CASE n # 0
  <2>1. PICK g : Flattens(g, ss, n) /\ FlattenSeq(ss) = g[n]
    BY <1>5, FlattenSeqDef
  <2>2. \A i \in 1..n : g[i] \in Seq(S) /\ h[i] = g[i]
    <3> DEFINE T == {k \in 1..n : ~(g[k] \in Seq(S) /\ h[k] = g[k])}
    <3>1. SUFFICES ASSUME T # {} PROVE FALSE
      OBVIOUS
    <3>2. T \in SUBSET Nat
      OBVIOUS
    <3>3. PICK k \in T : \A i \in T : ~(i < k)
      <4> HIDE DEF T
      <4> QED BY <3>1, <3>2, LeastOne
    <3>4. k \in 1..n /\ k \in 1..Len(tt)
      BY <1>1
    <3>5. /\ g[k] = IF k = 1 THEN ss[k] ELSE g[k - 1] \o ss[k]
          /\ h[k] = IF k = 1 THEN tt[k] ELSE h[k - 1] \o tt[k]
      BY <1>2, <2>1, <3>4 DEF Flattens
    <3>6. ss[k] \in Seq(S) /\ tt[k] = ss[k]
      BY <1>1, <3>4
    <3>7. CASE k = 1
      BY <3>5, <3>6, <3>7
    <3>8. CASE k # 1
      <4>1. k - 1 \in 1..n /\ k - 1 < k
        BY <3>4, <3>8
      <4>2. g[k - 1] \in Seq(S) /\ h[k - 1] = g[k - 1]
        BY <3>3, <4>1
      <4> QED BY <3>5, <3>6, <3>8, <4>2, ConcatProperties
    <3> QED BY <3>7, <3>8
  <2>3. n \in 1..n /\ (n + 1) - 1 = n /\ n + 1 # 1
    BY <1>1, <1>5
  <2>4. FlattenSeq(ss) \in Seq(S) /\ h[n] = FlattenSeq(ss)
    BY <2>1, <2>2, <2>3
  <2> QED BY <1>1, <1>2, <1>3, <2>3, <2>4 DEF tt
<1> QED BY <1>4, <1>5

-----------------------------------------------------------------------------
(* The inductive invariants, each on top of those before it.               *)
AtMostOne(S) == {<<>>} \cup {<<x>> : x \in S}

Types ==
    /\ pc \in [SFP -> {"recv", "dump"}]
    /\ request \in [SFP -> AtMostOne({"read"})]
    /\ answer \in [SFP -> AtMostOne(SB!Answer)]
    /\ query \in [SFP -> BOOLEAN]
    /\ fragment \in [SFP -> AtMostOne(Seq(SB!Word))]
    /\ expired \in [SFP -> BOOLEAN]
    /\ buffer \in [SFP -> Seq(SB!Word)]
    /\ payload_size \in [SFP -> 0..(MaxPayload - 1)]
    /\ status \in [SFP -> {0, 1}]
    /\ received \in [SFP -> Seq(SB!Word)]
    /\ delivered \in [SFP -> Seq(SB!Word)]
    /\ overflowed \in [SFP -> BOOLEAN]
    /\ trdboxd \in {"up", "down"} /\ subevd \in {"up", "down", "stopping"}
    /\ fifo \in [SFP -> Seq(SB!Word)] /\ link \in [SFP -> Seq(SB!Word)]
    /\ at \in [SFP -> {"subevd", "trdboxd", "nowhere"}]
    /\ orphans \in [SFP -> 0..subDeaths]
    /\ asked \in [SFP -> {"no", "queued", "sent", "lost"}]
    /\ queue \in [SFP -> Seq({"here", "gone"})] /\ asker \in [SFP -> {"none", "here", "gone"}]
    /\ boxDeaths \in 0..MaxBoxDeaths /\ subDeaths \in 0..MaxSubDeaths
    /\ daqDeaths \in 0..MaxDaqDeaths
    /\ damaged \in [SFP -> Nat]

(* No read is being served for link s.                                     *)
Idle(s) == pc[s] = "recv" /\ request[s] = <<>> /\ answer[s] = <<>>

(* The lockstep of each task with trdboxd and with the socket of its       *)
(* reads, and the room in its buffer.                                      *)
Serving ==
    \A s \in SFP :
        /\ pc[s] = "recv" => ~query[s] /\ fragment[s] = <<>>
        /\ pc[s] = "dump" =>
             /\ request[s] = <<>> /\ answer[s] = <<>>
             /\ query[s] <=> fragment[s] = <<>>
             /\ payload_size[s] = 0 /\ status[s] = 0
        /\ request[s] = <<>> \/ answer[s] = <<>>
        /\ Len(buffer[s]) <= MaxPayload
        /\ asker[s] = "none" <=> Idle(s)

(* minidaq has one read under way at most, at the task or in its queue.    *)
Asking ==
    \A s \in SFP :
        /\ asked[s] = "sent" <=> asker[s] = "here" \/ \E k \in 1..Len(queue[s]) : queue[s][k] = "here"
        /\ asker[s] = "here" => \A k \in 1..Len(queue[s]) : queue[s][k] # "here"
        /\ \A k, l \in 1..Len(queue[s]) : queue[s][k] = "here" /\ queue[s][l] = "here" => k = l

Base == Types /\ Serving /\ Asking

-----------------------------------------------------------------------------
LEMMA Constants ==
    /\ EventSize \in Nat \ {0} /\ Events \in Nat \ {0} /\ FifoBound \in Nat \ {0}
    /\ MaxPayload \in Nat \ {0}
    /\ MaxBoxDeaths \in Nat /\ MaxSubDeaths \in Nat /\ MaxDaqDeaths \in Nat
    /\ EOD \notin (1..Events) \X (1..EventSize)
BY ConstantsAssumption

LEMMA Words == \A w : w \in SB!Word <=> w = EOD \/ w \in (1..Events) \X (1..EventSize)
BY DEF SB!Word

-----------------------------------------------------------------------------
(* A socket with at most one message.                                      *)
LEMMA OneOf ==
    ASSUME NEW S, NEW x \in AtMostOne(S)
    PROVE  /\ x \in Seq(S) /\ Len(x) <= 1
           /\ x # <<>> => Head(x) \in S /\ x = <<Head(x)>> /\ Len(x) = 1
<1>1. CASE x = <<>>
  BY <1>1, EmptySeq
<1>2. CASE x # <<>>
  <2>1. PICK a \in S : x = <<a>>
    BY <1>2 DEF AtMostOne
  <2>2. <<a>> \in Seq(S) /\ Len(<<a>>) = 1 /\ Head(<<a>>) = a
    OBVIOUS
  <2> QED BY <2>1, <2>2
<1> QED BY <1>1, <1>2

(* A message is there.                                                     *)
LEMMA NotEmpty == \A x : <<x>> # <<>>
OBVIOUS

(* A message sent on an empty socket.                                      *)
LEMMA OneIs ==
    ASSUME NEW S, NEW a \in S
    PROVE  <<a>> \in AtMostOne(S) /\ <<a>> # <<>> /\ <<>> \in AtMostOne(S) /\ Head(<<a>>) = a
BY DEF AtMostOne

(* Concatenation is associative; fixed to words for the provers.           *)
LEMMA WordsAssociate ==
    ASSUME NEW x \in Seq(SB!Word), NEW y \in Seq(SB!Word), NEW z \in Seq(SB!Word)
    PROVE  (x \o y) \o z = x \o (y \o z)
BY ConcatAssociative

-----------------------------------------------------------------------------
(* find_dword and process_fragment, as in SubeventBuilderProofs.           *)
LEMMA FindDword ==
    ASSUME NEW b \in Seq(SB!Word)
    PROVE  /\ SB!find_dword(b) \in 0..Len(b)
           /\ SB!find_dword(b) # 0 => SB!IsSubeventEnd(b, SB!find_dword(b))
<1>1. CASE SB!HasSubevent(b)
  BY <1>1 DEF SB!HasSubevent, SB!find_dword
<1>2. CASE ~SB!HasSubevent(b)
  BY <1>2 DEF SB!find_dword
<1> QED BY <1>1, <1>2

(* payload_size for what a buffer may hold: 0 for a full buffer.           *)
LEMMA HeaderField ==
    ASSUME NEW m \in Nat \ {0}, NEW n \in 0..m
    PROVE  n % m = IF n = m THEN 0 ELSE n
<1>1. CASE n = m
  BY <1>1, SMT
<1>2. CASE n < m
  BY <1>2, SMT
<1> QED BY <1>1, <1>2

(* A buffer is its front followed by its rest.                             *)
LEMMA CutBuffer ==
    ASSUME NEW b \in Seq(SB!Word), NEW n \in 0..Len(b)
    PROVE  /\ SubSeq(b, 1, n) \in Seq(SB!Word)
           /\ SubSeq(b, n + 1, Len(b)) \in Seq(SB!Word)
           /\ Len(SubSeq(b, n + 1, Len(b))) <= Len(b)
           /\ b = SubSeq(b, 1, n) \o SubSeq(b, n + 1, Len(b))
<1>1. /\ SubSeq(b, n + 1, Len(b)) \in Seq(SB!Word)
      /\ Len(SubSeq(b, n + 1, Len(b))) = Len(b) - n
  BY SubSeqProperties
<1>2. SubSeq(b, 1, n) \o SubSeq(b, n + 1, Len(b)) = SubSeq(b, 1, Len(b))
  <2>1. 1 \in 1..(Len(b) + 1) /\ n \in (1 - 1)..Len(b) /\ Len(b) \in n..Len(b)
    OBVIOUS
  <2> QED BY <2>1, ConcatAdjacentSubSeq
<1>3. SubSeq(b, 1, Len(b)) = b
  BY SubSeqFull
<1>4. SubSeq(b, 1, n) \in Seq(SB!Word)
  BY SubSeqProperties
<1>5. Len(SubSeq(b, n + 1, Len(b))) <= Len(b)
  <2> DEFINE m == Len(SubSeq(b, n + 1, Len(b)))
  <2>1. m = Len(b) - n /\ Len(b) \in Nat
    BY <1>1
  <2> HIDE DEF m
  <2>2. m <= Len(b)
    BY <2>1
  <2> QED BY <2>2 DEF m
<1> QED BY <1>1, <1>2, <1>3, <1>4, <1>5

(* The types imply the type invariant of the runs.                         *)
LEMMA TypesTypeOK == Types /\ Asking => TypeOK
<1> SUFFICES ASSUME Types, Asking PROVE TypeOK
  OBVIOUS
<1>1. SB!TypeOK
  <2>1. request \in [SFP -> Seq(SB!Command)]
    <3>1. \A s \in SFP : request[s] \in Seq({"read"})
      BY OneOf DEF Types
    <3>2. \A s \in SFP : request[s] \in Seq(SB!Command)
      BY <3>1 DEF SB!Command
    <3> QED BY <3>2 DEF Types
  <2>2. answer \in [SFP -> Seq(SB!Answer)]
    <3>1. \A s \in SFP : answer[s] \in Seq(SB!Answer)
      BY OneOf DEF Types
    <3> QED BY <3>1 DEF Types
  <2>3. fragment \in [SFP -> Seq(Seq(SB!Word))]
    <3>1. \A s \in SFP : fragment[s] \in Seq(Seq(SB!Word))
      BY OneOf DEF Types
    <3> QED BY <3>1 DEF Types
  <2> QED BY <2>1, <2>2, <2>3 DEF SB!TypeOK, Types
<1>2. \A s \in SFP : asked[s] = "sent" <=> asker[s] = "here" \/ Contains(queue[s], "here")
  <2> TAKE s \in SFP
  <2>1. queue[s] \in Seq({"here", "gone"})
    BY DEF Types
  <2>2. DOMAIN queue[s] = 1..Len(queue[s])
    BY <2>1
  <2>3. Contains(queue[s], "here") <=> \E k \in 1..Len(queue[s]) : queue[s][k] = "here"
    BY <2>2 DEF Contains
  <2> QED BY <2>3 DEF Asking
<1> QED BY <1>1, <1>2 DEF TypeOK, Types

(* The lockstep of the runs from that of the tasks.                        *)
LEMMA ServingLockstep == Types /\ Serving => LockstepKept
<1> SUFFICES ASSUME Types, Serving, NEW s \in SFP
             PROVE  \A q \in {request[s], answer[s], fragment[s]} : Len(q) \in {0, 1}
  BY DEF LockstepKept, SB!Lockstep, Serving, Idle
<1>1. /\ request[s] \in AtMostOne({"read"}) /\ answer[s] \in AtMostOne(SB!Answer)
      /\ fragment[s] \in AtMostOne(Seq(SB!Word))
  BY DEF Types
<1>2. /\ request[s] \in Seq({"read"}) /\ Len(request[s]) <= 1
      /\ answer[s] \in Seq(SB!Answer) /\ Len(answer[s]) <= 1
      /\ fragment[s] \in Seq(Seq(SB!Word)) /\ Len(fragment[s]) <= 1
  BY <1>1, OneOf
<1>3. Len(request[s]) \in Nat /\ Len(answer[s]) \in Nat /\ Len(fragment[s]) \in Nat
  BY <1>2
<1>4. \A n \in Nat : n <= 1 => n \in {0, 1}
  OBVIOUS
<1> QED BY <1>2, <1>3, <1>4

-----------------------------------------------------------------------------
(* Whether words are joined as the detector has sent them: at the start an *)
(* event starts; a dword is followed by the next one of its event, the     *)
(* last one by the marker, the marker by an event.                         *)
Starts(w) == \E e \in 1..Events : w = <<e, 1>>

Follows(v, w) ==
    IF v = EOD THEN Starts(w)
    ELSE IF v[2] < EventSize THEN w = <<v[1], v[2] + 1>>
    ELSE w = EOD

Joined(y, p) == IF p = 0 THEN Starts(y[1]) ELSE Follows(y[p], y[p + 1])

Whole(y) == \A p \in 0..Len(y) - 1 : Joined(y, p)

(* Whether the data are in the detector's order.                           *)
Ordered(y) ==
    \A k, l \in 1..Len(y) : k < l /\ y[k] # EOD /\ y[l] # EOD => Before(y[k], y[l])

LEMMA Concat ==
    ASSUME NEW x \in Seq(SB!Word), NEW y \in Seq(SB!Word)
    PROVE  /\ x \o y \in Seq(SB!Word)
           /\ Len(x) \in Nat /\ Len(y) \in Nat /\ Len(x \o y) = Len(x) + Len(y)
           /\ \A k \in 1..Len(x) : (x \o y)[k] = x[k]
           /\ \A k \in 1..Len(y) : (x \o y)[Len(x) + k] = y[k]
<1>1. /\ x \o y \in Seq(SB!Word) /\ Len(x \o y) = Len(x) + Len(y)
      /\ Len(x) \in Nat /\ Len(y) \in Nat
      /\ \A k \in 1..(Len(x) + Len(y)) : (x \o y)[k] = IF k <= Len(x) THEN x[k] ELSE y[k - Len(x)]
  BY ConcatProperties
<1> DEFINE z == x \o y
           m == Len(x)
           n == Len(y)
<1> HIDE DEF z, m, n
<1>2. \A k \in 1..(m + n) : z[k] = IF k <= m THEN x[k] ELSE y[k - m]
  BY <1>1 DEF z, m, n
<1>3. m \in Nat /\ n \in Nat
  BY <1>1 DEF m, n
<1>4. \A k \in 1..m : z[k] = x[k]
  BY <1>2, <1>3
<1>5. \A k \in 1..n : z[m + k] = y[k]
  <2> TAKE k \in 1..n
  <2>1. m + k \in 1..(m + n) /\ ~(m + k <= m) /\ (m + k) - m = k
    BY <1>3
  <2> QED BY <1>2, <2>1
<1> QED BY <1>1, <1>4, <1>5 DEF z, m, n

LEMMA JoinedFront ==
    ASSUME NEW x \in Seq(SB!Word), NEW y \in Seq(SB!Word), NEW p \in 0..Len(x) - 1
    PROVE  Joined(x \o y, p) <=> Joined(x, p)
<1>1. Len(x) \in Nat /\ \A k \in 1..Len(x) : (x \o y)[k] = x[k]
  BY Concat
<1>2. CASE p = 0
  <2>1. 1 \in 1..Len(x)
    BY <1>1, <1>2
  <2> QED BY <1>1, <1>2, <2>1 DEF Joined
<1>3. CASE p # 0
  <2>1. p \in 1..Len(x) /\ p + 1 \in 1..Len(x)
    BY <1>1, <1>3
  <2> QED BY <1>1, <1>3, <2>1 DEF Joined
<1> QED BY <1>2, <1>3

LEMMA JoinedBack ==
    ASSUME NEW x \in Seq(SB!Word), NEW y \in Seq(SB!Word), NEW p \in 0..Len(y) - 1,
           p # 0 \/ Len(x) = 0 \/ x[Len(x)] = EOD
    PROVE  Joined(x \o y, Len(x) + p) <=> Joined(y, p)
<1> DEFINE m == Len(x)
           z == x \o y
<1>1. m \in Nat /\ Len(y) \in Nat /\ (\A k \in 1..Len(y) : z[m + k] = y[k])
      /\ (\A k \in 1..m : z[k] = x[k])
  BY Concat
<1>2. p + 1 \in 1..Len(y) /\ z[m + (p + 1)] = y[p + 1] /\ m + (p + 1) = (m + p) + 1
  BY <1>1
<1>3. CASE p # 0
  <2>1. p \in 1..Len(y) /\ z[m + p] = y[p] /\ m + p # 0
    BY <1>1, <1>3
  <2> HIDE DEF m, z
  <2>2. z[(m + p) + 1] = y[p + 1]
    BY <1>2
  <2> QED BY <1>3, <2>1, <2>2 DEF Joined, m, z
<1>4. CASE p = 0 /\ m = 0
  <2>1. z[1] = y[1] /\ m + p = 0
    BY <1>2, <1>4
  <2> HIDE DEF m, z
  <2> QED BY <1>4, <2>1 DEF Joined, m, z
<1>5. CASE p = 0 /\ m # 0
  <2>1. m \in 1..m /\ z[m] = EOD /\ m + p = m /\ z[m + 1] = y[1]
    BY <1>1, <1>2, <1>5
  <2> HIDE DEF m, z
  <2> QED BY <1>5, <2>1 DEF Joined, Follows, m, z
<1> QED BY <1>3, <1>4, <1>5

-----------------------------------------------------------------------------
(* The stream of the detector.                                             *)
LEMMA EventIs ==
    ASSUME NEW e \in 1..Events
    PROVE  /\ Event(e) \in Seq(SB!Word) /\ Len(Event(e)) = EventSize + 1
           /\ \A k \in 1..EventSize : Event(e)[k] = <<e, k>>
           /\ \A k \in 1..EventSize : Event(e)[k] # EOD
           /\ Event(e)[EventSize + 1] = EOD
           /\ Whole(Event(e))
<1>1. EventSize \in Nat \ {0} /\ EventSize + 1 \in Nat
  BY Constants
<1>2. \A k \in 1..EventSize : <<e, k>> \in (1..Events) \X (1..EventSize) /\ <<e, k>> # EOD
  BY Constants
<1> DEFINE v == Event(e)
<1>3. v = [k \in 1..EventSize + 1 |-> IF k <= EventSize THEN <<e, k>> ELSE EOD]
  BY DEF Event
<1> HIDE DEF v
<1>4. (\A k \in 1..EventSize : v[k] = <<e, k>>) /\ v[EventSize + 1] = EOD
  BY <1>1, <1>3
<1>5. v \in Seq(SB!Word) /\ Len(v) = EventSize + 1
  <2>1. \A k \in 1..EventSize + 1 : (IF k <= EventSize THEN <<e, k>> ELSE EOD) \in SB!Word
    BY <1>1, <1>2, Words
  <2>2. v \in [1..EventSize + 1 -> SB!Word]
    BY <1>3, <2>1
  <2> QED BY <1>1, <2>2
<1>6. ASSUME NEW p \in 0..(EventSize + 1) - 1
      PROVE  Joined(v, p)
  <2>1. CASE p = 0
    <3>1. v[1] = <<e, 1>>
      BY <1>1, <1>4
    <3> QED BY <2>1, <3>1 DEF Joined, Starts
  <2>2. CASE p # 0
    <3>1. p \in 1..EventSize /\ v[p] = <<e, p>> /\ v[p] # EOD /\ v[p][1] = e /\ v[p][2] = p
      BY <1>1, <1>2, <1>4, <2>2
    <3>2. CASE p < EventSize
      <4>1. p + 1 \in 1..EventSize /\ v[p + 1] = <<e, p + 1>>
        BY <1>1, <1>4, <3>1, <3>2
      <4> QED BY <2>2, <3>1, <3>2, <4>1 DEF Joined, Follows
    <3>3. CASE p = EventSize
      BY <1>1, <1>4, <2>2, <3>1, <3>3 DEF Joined, Follows
    <3> QED BY <1>1, <3>1, <3>2, <3>3
  <2> QED BY <2>1, <2>2
<1> QED BY <1>2, <1>4, <1>5, <1>6 DEF v, Whole

LEMMA WholeConcat ==
    ASSUME NEW x \in Seq(SB!Word), NEW y \in Seq(SB!Word), Whole(x), Whole(y),
           Len(x) = 0 \/ x[Len(x)] = EOD
    PROVE  Whole(x \o y)
<1>1. Len(x) \in Nat /\ Len(y) \in Nat /\ Len(x \o y) = Len(x) + Len(y)
  BY Concat
<1> SUFFICES ASSUME NEW p \in 0..Len(x \o y) - 1 PROVE Joined(x \o y, p)
  BY DEF Whole
<1>2. CASE p < Len(x)
  <2>1. p \in 0..Len(x) - 1
    BY <1>1, <1>2
  <2> QED BY <2>1, JoinedFront DEF Whole
<1>3. CASE ~(p < Len(x))
  <2> DEFINE q == p - Len(x)
  <2>1. q \in 0..Len(y) - 1 /\ Len(x) + q = p
    BY <1>1, <1>3
  <2> HIDE DEF q
  <2>2. Joined(x \o y, Len(x) + q)
    BY <2>1, JoinedBack DEF Whole
  <2> QED BY <2>1, <2>2
<1> QED BY <1>2, <1>3

FirstEvents(n) == [e \in 1..n |-> Event(e)]

Sent(n) ==
    LET x == FlattenSeq(FirstEvents(n)) IN
    /\ x \in Seq(SB!Word) /\ Whole(x) /\ Ordered(x)
    /\ Len(x) = 0 \/ x[Len(x)] = EOD
    /\ \A k \in 1..Len(x) : x[k] # EOD => x[k][1] \in 1..n

LEMMA SentNext ==
    ASSUME NEW n \in Nat, n < Events, Sent(n)
    PROVE  Sent(n + 1)
<1> DEFINE x == FlattenSeq(FirstEvents(n))
           v == Event(n + 1)
           z == FlattenSeq(FirstEvents(n + 1))
<1>1. n + 1 \in 1..Events
  BY Constants
<1>2. z = x \o v
  <2>1. FirstEvents(n) \in Seq(Seq(SB!Word)) /\ Len(FirstEvents(n)) = n
    <3>1. \A e \in 1..n : Event(e) \in Seq(SB!Word)
      <4> TAKE e \in 1..n
      <4>1. e \in 1..Events
        BY Constants
      <4> QED BY <4>1, EventIs
    <3>2. FirstEvents(n) \in [1..n -> Seq(SB!Word)]
      BY <3>1 DEF FirstEvents
    <3> QED BY <3>2
  <2>2. v \in Seq(SB!Word)
    BY <1>1, EventIs
  <2>3. FirstEvents(n + 1) = Append(FirstEvents(n), v)
    <3>1. /\ Append(FirstEvents(n), v) \in Seq(Seq(SB!Word)) /\ Len(Append(FirstEvents(n), v)) = n + 1
          /\ \A k \in 1..n : Append(FirstEvents(n), v)[k] = FirstEvents(n)[k]
          /\ Append(FirstEvents(n), v)[n + 1] = v
      BY <2>1, <2>2, AppendProperties
    <3>2. FirstEvents(n + 1) \in Seq(Seq(SB!Word)) /\ Len(FirstEvents(n + 1)) = n + 1
      <4>1. \A e \in 1..n + 1 : Event(e) \in Seq(SB!Word)
        <5> TAKE e \in 1..n + 1
        <5>1. e \in 1..Events
          BY <1>1, Constants
        <5> QED BY <5>1, EventIs
      <4>2. FirstEvents(n + 1) \in [1..n + 1 -> Seq(SB!Word)] /\ n + 1 \in Nat
        BY <4>1 DEF FirstEvents
      <4> QED BY <4>2
    <3>3. \A k \in 1..n + 1 : FirstEvents(n + 1)[k] = Append(FirstEvents(n), v)[k]
      <4> TAKE k \in 1..n + 1
      <4>1. CASE k = n + 1
        BY <3>1, <4>1 DEF FirstEvents
      <4>2. CASE k # n + 1
        <5>1. k \in 1..n
          BY <4>2
        <5> QED BY <3>1, <5>1 DEF FirstEvents
      <4> QED BY <4>1, <4>2
    <3> QED BY <3>1, <3>2, <3>3, SeqEqual
  <2> HIDE DEF v
  <2> QED BY <2>1, <2>2, <2>3, FlattenSeqAppend
<1>3. /\ x \in Seq(SB!Word) /\ Whole(x) /\ Ordered(x)
      /\ Len(x) = 0 \/ x[Len(x)] = EOD
      /\ \A k \in 1..Len(x) : x[k] # EOD => x[k][1] \in 1..n
  BY DEF Sent
<1>4. /\ v \in Seq(SB!Word) /\ Len(v) = EventSize + 1 /\ Whole(v)
      /\ \A k \in 1..EventSize : v[k] = <<n + 1, k>>
      /\ v[EventSize + 1] = EOD
  BY <1>1, EventIs
<1> HIDE DEF x, v, z
<1>5. /\ z \in Seq(SB!Word) /\ Len(x) \in Nat /\ Len(v) \in Nat /\ Len(z) = Len(x) + Len(v)
      /\ \A k \in 1..Len(x) : z[k] = x[k]
      /\ \A k \in 1..Len(v) : z[Len(x) + k] = v[k]
  BY <1>2, <1>3, <1>4, Concat
<1>6. Whole(z)
  BY <1>2, <1>3, <1>4, WholeConcat
<1>7. z[Len(z)] = EOD
  <2>1. Len(v) \in 1..Len(v)
    BY <1>4, Constants
  <2> QED BY <1>4, <1>5, <2>1
<1>8. ASSUME NEW k \in 1..Len(z), z[k] # EOD
      PROVE  \/ k \in 1..Len(x) /\ z[k] = x[k] /\ z[k][1] \in 1..n
             \/ /\ k - Len(x) \in 1..EventSize /\ z[k] = <<n + 1, k - Len(x)>>
  <2>1. CASE k \in 1..Len(x)
    BY <1>3, <1>5, <1>8, <2>1
  <2>2. CASE k \notin 1..Len(x)
    <3> DEFINE l == k - Len(x)
    <3>1. l \in 1..Len(v) /\ Len(x) + l = k
      BY <1>5, <2>2
    <3> HIDE DEF l
    <3>2. z[k] = v[l]
      BY <1>5, <3>1
    <3>3. l # EventSize + 1
      BY <1>4, <1>8, <3>2
    <3>4. l \in 1..EventSize
      BY <1>4, <3>1, <3>3, Constants
    <3> QED BY <1>4, <3>2, <3>4 DEF l
  <2> QED BY <2>1, <2>2
<1>9. \A k \in 1..Len(z) : z[k] # EOD => z[k][1] \in 1..n + 1
  <2> SUFFICES ASSUME NEW k \in 1..Len(z), z[k] # EOD PROVE z[k][1] \in 1..n + 1
    OBVIOUS
  <2>1. CASE z[k][1] \in 1..n
    BY <2>1
  <2>2. CASE z[k] = <<n + 1, k - Len(x)>>
    <3>1. z[k][1] = n + 1
      BY <2>2
    <3> QED BY <3>1
  <2> QED BY <1>8, <2>1, <2>2
<1>10. Ordered(z)
  <2> SUFFICES ASSUME NEW k \in 1..Len(z), NEW l \in 1..Len(z), k < l, z[k] # EOD, z[l] # EOD
               PROVE  Before(z[k], z[l])
    BY DEF Ordered
  <2>1. CASE l \in 1..Len(x)
    <3>1. k \in 1..Len(x)
      BY <1>5, <2>1
    <3> QED BY <1>3, <1>5, <2>1, <3>1 DEF Ordered
  <2>2. CASE l \notin 1..Len(x)
    <3>1. l - Len(x) \in 1..EventSize /\ z[l] = <<n + 1, l - Len(x)>>
      BY <1>8, <2>2
    <3>2. z[l][1] = n + 1 /\ z[l][2] = l - Len(x)
      BY <3>1
    <3>3. CASE z[k][1] \in 1..n
      BY <3>2, <3>3 DEF Before
    <3>4. CASE z[k] = <<n + 1, k - Len(x)>>
      <4>1. z[k][1] = n + 1 /\ z[k][2] = k - Len(x) /\ k - Len(x) < l - Len(x)
        BY <1>5, <3>4
      <4> QED BY <3>2, <4>1 DEF Before
    <3> QED BY <1>8, <3>3, <3>4
  <2> QED BY <2>1, <2>2
<1> QED BY <1>5, <1>6, <1>7, <1>9, <1>10 DEF Sent, z

LEMMA StreamIs == Stream \in Seq(SB!Word) /\ Whole(Stream) /\ Ordered(Stream)
<1>1. Sent(0)
  <2>1. FirstEvents(0) = <<>>
    <3>1. FirstEvents(0) \in Seq(SB!Word) /\ Len(FirstEvents(0)) = 0
      BY DEF FirstEvents
    <3> QED BY <3>1, EmptySeq
  <2>2. FlattenSeq(FirstEvents(0)) = <<>>
    BY <2>1, FlattenSeqEmpty
  <2>3. <<>> \in Seq(SB!Word) /\ Len(<<>>) = 0
    OBVIOUS
  <2>4. Whole(<<>>)
    BY <2>3 DEF Whole
  <2>5. Ordered(<<>>)
    BY <2>3 DEF Ordered
  <2>6. \A k \in 1..Len(<<>>) : FALSE
    BY <2>3
  <2> HIDE DEF FirstEvents
  <2> QED BY <2>2, <2>3, <2>4, <2>5, <2>6 DEF Sent
<1>2. \A n \in Nat : n <= Events => Sent(n)
  <2> DEFINE T == {n \in Nat : n <= Events /\ ~Sent(n)}
  <2>1. SUFFICES ASSUME T # {} PROVE FALSE
    OBVIOUS
  <2>2. PICK n \in T : \A m \in T : ~(m < n)
    BY <2>1, LeastOne
  <2>3. n # 0
    BY <1>1, <2>2
  <2>4. n - 1 \in Nat /\ n - 1 < n /\ n - 1 < Events /\ (n - 1) + 1 = n
    BY <2>2, <2>3, Constants
  <2>5. Sent(n - 1)
    <3>1. n - 1 \notin T
      <4> HIDE DEF T
      <4> QED BY <2>2, <2>4
    <3>2. n - 1 <= Events
      BY <2>4, Constants
    <3> QED BY <2>4, <3>1, <3>2
  <2>6. Sent((n - 1) + 1)
    BY <2>4, <2>5, SentNext
  <2> QED BY <2>2, <2>4, <2>6
<1>3. Sent(Events) /\ Stream = FlattenSeq(FirstEvents(Events))
  BY <1>2, Constants DEF Stream, FirstEvents
<1> QED BY <1>3 DEF Sent
-----------------------------------------------------------------------------
(* What a receipt finds and what process_fragment makes of it.             *)
LEMMA Received ==
    ASSUME Base, NEW s \in SFP, SB!RecvFragment(s)
    PROVE  /\ pc[s] = "dump" /\ query[s] = FALSE
           /\ request[s] = <<>> /\ answer[s] = <<>>
           /\ payload_size[s] = 0 /\ status[s] = 0
           /\ fragment[s] # <<>> /\ fragment[s] = <<Head(fragment[s])>>
           /\ Head(fragment[s]) \in Seq(SB!Word)
           /\ SB!Filled(s) \in Seq(SB!Word)
           /\ Len(SB!Filled(s)) <= MaxPayload
           /\ ~SB!Overflows(buffer[s], Head(fragment[s])) =>
                SB!Filled(s) = buffer[s] \o Head(fragment[s])
           /\ SB!FoundSize(s) \in 0..(MaxPayload - 1)
           /\ SB!FoundSize(s) # 0 =>
                /\ SB!FoundSize(s) \in 1..Len(SB!Filled(s))
                /\ SB!IsSubeventEnd(SB!Filled(s), SB!FoundSize(s))
<1> DEFINE f == Head(fragment[s])
<1>1. /\ pc[s] = "dump" /\ query[s] = FALSE
      /\ request[s] = <<>> /\ answer[s] = <<>>
      /\ payload_size[s] = 0 /\ status[s] = 0
      /\ fragment[s] # <<>>
  BY DEF SB!RecvFragment, Base, Types, Serving
<1>2. fragment[s] = <<f>> /\ f \in Seq(SB!Word)
  BY <1>1, OneOf DEF Base, Types
<1>3. buffer[s] \in Seq(SB!Word) /\ Len(buffer[s]) <= MaxPayload
  BY DEF Base, Types, Serving
<1>4. CASE SB!Overflows(buffer[s], f)
  <2>1. SB!Filled(s) = <<>> /\ SB!FoundSize(s) = 0
    BY <1>1, <1>4 DEF SB!Filled, SB!FoundSize
  <2>2. SB!Filled(s) \in Seq(SB!Word) /\ Len(SB!Filled(s)) <= MaxPayload
    BY <2>1, Constants, EmptySeq
  <2>3. SB!FoundSize(s) \in 0..(MaxPayload - 1)
    BY <2>1, Constants
  <2> QED BY <1>1, <1>2, <1>4, <2>1, <2>2, <2>3
<1>5. CASE ~SB!Overflows(buffer[s], f)
  <2> DEFINE b == buffer[s] \o f
  <2>1. b \in Seq(SB!Word) /\ Len(b) = Len(buffer[s]) + Len(f)
    BY <1>2, <1>3, ConcatProperties
  <2>2. SB!Filled(s) = b
    BY <1>5 DEF SB!Filled
  <2> HIDE DEF b
  <2>3. ~(Len(f) > MaxPayload - Len(buffer[s]))
    BY <1>5 DEF SB!Overflows
  <2>4. Len(b) \in Nat /\ Len(b) <= MaxPayload
    <3>1. Len(f) \in Nat /\ Len(buffer[s]) \in Nat
      BY <1>2, <1>3
    <3> HIDE DEF f
    <3> QED BY <2>1, <2>3, <3>1, Constants
  <2>5. SB!FoundSize(s) = IF f = <<>> THEN 0 ELSE SB!find_dword(b) % MaxPayload
    BY <1>1, <1>5 DEF SB!FoundSize, b
  <2>6. SB!find_dword(b) \in 0..Len(b)
    BY <2>1, FindDword
  <2>7. SB!find_dword(b) \in 0..MaxPayload
    BY <2>4, <2>6, Constants
  <2>8. SB!find_dword(b) % MaxPayload =
            IF SB!find_dword(b) = MaxPayload THEN 0 ELSE SB!find_dword(b)
    BY <2>7, HeaderField, Constants
  <2>9. \/ SB!FoundSize(s) = 0
        \/ SB!FoundSize(s) = SB!find_dword(b) /\ SB!find_dword(b) # MaxPayload
    BY <2>5, <2>8
  <2>10. SB!FoundSize(s) # 0 => SB!IsSubeventEnd(b, SB!FoundSize(s))
    BY <2>1, <2>9, FindDword
  <2>11. SB!FoundSize(s) \in 0..(MaxPayload - 1)
    BY <2>7, <2>9, Constants
  <2>12. SB!FoundSize(s) # 0 => SB!FoundSize(s) \in 1..Len(b)
    BY <2>4, <2>6, <2>9
  <2>13. SB!Filled(s) = buffer[s] \o f
    BY <2>2 DEF b
  <2> QED BY <1>1, <1>2, <2>1, <2>2, <2>4, <2>10, <2>11, <2>12, <2>13
<1> QED BY <1>4, <1>5

(* What the receipt of a fragment does to the variables it changes.        *)
LEMMA ReceivedTypes ==
    ASSUME Base, NEW s \in SFP, SB!RecvFragment(s)
    PROVE  /\ fragment' = [fragment EXCEPT ![s] = <<>>]
           /\ fragment'[s] = <<>> /\ \A r \in SFP \ {s} : fragment'[r] = fragment[r]
           /\ fragment' \in [SFP -> AtMostOne(Seq(SB!Word))]
           /\ received' = [received EXCEPT ![s] = @ \o Head(fragment[s])]
           /\ received' \in [SFP -> Seq(SB!Word)]
           /\ overflowed' \in [SFP -> BOOLEAN]
           /\ overflowed'[s] = (overflowed[s] \/ SB!Overflows(buffer[s], Head(fragment[s])))
           /\ \A r \in SFP \ {s} : overflowed'[r] = overflowed[r]
           /\ request' = request /\ expired' = expired
<1> DEFINE f == Head(fragment[s])
           o == SB!Overflows(buffer[s], f)
<1>1. f \in Seq(SB!Word)
  BY Received
<1>2. /\ fragment' = [fragment EXCEPT ![s] = <<>>]
      /\ received' = [received EXCEPT ![s] = @ \o f]
      /\ overflowed' = [overflowed EXCEPT ![s] = @ \/ o]
      /\ request' = request /\ expired' = expired
  BY DEF SB!RecvFragment
<1>3. o \in BOOLEAN
  BY DEF SB!Overflows
<1> HIDE DEF f, o
<1>4. received[s] \o f \in Seq(SB!Word)
  BY <1>1, ConcatProperties DEF Base, Types
<1>5. received' \in [SFP -> Seq(SB!Word)]
  BY <1>2, <1>4 DEF Base, Types
<1>6. /\ overflowed' \in [SFP -> BOOLEAN]
      /\ overflowed'[s] = (overflowed[s] \/ o)
      /\ \A r \in SFP \ {s} : overflowed'[r] = overflowed[r]
  BY <1>2, <1>3 DEF Base, Types
<1>7. /\ fragment' \in [SFP -> AtMostOne(Seq(SB!Word))]
      /\ fragment'[s] = <<>> /\ \A r \in SFP \ {s} : fragment'[r] = fragment[r]
  BY <1>2 DEF Base, Types, AtMostOne
<1> QED BY <1>2, <1>5, <1>6, <1>7 DEF f, o

(* What a builder answers.                                                 *)
LEMMA AnswerType ==
    ASSUME NEW st \in {0, 1}, NEW p \in Seq(SB!Word)
    PROVE  /\ [status |-> st, payload |-> p] \in SB!Answer
           /\ <<[status |-> st, payload |-> p]>> \in AtMostOne(SB!Answer)
           /\ <<[status |-> st, payload |-> p]>> # <<>>
<1>1. [status |-> st, payload |-> p] \in SB!Answer
  BY DEF SB!Answer
<1> QED BY <1>1, OneIs

-----------------------------------------------------------------------------
(* Base, one step each.  First the tasks.                                  *)
LEMMA InitBase == Init => Base
<1> SUFFICES ASSUME Init PROVE Base
  OBVIOUS
<1> USE DEF Init, SB!Init
<1>1. Types
  <2>1. Stream \in Seq(SB!Word) /\ <<>> \in Seq(SB!Word)
    BY StreamIs
  <2>2. <<>> \in Seq({"here", "gone"})
    OBVIOUS
  <2>3. /\ request \in [SFP -> AtMostOne({"read"})] /\ answer \in [SFP -> AtMostOne(SB!Answer)]
        /\ fragment \in [SFP -> AtMostOne(Seq(SB!Word))]
    BY DEF AtMostOne
  <2> HIDE DEF Stream
  <2> QED BY <2>1, <2>2, <2>3, Constants DEF Types
<1>2. Serving
  <2>1. Len(<<>>) = 0
    OBVIOUS
  <2> QED BY <2>1, Constants DEF Serving, Idle
<1>3. Asking
  <2>1. Len(<<>>) = 0
    OBVIOUS
  <2>2. \A k \in 1..0 : FALSE
    OBVIOUS
  <2> QED BY <2>1, <2>2 DEF Asking
<1> QED BY <1>1, <1>2, <1>3 DEF Base

(* Nothing but the builders, at and damaged change.                        *)
Others == <<box, subevd, link, clients, deaths>>

LEMMA RecvReadBase ==
    ASSUME Base, NEW s \in SFP, SB!RecvRead(s), at' = [at EXCEPT ![s] = "subevd"],
           UNCHANGED <<Others, damaged>>
    PROVE  Base'
<1> USE DEF Base, SB!RecvRead, Others, box, clients, deaths, SB!history
<1>1. Types'
  <2>1. /\ pc' \in [SFP -> {"recv", "dump"}] /\ query' \in [SFP -> BOOLEAN]
        /\ expired' \in [SFP -> BOOLEAN] /\ status' \in [SFP -> {0, 1}]
        /\ at' \in [SFP -> {"subevd", "trdboxd", "nowhere"}]
        /\ payload_size' \in [SFP -> 0..(MaxPayload - 1)]
    BY Constants DEF Types
  <2>2. request' \in [SFP -> AtMostOne({"read"})]
    BY DEF Types, AtMostOne
  <2> QED BY <2>1, <2>2 DEF Types
<1>2. request[s] # <<>> /\ answer[s] = <<>> /\ fragment[s] = <<>>
  BY NotEmpty DEF Serving
<1>3. Serving'
  <2>1. /\ pc'[s] = "dump" /\ request'[s] = <<>> /\ query'[s] = TRUE
        /\ payload_size'[s] = 0 /\ status'[s] = 0
        /\ \A r \in SFP \ {s} :
              /\ pc'[r] = pc[r] /\ request'[r] = request[r] /\ query'[r] = query[r]
              /\ payload_size'[r] = payload_size[r] /\ status'[r] = status[r]
    BY DEF Types
  <2>2. answer' = answer /\ fragment' = fragment /\ buffer' = buffer /\ asker' = asker
    OBVIOUS
  <2>3. asker[s] # "none"
    BY <1>2 DEF Serving, Idle
  <2>4. \A r \in SFP : asker'[r] = "none" <=> Idle(r)'
    <3> TAKE r \in SFP
    <3>1. CASE r = s
      BY <2>1, <2>2, <2>3, <3>1 DEF Idle
    <3>2. CASE r # s
      BY <2>1, <2>2, <3>2 DEF Serving, Idle
    <3> QED BY <3>1, <3>2
  <2> QED BY <1>2, <2>1, <2>2, <2>4 DEF Serving
<1>4. Asking'
  BY DEF Asking
<1> QED BY <1>1, <1>3, <1>4

LEMMA ReplyTimeoutBase ==
    ASSUME Base, NEW s \in SFP, SB!ReplyTimeout(s), UNCHANGED <<Others, at, damaged>>
    PROVE  Base'
<1> USE DEF Base
<1>1. SB!RecvFragment(s)
  BY DEF SB!ReplyTimeout
<1>2. <<[status |-> 1, payload |-> <<>>]>> \in AtMostOne(SB!Answer)
  BY EmptySeq, AnswerType
<1>3. Types'
  <2>1. /\ fragment' \in [SFP -> AtMostOne(Seq(SB!Word))]
        /\ received' \in [SFP -> Seq(SB!Word)]
        /\ overflowed' \in [SFP -> BOOLEAN]
        /\ request' = request /\ expired' = expired
        /\ SB!Filled(s) \in Seq(SB!Word)
    BY <1>1, Received, ReceivedTypes
  <2>2. /\ payload_size' \in [SFP -> 0..(MaxPayload - 1)]
        /\ status' \in [SFP -> {0, 1}]
        /\ pc' \in [SFP -> {"recv", "dump"}]
        /\ buffer' \in [SFP -> Seq(SB!Word)]
        /\ answer' \in [SFP -> AtMostOne(SB!Answer)]
    BY <1>2, <2>1, Constants DEF SB!ReplyTimeout, Types
  <2>3. UNCHANGED <<query, delivered, Others, at, damaged>>
    BY DEF SB!ReplyTimeout
  <2> QED BY <2>1, <2>2, <2>3 DEF Types, Others, box, clients, deaths
<1>4. /\ query[s] = FALSE /\ request[s] = <<>> /\ pc[s] = "dump"
      /\ Len(SB!Filled(s)) <= MaxPayload
      /\ fragment' = [fragment EXCEPT ![s] = <<>>]
      /\ request' = request
  BY <1>1, Received, ReceivedTypes
<1>5. Serving'
  BY <1>4 DEF SB!ReplyTimeout, Types, Serving, Idle, Others, clients
<1>6. Asking'
  BY DEF Asking, Others, clients
<1> QED BY <1>3, <1>5, <1>6

LEMMA QueryAgainBase ==
    ASSUME Base, NEW s \in SFP, SB!QueryAgain(s), at' = [at EXCEPT ![s] = "subevd"],
           UNCHANGED <<Others, damaged>>
    PROVE  Base'
<1> USE DEF Base
<1>1. SB!RecvFragment(s)
  BY DEF SB!QueryAgain
<1>2. Types'
  <2>1. /\ fragment' \in [SFP -> AtMostOne(Seq(SB!Word))]
        /\ received' \in [SFP -> Seq(SB!Word)]
        /\ overflowed' \in [SFP -> BOOLEAN]
        /\ request' = request /\ expired' = expired
        /\ SB!Filled(s) \in Seq(SB!Word)
    BY <1>1, Received, ReceivedTypes
  <2>2. /\ payload_size' \in [SFP -> 0..(MaxPayload - 1)]
        /\ query' \in [SFP -> BOOLEAN]
        /\ buffer' \in [SFP -> Seq(SB!Word)]
        /\ at' \in [SFP -> {"subevd", "trdboxd", "nowhere"}]
    BY <2>1, Constants DEF SB!QueryAgain, Types
  <2>3. UNCHANGED <<pc, status, answer, delivered, Others, damaged>>
    BY DEF SB!QueryAgain
  <2> QED BY <2>1, <2>2, <2>3 DEF Types, Others, box, clients, deaths
<1>3. /\ request[s] = <<>> /\ answer[s] = <<>> /\ pc[s] = "dump"
      /\ status[s] = 0
      /\ Len(SB!Filled(s)) <= MaxPayload
      /\ fragment' = [fragment EXCEPT ![s] = <<>>]
      /\ request' = request
  BY <1>1, Received, ReceivedTypes
<1>4. Serving'
  BY <1>3 DEF SB!QueryAgain, Types, Serving, Idle, Others, clients
<1>5. Asking'
  BY DEF Asking, Others, clients
<1> QED BY <1>2, <1>4, <1>5

LEMMA ReplySubeventBase ==
    ASSUME Base, NEW s \in SFP, SB!ReplySubevent(s), UNCHANGED <<Others, at>>,
           damaged' \in [SFP -> Nat]
    PROVE  Base'
<1> USE DEF Base
<1> DEFINE n == SB!FoundSize(s)
           b == SB!Filled(s)
           p == SubSeq(b, 1, n)
           q == SubSeq(b, n + 1, Len(b))
<1>1. SB!RecvFragment(s)
  BY DEF SB!ReplySubevent
<1>2. /\ b \in Seq(SB!Word) /\ Len(b) <= MaxPayload
      /\ n \in 0..(MaxPayload - 1) /\ n \in 1..Len(b)
      /\ status[s] = 0 /\ request[s] = <<>> /\ answer[s] = <<>>
      /\ query[s] = FALSE /\ pc[s] = "dump"
  <2>1. n # 0
    BY <1>1, Received DEF SB!ReplySubevent
  <2> QED BY <1>1, <2>1, Received
<1>3. /\ payload_size' = [payload_size EXCEPT ![s] = n]
      /\ buffer' = [buffer EXCEPT ![s] = q]
      /\ answer' = [answer EXCEPT ![s] = <<[status |-> status[s], payload |-> p]>>]
      /\ delivered' = [delivered EXCEPT ![s] = @ \o p]
      /\ pc' = [pc EXCEPT ![s] = "recv"]
      /\ UNCHANGED <<query, status>>
  BY DEF SB!ReplySubevent
<1> HIDE DEF n, b
<1>4. p \in Seq(SB!Word) /\ q \in Seq(SB!Word) /\ Len(q) <= MaxPayload
  <2>1. p \in Seq(SB!Word) /\ q \in Seq(SB!Word) /\ Len(q) <= Len(b)
    BY <1>2, CutBuffer
  <2> HIDE DEF p, q
  <2> QED BY <1>2, <2>1, Constants
<1> HIDE DEF p, q
<1>5. /\ <<[status |-> status[s], payload |-> p]>> \in AtMostOne(SB!Answer)
      /\ <<[status |-> status[s], payload |-> p]>> # <<>>
  BY <1>2, <1>4, AnswerType
<1>6. Types'
  <2>1. /\ fragment' \in [SFP -> AtMostOne(Seq(SB!Word))]
        /\ received' \in [SFP -> Seq(SB!Word)]
        /\ overflowed' \in [SFP -> BOOLEAN]
        /\ request' = request /\ expired' = expired
    BY <1>1, ReceivedTypes
  <2>2. delivered[s] \o p \in Seq(SB!Word)
    BY <1>4, ConcatProperties DEF Types
  <2>3. /\ payload_size' \in [SFP -> 0..(MaxPayload - 1)]
        /\ pc' \in [SFP -> {"recv", "dump"}]
        /\ buffer' \in [SFP -> Seq(SB!Word)]
        /\ delivered' \in [SFP -> Seq(SB!Word)]
    BY <1>2, <1>3, <1>4, <2>2 DEF Types
  <2>4. answer' \in [SFP -> AtMostOne(SB!Answer)]
    BY <1>3, <1>5 DEF Types
  <2> QED BY <1>3, <2>1, <2>3, <2>4 DEF Types, Others, box, clients, deaths
<1>7. fragment' = [fragment EXCEPT ![s] = <<>>] /\ request' = request
  BY <1>1, ReceivedTypes
<1>8. Serving'
  BY <1>2, <1>3, <1>4, <1>5, <1>7 DEF Types, Serving, Idle, Others, clients
<1>9. Asking'
  BY DEF Asking, Others, clients
<1> QED BY <1>6, <1>8, <1>9

LEMMA BuildBase ==
    ASSUME Base, NEW s \in SFP, Build(s)
    PROVE  Base'
<1>1. UNCHANGED Others
  BY DEF Build, Others
<1>2. CASE SB!RecvRead(s) /\ at' = [at EXCEPT ![s] = "subevd"] /\ UNCHANGED damaged
  BY <1>1, <1>2, RecvReadBase
<1>3. CASE SB!QueryAgain(s) /\ at' = [at EXCEPT ![s] = "subevd"] /\ UNCHANGED damaged
  BY <1>1, <1>3, QueryAgainBase
<1>4. CASE SB!ReplyTimeout(s) /\ UNCHANGED <<at, damaged>>
  BY <1>1, <1>4, ReplyTimeoutBase
<1>5. CASE /\ SB!ReplySubevent(s)
           /\ damaged' = [damaged EXCEPT ![s] =
                 IF \E e \in 1..Events : answer'[s][1].payload = Event(e) THEN @ ELSE @ + 1]
           /\ UNCHANGED at
  <2>1. damaged' \in [SFP -> Nat]
    BY <1>5 DEF Base, Types
  <2> QED BY <1>1, <1>5, <2>1, ReplySubeventBase
<1> QED BY <1>2, <1>3, <1>4, <1>5 DEF Build
-----------------------------------------------------------------------------
(* Base and trdboxd, the cards and the detector.                           *)
LEMMA ExpireBase ==
    ASSUME Base, NEW s \in SFP, Expire(s)
    PROVE  Base'
<1> USE DEF Base, Expire, SB!Expire, box, clients, deaths, SB!history, SB!cmdsock,
            SB!ccbus, SB!header
<1>1. Types' /\ Serving'
  BY DEF Types, Serving, Idle
<1>2. Asking'
  BY DEF Asking
<1> QED BY <1>1, <1>2

LEMMA TerminateBase ==
  ASSUME Base, Terminate
  PROVE  Base'
<1> USE DEF Base, Terminate, builder, box, clients, deaths
<1>1. Types' /\ Serving'
  BY DEF Types, Serving, Idle
<1>2. Asking'
  BY DEF Asking
<1> QED BY <1>1, <1>2

LEMMA DeliverBase ==
  ASSUME Base, NEW s \in SFP, Deliver(s)
  PROVE  Base'
<1> USE DEF Base, Deliver, builder, box, clients, deaths
<1>1. Types' /\ Serving'
  BY DEF Types, Serving, Idle
<1>2. Asking'
  BY DEF Asking
<1> QED BY <1>1, <1>2

LEMMA ServeDumpBase ==
  ASSUME Base, NEW s \in SFP, ServeDump(s)
  PROVE  Base'
<1> USE DEF Base, ServeDump, clients, deaths
<1>1. fifo[s] \in Seq(SB!Word) /\ <<>> \in Seq(SB!Word)
  BY EmptySeq DEF Types
<1>2. <<fifo[s]>> \in AtMostOne(Seq(SB!Word)) /\ <<fifo[s]>> # <<>>
  BY <1>1, OneIs
<1>3. Types'
  <2>1. /\ query' \in [SFP -> BOOLEAN] /\ fragment' \in [SFP -> AtMostOne(Seq(SB!Word))]
        /\ fifo' \in [SFP -> Seq(SB!Word)]
    BY <1>1, <1>2 DEF Types
  <2> QED BY <2>1 DEF Types
<1>4. Serving'
  <2>1. pc[s] = "dump"
    BY DEF Types, Serving
  <2>2. /\ query'[s] = FALSE /\ fragment'[s] # <<>>
        /\ \A r \in SFP \ {s} : query'[r] = query[r] /\ fragment'[r] = fragment[r]
    BY <1>2 DEF Types
  <2> QED BY <2>1, <2>2 DEF Serving, Idle
<1>5. Asking'
  BY DEF Asking
<1> QED BY <1>3, <1>4, <1>5

LEMMA ServeOrphanBase ==
  ASSUME Base, NEW s \in SFP, ServeOrphan(s)
  PROVE  Base'
<1> USE DEF Base, ServeOrphan, builder, clients, deaths
<1>1. Types'
  <2>1. <<>> \in Seq(SB!Word)
    BY EmptySeq
  <2>2. subDeaths \in Nat /\ orphans[s] \in 0..subDeaths /\ orphans[s] > 0
    BY Constants DEF Types
  <2>3. orphans[s] - 1 \in 0..subDeaths
    BY <2>2
  <2> QED BY <2>1, <2>3 DEF Types
<1>2. Serving'
  BY DEF Serving, Idle
<1>3. Asking'
  BY DEF Asking
<1> QED BY <1>1, <1>2, <1>3

LEMMA ArriveBase ==
  ASSUME Base, NEW s \in SFP, Arrive(s)
  PROVE  Base'
<1> USE DEF Base, Arrive, builder, clients, deaths
<1>1. Types'
  <2>1. link[s] \in Seq(SB!Word) /\ link[s] # <<>> /\ fifo[s] \in Seq(SB!Word)
    BY DEF Types
  <2>2. Head(link[s]) \in SB!Word /\ Tail(link[s]) \in Seq(SB!Word)
    BY <2>1, HeadTailProperties
  <2>3. Append(fifo[s], Head(link[s])) \in Seq(SB!Word)
    BY <2>1, <2>2, AppendProperties
  <2> QED BY <2>2, <2>3 DEF Types
<1>2. Serving'
  BY DEF Serving, Idle
<1>3. Asking'
  BY DEF Asking
<1> QED BY <1>1, <1>2, <1>3

LEMMA BoxDiesBase ==
  ASSUME Base, BoxDies
  PROVE  Base'
<1> USE DEF Base, clients
<1> PICK lost \in SUBSET {s \in SFP : fragment[s] # <<>>} :
        /\ fragment' = [s \in SFP |-> IF s \in lost THEN <<>> ELSE fragment[s]]
        /\ query' = [s \in SFP |-> query[s] \/ s \in lost]
        /\ at' = [s \in SFP |-> IF s \in lost \/ (query[s] /\ at[s] = "trdboxd")
                                THEN "nowhere" ELSE at[s]]
  BY DEF BoxDies
<1>1. UNCHANGED <<pc, request, answer, expired, buffer, payload_size, status, received,
                  delivered, overflowed, fifo, subevd, link, asked, queue, asker, subDeaths,
                  daqDeaths, damaged>>
  BY DEF BoxDies
<1>2. Types'
  <2>1. /\ query' \in [SFP -> BOOLEAN] /\ at' \in [SFP -> {"subevd", "trdboxd", "nowhere"}]
        /\ fragment' \in [SFP -> AtMostOne(Seq(SB!Word))]
    <3>1. \A s \in SFP : (query[s] \/ s \in lost) \in BOOLEAN
      OBVIOUS
    <3> QED BY <3>1 DEF Types, AtMostOne
  <2>2. trdboxd' \in {"up", "down"} /\ boxDeaths' \in 0..MaxBoxDeaths
    BY Constants DEF Types, BoxDies
  <2>3. orphans' \in [SFP -> 0..subDeaths]
    BY Constants DEF Types, BoxDies
  <2> QED BY <1>1, <2>1, <2>2, <2>3 DEF Types
<1>3. Serving'
  <2>1. ASSUME NEW s \in SFP
        PROVE  /\ pc[s] = "recv" => ~query'[s] /\ fragment'[s] = <<>>
               /\ pc[s] = "dump" => (query'[s] <=> fragment'[s] = <<>>)
    <3>1. CASE s \in lost
      <4>1. fragment[s] # <<>> /\ query'[s] = TRUE /\ fragment'[s] = <<>>
        BY <3>1
      <4>2. pc[s] # "recv"
        BY <4>1 DEF Serving
      <4> QED BY <4>1, <4>2
    <3>2. CASE s \notin lost
      <4>1. fragment'[s] = fragment[s] /\ (query'[s] <=> query[s])
        BY <3>2 DEF Types
      <4> QED BY <4>1 DEF Serving
    <3> QED BY <3>1, <3>2
  <2> QED BY <1>1, <2>1 DEF Serving, Idle
<1>4. Asking'
  BY <1>1 DEF Asking
<1> QED BY <1>2, <1>3, <1>4

LEMMA BoxStartBase ==
  ASSUME Base, BoxStart
  PROVE  Base'
<1> USE DEF Base, builder, clients, deaths
<1> PICK missed \in [SFP -> 0..EventSize + 1] :
        /\ \A s \in SFP : missed[s] <= Len(link[s])
        /\ link' = [s \in SFP |-> SubSeq(link[s], missed[s] + 1, Len(link[s]))]
  BY DEF BoxStart
<1>1. /\ UNCHANGED <<builder, orphans, subevd, at, clients, deaths, damaged>>
      /\ trdboxd' = "up" /\ fifo' = [s \in SFP |-> <<>>]
  BY DEF BoxStart
<1>2. link' \in [SFP -> Seq(SB!Word)]
  <2>1. ASSUME NEW s \in SFP
        PROVE  SubSeq(link[s], missed[s] + 1, Len(link[s])) \in Seq(SB!Word)
    <3>1. link[s] \in Seq(SB!Word) /\ missed[s] \in 0..Len(link[s])
      <4>1. link[s] \in Seq(SB!Word) /\ missed[s] \in Nat /\ Len(link[s]) \in Nat
        BY Constants DEF Types
      <4> QED BY <4>1
    <3> QED BY <3>1, CutBuffer
  <2> QED BY <2>1
<1>3. fifo' \in [SFP -> Seq(SB!Word)]
  BY <1>1, EmptySeq
<1>4. Types'
  BY <1>1, <1>2, <1>3 DEF Types
<1>5. Serving'
  BY <1>1 DEF Serving, Idle
<1>6. Asking'
  BY <1>1 DEF Asking
<1> QED BY <1>4, <1>5, <1>6

-----------------------------------------------------------------------------
(* Base and subevd's end and start.                                        *)
LEMMA SubDiesBase ==
  ASSUME Base, SubDies
  PROVE  Base'
<1> USE DEF Base
<1>1. Types'
  <2>1. /\ pc' \in [SFP -> {"recv", "dump"}] /\ request' \in [SFP -> AtMostOne({"read"})]
        /\ answer' \in [SFP -> AtMostOne(SB!Answer)] /\ query' \in [SFP -> BOOLEAN]
        /\ fragment' \in [SFP -> AtMostOne(Seq(SB!Word))] /\ expired' \in [SFP -> BOOLEAN]
    BY DEF SubDies, AtMostOne
  <2>2. /\ buffer' \in [SFP -> Seq(SB!Word)] /\ received' \in [SFP -> Seq(SB!Word)]
        /\ queue' \in [SFP -> Seq({"here", "gone"})]
    BY EmptySeq DEF SubDies
  <2>3. /\ payload_size' \in [SFP -> 0..(MaxPayload - 1)] /\ status' \in [SFP -> {0, 1}]
        /\ asker' \in [SFP -> {"none", "here", "gone"}]
        /\ asked' \in [SFP -> {"no", "queued", "sent", "lost"}]
        /\ subevd' \in {"up", "down", "stopping"} /\ subDeaths' \in 0..MaxSubDeaths
    BY Constants DEF SubDies, Types
  <2>4. orphans' \in [SFP -> 0..subDeaths']
    <3>1. ASSUME NEW s \in SFP
          PROVE  orphans[s] + (IF query[s] /\ at[s] = "trdboxd" THEN 1 ELSE 0) \in 0..subDeaths'
      <4>1. orphans[s] \in 0..subDeaths /\ subDeaths \in Nat /\ subDeaths' = subDeaths + 1
        BY Constants DEF SubDies, Types
      <4> QED BY <4>1
    <3> QED BY <3>1 DEF SubDies
  <2>5. UNCHANGED <<delivered, overflowed, trdboxd, fifo, link, at, boxDeaths, daqDeaths,
                    damaged>>
    BY DEF SubDies
  <2> QED BY <2>1, <2>2, <2>3, <2>4, <2>5 DEF Types
<1>2. Len(<<>>) = 0
  OBVIOUS
<1>3. Serving'
  BY <1>2, Constants DEF SubDies, Serving, Idle
<1>4. Asking'
  <2>1. \A s \in SFP : queue'[s] = <<>> /\ asker'[s] = "none" /\ asked'[s] # "sent"
    BY DEF SubDies
  <2>2. \A k \in 1..0 : FALSE
    OBVIOUS
  <2> QED BY <1>2, <2>1, <2>2 DEF Asking
<1> QED BY <1>1, <1>3, <1>4

LEMMA SubStartBase ==
  ASSUME Base, SubStart
  PROVE  Base'
<1> USE DEF Base, SubStart, builder, box, clients, deaths
<1>1. Types' /\ Serving'
  BY DEF Types, Serving, Idle
<1>2. Asking'
  BY DEF Asking
<1> QED BY <1>1, <1>2

-----------------------------------------------------------------------------
(* Base and minidaq's reads.                                               *)
LEMMA AskBase ==
  ASSUME Base, NEW s \in SFP, Ask(s)
  PROVE  Base'
<1> USE DEF Base, Ask, builder, box, deaths
<1>1. Types' /\ Serving'
  BY DEF Types, Serving, Idle
<1>2. Asking'
  <2>1. /\ asked'[s] = "queued" /\ asked[s] = "no"
        /\ \A r \in SFP \ {s} : asked'[r] = asked[r]
    BY DEF Types
  <2> QED BY <2>1 DEF Asking
<1> QED BY <1>1, <1>2

LEMMA SendBase ==
  ASSUME Base, NEW s \in SFP, Send(s)
  PROVE  Base'
<1> USE DEF Base, Send, builder, box, deaths
<1>1. /\ queue[s] \in Seq({"here", "gone"}) /\ Append(queue[s], "here") \in Seq({"here", "gone"})
      /\ Len(Append(queue[s], "here")) = Len(queue[s]) + 1
      /\ \A k \in 1..Len(queue[s]) : Append(queue[s], "here")[k] = queue[s][k]
      /\ Append(queue[s], "here")[Len(queue[s]) + 1] = "here"
  BY AppendProperties DEF Types
<1>2. Types'
  BY <1>1 DEF Types
<1>3. Serving'
  BY DEF Serving, Idle
<1>4. Asking'
  <2>1. asker[s] # "here" /\ \A k \in 1..Len(queue[s]) : queue[s][k] # "here"
    BY DEF Asking
  <2> DEFINE q == queue'[s]
             n == Len(queue[s])
  <2>2. /\ q = Append(queue[s], "here") /\ asked'[s] = "sent" /\ asker' = asker
        /\ \A r \in SFP \ {s} : asked'[r] = asked[r] /\ queue'[r] = queue[r]
    BY DEF Types
  <2>3. n \in Nat /\ Len(q) = n + 1 /\ q[n + 1] = "here" /\ \A k \in 1..n : q[k] # "here"
    BY <1>1, <2>1, <2>2
  <2> HIDE DEF q, n
  <2>4. \A k \in 1..Len(q) : q[k] = "here" <=> k = n + 1
    BY <2>3
  <2>5. /\ \E k \in 1..Len(q) : q[k] = "here"
        /\ \A k, l \in 1..Len(q) : q[k] = "here" /\ q[l] = "here" => k = l
    BY <2>3, <2>4
  <2> SUFFICES ASSUME NEW r \in SFP
               PROVE  /\ asked'[r] = "sent" <=> asker'[r] = "here" \/ \E k \in 1..Len(queue'[r]) : queue'[r][k] = "here"
                      /\ asker'[r] = "here" => \A k \in 1..Len(queue'[r]) : queue'[r][k] # "here"
                      /\ \A k, l \in 1..Len(queue'[r]) : queue'[r][k] = "here" /\ queue'[r][l] = "here" => k = l
    BY DEF Asking
  <2>6. CASE r = s
    BY <2>1, <2>2, <2>5, <2>6 DEF q
  <2>7. CASE r # s
    BY <2>2, <2>7 DEF Asking
  <2> QED BY <2>6, <2>7
<1> QED BY <1>2, <1>3, <1>4

LEMMA HandBase ==
  ASSUME Base, NEW s \in SFP, Hand(s)
  PROVE  Base'
<1> USE DEF Base, Hand, box, deaths
<1> DEFINE q == queue[s]
           t == queue'[s]
<1>1. /\ q \in Seq({"here", "gone"}) /\ q # <<>> /\ Head(q) \in {"here", "gone"}
      /\ Tail(q) \in Seq({"here", "gone"}) /\ Len(q) \in Nat /\ Len(Tail(q)) = Len(q) - 1
      /\ Len(q) # 0 /\ Head(q) = q[1]
      /\ \A k \in 1..Len(Tail(q)) : Tail(q)[k] = q[k + 1]
  BY HeadTailProperties, EmptySeq DEF Types
<1>2. <<"read">> \in AtMostOne({"read"}) /\ <<"read">> # <<>>
  BY OneIs
<1>3. /\ t = Tail(q) /\ asker'[s] = Head(q) /\ asked' = asked
      /\ request'[s] = <<"read">>
      /\ \A r \in SFP \ {s} : asker'[r] = asker[r] /\ queue'[r] = queue[r] /\ request'[r] = request[r]
  BY DEF Types
<1>4. Types'
  <2>1. /\ asker' \in [SFP -> {"none", "here", "gone"}]
        /\ queue' \in [SFP -> Seq({"here", "gone"})]
        /\ request' \in [SFP -> AtMostOne({"read"})]
    BY <1>1, <1>2 DEF Types
  <2> QED BY <2>1 DEF Types
<1>5. Serving'
  <2>1. Idle(s) /\ pc[s] = "recv"
    BY DEF Serving, Idle
  <2>2. answer[s] = <<>> /\ asker'[s] # "none"
    BY <1>1, <1>3, <2>1 DEF Idle
  <2> QED BY <1>2, <1>3, <2>1, <2>2 DEF Serving, Idle
<1>6. Asking'
  <2>1. asker[s] = "none"
    OBVIOUS
  <2>2. asked[s] = "sent" <=> \E k \in 1..Len(q) : q[k] = "here"
    BY <2>1 DEF Asking
  <2>3. \A k, l \in 1..Len(q) : q[k] = "here" /\ q[l] = "here" => k = l
    BY DEF Asking
  <2>4. Len(q) \in Nat \ {0} /\ Len(t) = Len(q) - 1 /\ asker'[s] = q[1]
        /\ \A k \in 1..Len(t) : t[k] = q[k + 1]
    BY <1>1, <1>3
  <2> HIDE DEF q, t
  <2>5. \A k \in 1..Len(t) : k + 1 \in 1..Len(q) /\ k + 1 # 1 /\ t[k] = q[k + 1]
    BY <2>4
  <2>6. \A k \in 1..Len(q) : k = 1 \/ (k - 1 \in 1..Len(t) /\ t[k - 1] = q[k])
    <3> TAKE k \in 1..Len(q)
    <3>1. CASE k # 1
      <4>1. k - 1 \in 1..Len(t) /\ (k - 1) + 1 = k
        BY <2>4, <3>1
      <4> QED BY <2>4, <4>1
    <3> QED BY <3>1
  <2>7. asked[s] = "sent" <=> asker'[s] = "here" \/ \E k \in 1..Len(t) : t[k] = "here"
    <3>1. 1 \in 1..Len(q)
      BY <2>4
    <3> QED BY <2>2, <2>4, <2>5, <2>6, <3>1
  <2>8. asker'[s] = "here" => \A k \in 1..Len(t) : t[k] # "here"
    <3>1. 1 \in 1..Len(q)
      BY <2>4
    <3> QED BY <2>3, <2>4, <2>5, <3>1
  <2>9. \A k, l \in 1..Len(t) : t[k] = "here" /\ t[l] = "here" => k = l
    <3> SUFFICES ASSUME NEW k \in 1..Len(t), NEW l \in 1..Len(t), t[k] = "here", t[l] = "here"
                 PROVE  k = l
      OBVIOUS
    <3>1. k + 1 = l + 1
      BY <2>3, <2>5
    <3> QED BY <3>1
  <2> SUFFICES ASSUME NEW r \in SFP
               PROVE  /\ asked'[r] = "sent" <=> asker'[r] = "here" \/ \E k \in 1..Len(queue'[r]) : queue'[r][k] = "here"
                      /\ asker'[r] = "here" => \A k \in 1..Len(queue'[r]) : queue'[r][k] # "here"
                      /\ \A k, l \in 1..Len(queue'[r]) : queue'[r][k] = "here" /\ queue'[r][l] = "here" => k = l
    BY DEF Asking
  <2>10. CASE r = s
    <3>1. asked'[s] = asked[s] /\ queue'[s] = t
      BY <1>3 DEF t
    <3> HIDE DEF Base, Hand, box, deaths
    <3> QED BY <2>7, <2>8, <2>9, <2>10, <3>1, Zenon
  <2>11. CASE r # s
    BY <1>3, <2>11 DEF Asking
  <2> QED BY <2>10, <2>11
<1> QED BY <1>4, <1>5, <1>6

LEMMA CollectBase ==
  ASSUME Base, NEW s \in SFP, Collect(s)
  PROVE  Base'
<1> USE DEF Base, Collect, box, deaths
<1>1. Types'
  BY DEF Types, AtMostOne
<1>2. /\ answer'[s] = <<>> /\ asker'[s] = "none"
      /\ asked'[s] = (IF asker[s] = "here" THEN "no" ELSE asked[s])
      /\ \A r \in SFP \ {s} : answer'[r] = answer[r] /\ asker'[r] = asker[r] /\ asked'[r] = asked[r]
      /\ queue' = queue
  BY DEF Types
<1>3. Serving'
  <2>1. pc[s] = "recv" /\ request[s] = <<>>
    BY DEF Serving, Types
  <2> QED BY <1>2, <2>1 DEF Serving, Idle
<1>4. Asking'
  BY <1>2 DEF Asking
<1> QED BY <1>1, <1>3, <1>4

LEMMA DaqDiesBase ==
  ASSUME Base, DaqDies
  PROVE  Base'
<1> USE DEF Base, DaqDies, builder, box
<1>1. ASSUME NEW s \in SFP
      PROVE  /\ queue'[s] \in Seq({"here", "gone"})
             /\ \A k \in 1..Len(queue'[s]) : queue'[s][k] # "here"
  <2>1. queue[s] \in Seq({"here", "gone"})
    BY DEF Types
  <2>2. DOMAIN queue[s] = 1..Len(queue[s]) /\ Len(queue[s]) \in Nat
    BY <2>1
  <2>3. queue'[s] = [k \in 1..Len(queue[s]) |-> "gone"]
    BY <2>2
  <2> HIDE DEF DaqDies
  <2>4. queue'[s] \in [1..Len(queue[s]) -> {"here", "gone"}]
    BY <2>3
  <2>5. queue'[s] \in Seq({"here", "gone"}) /\ Len(queue'[s]) = Len(queue[s])
    BY <2>2, <2>3, <2>4
  <2> QED BY <2>3, <2>5
<1>2. Types'
  <2>1. queue' \in [SFP -> Seq({"here", "gone"})]
    <3>1. queue' = [s \in SFP |-> queue'[s]]
      OBVIOUS
    <3> QED BY <1>1, <3>1
  <2>2. /\ asked' \in [SFP -> {"no", "queued", "sent", "lost"}]
        /\ asker' \in [SFP -> {"none", "here", "gone"}]
        /\ daqDeaths' \in 0..MaxDaqDeaths
    BY Constants DEF Types
  <2> QED BY <2>1, <2>2 DEF Types
<1>3. \A s \in SFP : asker'[s] # "here" /\ asked'[s] # "sent" /\ (asker'[s] = "none" <=> asker[s] = "none")
  BY DEF Types
<1>4. Serving'
  BY <1>3 DEF Serving, Idle
<1>5. Asking'
  BY <1>1, <1>3 DEF Asking
<1> QED BY <1>2, <1>4, <1>5

-----------------------------------------------------------------------------
LEMMA BaseNext == Base /\ [Next]_vars => Base'
<1> SUFFICES ASSUME Base, [Next]_vars PROVE Base'
  OBVIOUS
<1>1. CASE BoxDies
  BY <1>1, BoxDiesBase
<1>2. CASE BoxStart
  BY <1>2, BoxStartBase
<1>3. CASE SubDies
  BY <1>3, SubDiesBase
<1>4. CASE SubStart
  BY <1>4, SubStartBase
<1>5. CASE Terminate
  BY <1>5, TerminateBase
<1>6. CASE DaqDies
  BY <1>6, DaqDiesBase
<1>7. ASSUME NEW s \in SFP,
             \/ Build(s) \/ Expire(s)
             \/ Deliver(s) \/ ServeDump(s) \/ ServeOrphan(s) \/ Arrive(s)
             \/ Ask(s) \/ Send(s) \/ Hand(s) \/ Collect(s)
      PROVE  Base'
  BY <1>7, BuildBase, ExpireBase, DeliverBase, ServeDumpBase, ServeOrphanBase, ArriveBase,
     AskBase, SendBase, HandBase, CollectBase
<1>8. CASE UNCHANGED vars
  <2> USE <1>8 DEF Base, vars, builder, box, clients, deaths
  <2>1. Types' /\ Serving'
    BY DEF Types, Serving, Idle
  <2>2. Asking'
    BY DEF Asking
  <2> QED BY <2>1, <2>2
<1> QED BY <1>1, <1>2, <1>3, <1>4, <1>5, <1>6, <1>7, <1>8 DEF Next
-----------------------------------------------------------------------------
(* Dwords taken out of the middle.                                         *)
LEMMA OrderedDrop ==
    ASSUME NEW x \in Seq(SB!Word), NEW m \in Seq(SB!Word), NEW r \in Seq(SB!Word),
           Ordered(x \o (m \o r))
    PROVE  Ordered(x \o r)
<1> DEFINE y == m \o r
           z == x \o y
           v == x \o r
           a == Len(x)
           n == Len(m)
           l == Len(r)
<1>1. /\ a \in Nat /\ n \in Nat /\ l \in Nat /\ Len(y) = n + l /\ y \in Seq(SB!Word)
      /\ \A k \in 1..l : y[n + k] = r[k]
  BY Concat
<1>2. Len(v) = a + l /\ (\A k \in 1..a : v[k] = x[k]) /\ (\A k \in 1..l : v[a + k] = r[k])
  BY Concat
<1> HIDE DEF y
<1>3. Len(z) = a + Len(y) /\ (\A k \in 1..a : z[k] = x[k]) /\ (\A k \in 1..Len(y) : z[a + k] = y[k])
  BY <1>1, Concat
<1> HIDE DEF z, v, a, n, l
<1> DEFINE to(k) == IF k <= a THEN k ELSE k + n
<1>4. ASSUME NEW k \in 1..Len(v)
      PROVE  to(k) \in 1..Len(z) /\ z[to(k)] = v[k]
  <2>1. CASE k <= a
    <3>1. k \in 1..a /\ k \in 1..Len(z) /\ to(k) = k
      BY <1>1, <1>2, <1>3, <2>1
    <3> QED BY <1>2, <1>3, <3>1
  <2>2. CASE ~(k <= a)
    <3> DEFINE j == k - a
    <3>1. j \in 1..l /\ a + j = k /\ n + j \in 1..Len(y) /\ to(k) = a + (n + j)
      BY <1>1, <1>2, <2>2
    <3>2. to(k) \in 1..Len(z)
      BY <1>1, <1>3, <3>1
    <3> HIDE DEF j
    <3>3. v[k] = r[j] /\ z[to(k)] = y[n + j] /\ y[n + j] = r[j]
      BY <1>1, <1>2, <1>3, <3>1
    <3> QED BY <3>2, <3>3
  <2> QED BY <2>1, <2>2
<1>5. \A k, j \in 1..Len(v) : k < j => to(k) < to(j)
  BY <1>1, <1>2
<1> HIDE DEF to
<1>6. Ordered(v)
  <2> SUFFICES ASSUME NEW k \in 1..Len(v), NEW j \in 1..Len(v), k < j, v[k] # EOD, v[j] # EOD
               PROVE  Before(v[k], v[j])
    BY DEF Ordered
  <2>1. to(k) \in 1..Len(z) /\ to(j) \in 1..Len(z) /\ to(k) < to(j)
    BY <1>4, <1>5
  <2>2. z[to(k)] = v[k] /\ z[to(j)] = v[j]
    BY <1>4
  <2> QED BY <2>1, <2>2 DEF Ordered, z, y
<1> QED BY <1>6 DEF v

-----------------------------------------------------------------------------
(* The places at which words are not joined as they were sent.             *)
Cuts(y) == {p \in 0..Len(y) - 1 : ~Joined(y, p)}

LEMMA CutsFinite ==
    ASSUME NEW y \in Seq(SB!Word), NEW E \in SUBSET Nat, IsFiniteSet(E)
    PROVE  IsFiniteSet(Cuts(y) \cup E) /\ Cuts(y) \cup E \in SUBSET Nat
<1>1. Len(y) \in Nat
  OBVIOUS
<1>2. IsFiniteSet(0..Len(y) - 1)
  BY <1>1, FS_Interval
<1>3. IsFiniteSet(Cuts(y))
  BY <1>2, FS_Subset DEF Cuts
<1>4. IsFiniteSet(Cuts(y) \cup E)
  BY <1>3, FS_Union
<1>5. Cuts(y) \subseteq Nat
  BY <1>1 DEF Cuts
<1> QED BY <1>4, <1>5

(* A set of images has at most as many elements.                           *)
LEMMA ImageSize ==
    ASSUME NEW S, IsFiniteSet(S), NEW f, NEW T, \A t \in T : \E x \in S : f[x] = t
    PROVE  IsFiniteSet(T) /\ Cardinality(T) <= Cardinality(S)
<1> DEFINE U == {x \in S : f[x] \in T}
           g == [x \in U |-> f[x]]
<1>1. IsFiniteSet(U) /\ Cardinality(U) <= Cardinality(S)
  BY FS_Subset
<1>2. g \in Surjection(U, T)
  BY DEF Surjection
<1>3. IsFiniteSet(T) /\ Cardinality(T) <= Cardinality(U)
  BY <1>1, <1>2, FS_Surjection
<1>4. Cardinality(S) \in Nat /\ Cardinality(T) \in Nat /\ Cardinality(U) \in Nat
  BY <1>1, <1>3, FS_CardinalityType
<1> HIDE DEF U
<1> QED BY <1>1, <1>3, <1>4

(* m is taken out: the cuts that remain, and one where it was.             *)
LEMMA DropCuts ==
    ASSUME NEW p \in Seq(SB!Word), NEW m \in Seq(SB!Word), NEW r \in Seq(SB!Word),
           NEW C \in SUBSET Nat, IsFiniteSet(C), Len(p) \in C,
           Cuts(p \o (m \o r)) \subseteq C,
           NEW D, D \subseteq Cuts(p \o r) \cup {Len(p)}
    PROVE  IsFiniteSet(D) /\ Cardinality(D) <= Cardinality(C)
<1> DEFINE a == Len(p)
           n == Len(m)
           l == Len(r)
           f == [c \in C |-> IF c <= a THEN c ELSE c - n]
<1>1. /\ a \in Nat /\ n \in Nat /\ l \in Nat
      /\ m \o r \in Seq(SB!Word) /\ Len(m \o r) = n + l
      /\ p \o r \in Seq(SB!Word) /\ Len(p \o r) = a + l
      /\ p \o (m \o r) \in Seq(SB!Word) /\ Len(p \o (m \o r)) = a + (n + l)
  BY Concat
<1>2. ASSUME NEW d \in D
      PROVE  \E c \in C : f[c] = d
  <2>1. CASE d = a
    <3>1. a \in C /\ f[a] = a
      BY <1>1
    <3> QED BY <2>1, <3>1
  <2>2. CASE d # a
    <3>1. d \in 0..a + l - 1 /\ ~Joined(p \o r, d)
      BY <1>1, <2>2 DEF Cuts
    <3>2. CASE d < a
      <4>1. d \in 0..a - 1 /\ d \in 0..a + (n + l) - 1
        BY <1>1, <3>1, <3>2
      <4>2. ~Joined(p, d)
        BY <3>1, <4>1, JoinedFront
      <4>3. ~Joined(p \o (m \o r), d)
        BY <1>1, <4>1, <4>2, JoinedFront
      <4>4. d \in C
        BY <1>1, <4>1, <4>3 DEF Cuts
      <4>5. f[d] = d
        BY <1>1, <3>1, <3>2, <4>4
      <4> QED BY <4>4, <4>5
    <3>3. CASE d > a
      <4> DEFINE q == d - a
      <4>1. q \in 0..l - 1 /\ q # 0 /\ a + q = d
        BY <1>1, <3>1, <3>3
      <4>2. n + q \in 0..(n + l) - 1 /\ n + q # 0 /\ a + (n + q) \in 0..a + (n + l) - 1
        BY <1>1, <4>1
      <4>3. (a + (n + q)) - n = d /\ ~(a + (n + q) <= a)
        BY <1>1, <4>1
      <4> HIDE DEF q
      <4>4. ~Joined(r, q)
        BY <3>1, <4>1, JoinedBack
      <4>5. ~Joined(m \o r, n + q)
        BY <4>1, <4>4, JoinedBack
      <4>6. ~Joined(p \o (m \o r), a + (n + q))
        <5> DEFINE y == m \o r
                   j == n + q
        <5>1. y \in Seq(SB!Word) /\ j \in 0..Len(y) - 1 /\ j # 0 /\ ~Joined(y, j)
          BY <1>1, <4>2, <4>5
        <5> HIDE DEF y, j
        <5>2. ~Joined(p \o y, Len(p) + j)
          BY <5>1, JoinedBack
        <5> QED BY <5>2 DEF y, j
      <4>7. a + (n + q) \in C
        BY <1>1, <4>2, <4>6 DEF Cuts
      <4>8. f[a + (n + q)] = d
        BY <4>3, <4>7
      <4> QED BY <4>7, <4>8
    <3> QED BY <1>1, <2>2, <3>1, <3>2, <3>3
  <2> QED BY <2>1, <2>2
<1> HIDE DEF f
<1> QED BY <1>2, ImageSize

(* A front that ends in a marker is taken: its cuts are.                   *)
LEMMA PassCuts ==
    ASSUME NEW p \in Seq(SB!Word), NEW r \in Seq(SB!Word), Len(p) # 0, p[Len(p)] = EOD
    PROVE  /\ \A d \in Cuts(r) : d + Len(p) \in Cuts(p \o r)
           /\ Whole(p) \/ \E c \in Cuts(p \o r) : c < Len(p)
<1>1. Len(p) \in Nat /\ Len(r) \in Nat /\ Len(p \o r) = Len(p) + Len(r)
  BY Concat
<1>2. ASSUME NEW d \in Cuts(r)
      PROVE  d + Len(p) \in Cuts(p \o r)
  <2>1. d \in 0..Len(r) - 1 /\ ~Joined(r, d)
    BY DEF Cuts
  <2>2. ~Joined(p \o r, Len(p) + d)
    BY <2>1, JoinedBack
  <2>3. d + Len(p) = Len(p) + d /\ d + Len(p) \in 0..Len(p \o r) - 1
    BY <1>1, <2>1
  <2> QED BY <2>2, <2>3 DEF Cuts
<1>3. ASSUME ~Whole(p)
      PROVE  \E c \in Cuts(p \o r) : c < Len(p)
  <2>1. PICK c \in 0..Len(p) - 1 : ~Joined(p, c)
    BY <1>3 DEF Whole
  <2>2. ~Joined(p \o r, c)
    BY <2>1, JoinedFront
  <2>3. c \in 0..Len(p \o r) - 1 /\ c < Len(p)
    BY <1>1
  <2> QED BY <2>2, <2>3 DEF Cuts
<1> QED BY <1>2, <1>3

(* The cuts that are left are fewer, when one was taken.                   *)
LEMMA ShiftSize ==
    ASSUME NEW C \in SUBSET Nat, IsFiniteSet(C), NEW n \in Nat,
           NEW D \in SUBSET Nat, \A d \in D : d + n \in C
    PROVE  /\ IsFiniteSet(D) /\ Cardinality(D) <= Cardinality(C)
           /\ (\E c \in C : c < n) => Cardinality(D) <= Cardinality(C) - 1
<1> DEFINE f == [c \in C |-> c - n]
<1>1. \A d \in D : f[d + n] = d
  OBVIOUS
<1>2. IsFiniteSet(D) /\ Cardinality(D) <= Cardinality(C)
  <2> HIDE DEF f
  <2>1. \A d \in D : \E c \in C : f[c] = d
    BY <1>1
  <2> QED BY <2>1, ImageSize
<1>3. ASSUME NEW c \in C, c < n
      PROVE  Cardinality(D) <= Cardinality(C) - 1
  <2>1. IsFiniteSet(C \ {c}) /\ Cardinality(C \ {c}) = Cardinality(C) - 1
    BY FS_RemoveElement
  <2>2. \A d \in D : d + n \in C \ {c}
    BY <1>3
  <2>3. \A d \in D : \E x \in C \ {c} : f[x] = d
    <3> HIDE DEF f
    <3> QED BY <1>1, <2>2
  <2> HIDE DEF f
  <2>4. Cardinality(D) <= Cardinality(C \ {c})
    BY <2>1, <2>3, ImageSize
  <2> QED BY <2>1, <2>4
<1> QED BY <1>2, <1>3

(* Data followed by markers, all joined as they were sent, are one event.  *)
LEMMA WholeEvent ==
    ASSUME NEW p \in Seq(SB!Word), NEW first \in 1..Len(p),
           \A k \in 1..first - 1 : p[k] # EOD,
           \A k \in first..Len(p) : p[k] = EOD,
           Whole(p)
    PROVE  \E e \in 1..Events : p = Event(e)
<1> DEFINE n == Len(p)
<1>1. n \in Nat /\ EventSize \in Nat \ {0} /\ first \in 1..n
  BY Constants
<1>2. PICK e \in 1..Events : p[1] = <<e, 1>>
  <2>1. Joined(p, 0)
    BY <1>1 DEF Whole
  <2> QED BY <2>1 DEF Joined, Starts
<1> HIDE DEF n
<1>3. ASSUME NEW k \in 1..EventSize
      PROVE  <<e, k>> # EOD
  BY Constants
<1>4. first # 1
  <2>1. 1 \in 1..EventSize
    BY <1>1
  <2>2. p[1] # EOD
    BY <1>2, <1>3, <2>1
  <2> QED BY <1>1, <2>2 DEF n
<1>5. \A k \in 1..n - 1 : Follows(p[k], p[k + 1])
  <2> TAKE k \in 1..n - 1
  <2>1. k \in 0..Len(p) - 1 /\ k # 0
    BY <1>1 DEF n
  <2> QED BY <2>1 DEF Whole, Joined
<1>6. \A k \in Nat : k \in 1..first - 1 => k <= EventSize /\ p[k] = <<e, k>>
  <2> DEFINE T == {k \in Nat : k \in 1..first - 1 /\ ~(k <= EventSize /\ p[k] = <<e, k>>)}
  <2>1. SUFFICES ASSUME T # {} PROVE FALSE
    OBVIOUS
  <2>2. PICK k \in T : \A j \in T : ~(j < k)
    BY <2>1, LeastOne
  <2>3. k # 1
    BY <1>1, <1>2
  <2>4. /\ k - 1 \in Nat /\ k - 1 \in 1..first - 1 /\ k - 1 < k /\ k - 1 \in 1..n - 1
        /\ (k - 1) + 1 = k
    BY <1>1, <2>2, <2>3
  <2>5. k - 1 <= EventSize /\ p[k - 1] = <<e, k - 1>>
    <3>1. k - 1 \notin T
      <4> HIDE DEF T
      <4> QED BY <2>2, <2>4
    <3> QED BY <2>4, <3>1
  <2>6. Follows(p[k - 1], p[k])
    BY <1>5, <2>4
  <2>7. p[k - 1] # EOD /\ p[k - 1][1] = e /\ p[k - 1][2] = k - 1
    BY <1>3, <2>4, <2>5
  <2>8. p[k] # EOD
    BY <2>2
  <2>9. k - 1 < EventSize /\ p[k] = <<e, (k - 1) + 1>>
    BY <2>6, <2>7, <2>8 DEF Follows
  <2>10. k <= EventSize /\ p[k] = <<e, k>>
    BY <1>1, <2>4, <2>9
  <2> QED BY <2>2, <2>10
<1> DEFINE l == first - 1
<1>7. l \in 1..first - 1 /\ l \in Nat /\ l \in 1..n - 1 /\ l + 1 = first
  BY <1>1, <1>4
<1>8. l <= EventSize /\ p[l] = <<e, l>>
  BY <1>6, <1>7
<1>9. l = EventSize
  <2>1. Follows(p[l], p[first])
    BY <1>5, <1>7
  <2>2. p[l] # EOD /\ p[l][1] = e /\ p[l][2] = l
    BY <1>3, <1>7, <1>8
  <2>3. p[first] = EOD
    BY <1>1 DEF n
  <2>4. ASSUME l < EventSize PROVE FALSE
    <3>1. p[first] = <<e, l + 1>> /\ l + 1 \in 1..EventSize
      BY <1>1, <1>7, <2>1, <2>2, <2>4 DEF Follows
    <3> QED BY <1>3, <2>3, <3>1
  <2> QED BY <1>1, <1>7, <1>8, <2>4
<1>10. first = EventSize + 1
  BY <1>7, <1>9
<1>11. n = first
  <2>1. ASSUME n # first PROVE FALSE
    <3>1. first \in 1..n - 1 /\ first \in first..n /\ first + 1 \in first..n
      BY <1>1, <2>1
    <3>2. p[first] = EOD /\ p[first + 1] = EOD
      BY <3>1 DEF n
    <3>3. Starts(p[first + 1])
      BY <1>5, <3>1, <3>2 DEF Follows
    <3>4. PICK d \in 1..Events : p[first + 1] = <<d, 1>>
      BY <3>3 DEF Starts
    <3>5. <<d, 1>> # EOD
      BY Constants
    <3> QED BY <3>2, <3>4, <3>5
  <2> QED BY <2>1
<1>12. /\ Event(e) \in Seq(SB!Word) /\ Len(Event(e)) = EventSize + 1
       /\ \A k \in 1..EventSize : Event(e)[k] = <<e, k>>
       /\ Event(e)[EventSize + 1] = EOD
  BY EventIs
<1>13. \A k \in 1..EventSize + 1 : p[k] = Event(e)[k]
  <2> TAKE k \in 1..EventSize + 1
  <2>1. CASE k <= EventSize
    <3>1. k \in Nat /\ k \in 1..first - 1 /\ k \in 1..EventSize
      BY <1>1, <1>10, <2>1
    <3> QED BY <1>6, <1>12, <3>1
  <2>2. CASE k = EventSize + 1
    <3>1. p[first] = EOD
      BY <1>1 DEF n
    <3> QED BY <1>10, <1>12, <2>2, <3>1
  <2> QED BY <1>1, <2>1, <2>2
<1>14. Len(p) = EventSize + 1
  BY <1>10, <1>11 DEF n
<1> HIDE DEF l
<1>15. p = Event(e)
  <2> DEFINE v == Event(e)
  <2> HIDE DEF v
  <2>1. v \in Seq(SB!Word) /\ Len(v) = Len(p) /\ \A k \in 1..Len(p) : p[k] = v[k]
    BY <1>12, <1>13, <1>14 DEF v
  <2>2. p = v
    BY <2>1, SeqEqual
  <2> QED BY <2>2 DEF v
<1> QED BY <1>15
-----------------------------------------------------------------------------
(* What is on the way to minidaq on link s: in its task and on the bus,    *)
(* then at the card and in the detector; and where it is cut, the place    *)
(* before the card included while trdboxd is down.                         *)
Inner(s)  == buffer[s] \o Contents(fragment[s])
Coming(s) == Inner(s) \o (fifo[s] \o link[s])
Gaps(s)   == Cuts(Coming(s)) \cup (IF trdboxd = "down" THEN {Len(Inner(s))} ELSE {})

(* Every gap, every query left behind and every damaged subevent is paid   *)
(* for by a restart.                                                       *)
Paid(s) == Cardinality(Gaps(s)) + orphans[s] + damaged[s] <= boxDeaths + 2 * subDeaths

Streams ==
    \A s \in SFP :
        /\ Ordered(delivered[s] \o Coming(s))
        /\ overflowed[s] = FALSE => Paid(s)

Facts(s) ==
    /\ buffer[s] \in Seq(SB!Word) /\ Contents(fragment[s]) \in Seq(SB!Word)
    /\ fifo[s] \in Seq(SB!Word) /\ link[s] \in Seq(SB!Word) /\ delivered[s] \in Seq(SB!Word)
    /\ Inner(s) \in Seq(SB!Word) /\ fifo[s] \o link[s] \in Seq(SB!Word)
    /\ Coming(s) \in Seq(SB!Word)
    /\ IsFiniteSet(Gaps(s)) /\ Gaps(s) \in SUBSET Nat /\ Cardinality(Gaps(s)) \in Nat
    /\ orphans[s] \in Nat /\ damaged[s] \in Nat /\ boxDeaths \in Nat /\ subDeaths \in Nat
    /\ overflowed[s] \in BOOLEAN

LEMMA LinkFacts == Base => \A s \in SFP : Facts(s)
<1> SUFFICES ASSUME Base, NEW s \in SFP PROVE Facts(s)
  OBVIOUS
<1>1. /\ buffer[s] \in Seq(SB!Word) /\ fragment[s] \in AtMostOne(Seq(SB!Word))
      /\ fifo[s] \in Seq(SB!Word) /\ link[s] \in Seq(SB!Word) /\ delivered[s] \in Seq(SB!Word)
      /\ overflowed[s] \in BOOLEAN
  BY DEF Base, Types
<1>2. Contents(fragment[s]) \in Seq(SB!Word)
  <2>1. CASE fragment[s] = <<>>
    BY <2>1, EmptySeq DEF Contents
  <2>2. CASE fragment[s] # <<>>
    BY <1>1, <2>2, OneOf DEF Contents
  <2> QED BY <2>1, <2>2
<1>3. Inner(s) \in Seq(SB!Word) /\ Len(Inner(s)) \in Nat
  BY <1>1, <1>2, Concat DEF Inner
<1>4. fifo[s] \o link[s] \in Seq(SB!Word)
  BY <1>1, Concat
<1>5. Coming(s) \in Seq(SB!Word)
  BY <1>3, <1>4, Concat DEF Coming
<1>6. IsFiniteSet(Gaps(s)) /\ Gaps(s) \in SUBSET Nat
  <2> DEFINE E == IF trdboxd = "down" THEN {Len(Inner(s))} ELSE {}
  <2>1. E \in SUBSET Nat /\ IsFiniteSet(E)
    BY <1>3, FS_Singleton, FS_EmptySet
  <2> HIDE DEF E
  <2>2. IsFiniteSet(Cuts(Coming(s)) \cup E) /\ Cuts(Coming(s)) \cup E \in SUBSET Nat
    BY <1>5, <2>1, CutsFinite
  <2> QED BY <2>2 DEF Gaps, E
<1>7. Cardinality(Gaps(s)) \in Nat
  BY <1>6, FS_CardinalityType
<1>8. orphans[s] \in Nat /\ damaged[s] \in Nat /\ boxDeaths \in Nat /\ subDeaths \in Nat
  BY Constants DEF Base, Types
<1> QED BY <1>1, <1>2, <1>3, <1>4, <1>5, <1>6, <1>7, <1>8 DEF Facts

LEMMA LinkFactsNext == (Base => \A s \in SFP : Facts(s))'
BY LinkFacts, PTL

(* What neither moves nor changes the counts.                              *)
LEMMA Unmoved ==
    ASSUME NEW s \in SFP, Streams, Coming(s)' = Coming(s), Gaps(s)' = Gaps(s),
           delivered'[s] = delivered[s], overflowed'[s] = overflowed[s],
           orphans'[s] = orphans[s], damaged'[s] = damaged[s],
           UNCHANGED <<boxDeaths, subDeaths>>
    PROVE  /\ Ordered(delivered[s] \o Coming(s))'
           /\ overflowed'[s] = FALSE => Paid(s)'
BY DEF Streams, Paid

LEMMA Untouched ==
    ASSUME NEW s \in SFP, Streams, buffer'[s] = buffer[s], fragment'[s] = fragment[s],
           fifo'[s] = fifo[s], link'[s] = link[s],
           delivered'[s] = delivered[s], overflowed'[s] = overflowed[s],
           orphans'[s] = orphans[s], damaged'[s] = damaged[s],
           UNCHANGED <<trdboxd, boxDeaths, subDeaths>>
    PROVE  /\ Ordered(delivered[s] \o Coming(s))'
           /\ overflowed'[s] = FALSE => Paid(s)'
<1>1. Inner(s)' = Inner(s) /\ Coming(s)' = Coming(s)
  BY DEF Inner, Coming, Contents
<1>2. Gaps(s)' = Gaps(s)
  BY <1>1 DEF Gaps
<1> QED BY <1>1, <1>2, Unmoved

(* The words m are lost: there is one more gap at most, where they were.   *)
LEMMA Lost ==
    ASSUME Base, Base', Streams, NEW s \in SFP, NEW p \in Seq(SB!Word), NEW m \in Seq(SB!Word),
           NEW r \in Seq(SB!Word), Coming(s) = p \o (m \o r), Coming(s)' = p \o r,
           delivered'[s] = delivered[s],
           Gaps(s)' \subseteq Cuts(Coming(s)') \cup {Len(p)}
    PROVE  /\ Ordered(delivered[s] \o Coming(s))'
           /\ Cardinality(Gaps(s)') <= Cardinality(Gaps(s)) + 1
           /\ Len(p) \in Gaps(s) => Cardinality(Gaps(s)') <= Cardinality(Gaps(s))
<1>1. Facts(s) /\ Facts(s)'
  BY LinkFacts, LinkFactsNext
<1>2. Ordered(delivered[s] \o Coming(s))'
  <2>1. delivered[s] \in Seq(SB!Word) /\ m \o r \in Seq(SB!Word)
    BY <1>1, Concat DEF Facts
  <2>2. /\ delivered[s] \o (p \o (m \o r)) = (delivered[s] \o p) \o (m \o r)
        /\ delivered[s] \o (p \o r) = (delivered[s] \o p) \o r
        /\ delivered[s] \o p \in Seq(SB!Word)
    <3>1. delivered[s] \o (p \o (m \o r)) = (delivered[s] \o p) \o (m \o r)
      BY <2>1, WordsAssociate
    <3>2. delivered[s] \o (p \o r) = (delivered[s] \o p) \o r
      BY <2>1, WordsAssociate
    <3>3. delivered[s] \o p \in Seq(SB!Word)
      BY <2>1, Concat
    <3> QED BY <3>1, <3>2, <3>3
  <2>3. Ordered((delivered[s] \o p) \o (m \o r))
    BY <2>2 DEF Streams
  <2>4. Ordered((delivered[s] \o p) \o r)
    BY <2>2, <2>3, OrderedDrop
  <2> QED BY <2>2, <2>4
<1> DEFINE C == Gaps(s) \cup {Len(p)}
<1>3. /\ IsFiniteSet(Gaps(s)) /\ Gaps(s) \in SUBSET Nat /\ Cardinality(Gaps(s)) \in Nat
      /\ Cardinality(Gaps(s)') \in Nat
  BY <1>1 DEF Facts
<1>4. /\ IsFiniteSet(C) /\ C \in SUBSET Nat /\ Len(p) \in C
      /\ Cardinality(C) = IF Len(p) \in Gaps(s) THEN Cardinality(Gaps(s)) ELSE Cardinality(Gaps(s)) + 1
  <2>1. Len(p) \in Nat
    OBVIOUS
  <2> QED BY <1>3, <2>1, FS_AddElement
<1>5. Cuts(p \o (m \o r)) \subseteq C
  BY DEF Gaps
<1>6. Gaps(s)' \subseteq Cuts(p \o r) \cup {Len(p)}
  OBVIOUS
<1> HIDE DEF C
<1>7. Cardinality(Gaps(s)') <= Cardinality(C)
  BY <1>4, <1>5, <1>6, DropCuts
<1> QED BY <1>2, <1>3, <1>4, <1>7

-----------------------------------------------------------------------------
(* Where the detector's words start.                                       *)
LEMMA InitStreams == Init => Streams
<1> SUFFICES ASSUME Init, NEW s \in SFP
             PROVE  /\ Ordered(delivered[s] \o Coming(s))
                    /\ overflowed[s] = FALSE => Paid(s)
  BY DEF Streams
<1>1. Facts(s)
  BY InitBase, LinkFacts
<1>2. /\ delivered[s] = <<>> /\ buffer[s] = <<>> /\ fragment[s] = <<>> /\ fifo[s] = <<>>
      /\ link[s] = Stream /\ trdboxd = "up" /\ orphans[s] = 0 /\ damaged[s] = 0
      /\ boxDeaths = 0 /\ subDeaths = 0
  BY DEF Init, SB!Init
<1>3. Stream \in Seq(SB!Word) /\ Whole(Stream) /\ Ordered(Stream)
  BY StreamIs
<1> HIDE DEF Init
<1>4. Coming(s) = Stream /\ delivered[s] \o Coming(s) = Stream
  <2>1. Inner(s) = <<>>
    BY <1>2, ConcatEmptySeq, EmptySeq DEF Inner, Contents
  <2>2. <<>> \o Stream = Stream
    BY <1>3, ConcatEmptySeq
  <2> QED BY <1>2, <2>1, <2>2 DEF Coming
<1>5. Gaps(s) = {}
  <2>1. Cuts(Stream) = {}
    BY <1>3 DEF Cuts, Whole
  <2> QED BY <1>2, <1>4, <2>1 DEF Gaps
<1>6. Paid(s)
  BY <1>2, <1>5, FS_EmptySet DEF Paid
<1> QED BY <1>3, <1>4, <1>6

(* trdboxd ends: a gap at its edge, though it may take a reply with it.    *)
LEMMA BoxDiesStreams ==
  ASSUME Base, Base', Streams, BoxDies
  PROVE  Streams'
<1> SUFFICES ASSUME NEW s \in SFP
             PROVE  /\ Ordered(delivered[s] \o Coming(s))'
                    /\ overflowed'[s] = FALSE => Paid(s)'
  BY DEF Streams
<1>1. Facts(s) /\ Facts(s)'
  BY LinkFacts, LinkFactsNext
<1>2. /\ buffer'[s] = buffer[s] /\ fifo' = fifo /\ link' = link /\ delivered' = delivered
      /\ overflowed' = overflowed /\ damaged' = damaged /\ subDeaths' = subDeaths
      /\ boxDeaths' = boxDeaths + 1 /\ orphans'[s] = 0
      /\ fragment'[s] = fragment[s] \/ fragment'[s] = <<>>
  BY DEF BoxDies
<1> DEFINE r == fifo[s] \o link[s]
<1>3. r \in Seq(SB!Word) /\ fifo'[s] \o link'[s] = r
  BY <1>1, <1>2 DEF Facts
<1> HIDE DEF r
<1>4. \E p, m \in Seq(SB!Word) :
         /\ Coming(s) = p \o (m \o r) /\ Coming(s)' = p \o r /\ Len(Inner(s)') = Len(p)
  <2>1. CASE fragment'[s] = fragment[s]
    <3>1. Inner(s)' = Inner(s) /\ Inner(s) \in Seq(SB!Word)
      BY <1>1, <1>2, <2>1 DEF Inner, Contents, Facts
    <3>2. <<>> \o r = r /\ <<>> \in Seq(SB!Word)
      BY <1>3, ConcatEmptySeq, EmptySeq
    <3>3. Coming(s) = Inner(s) \o r /\ Coming(s)' = Inner(s) \o r
      BY <1>2, <1>3, <3>1 DEF Coming, r
    <3> QED BY <3>1, <3>2, <3>3
  <2>2. CASE fragment'[s] = <<>>
    <3>1. buffer[s] \in Seq(SB!Word) /\ Contents(fragment[s]) \in Seq(SB!Word)
      BY <1>1 DEF Facts
    <3>2. Inner(s)' = buffer[s]
      <4>1. Contents(fragment'[s]) = <<>>
        BY <2>2 DEF Contents
      <4>2. buffer[s] \o <<>> = buffer[s]
        BY <3>1, ConcatEmptySeq
      <4> QED BY <1>2, <4>1, <4>2 DEF Inner
    <3>3. Coming(s) = buffer[s] \o (Contents(fragment[s]) \o r)
      BY <1>3, <3>1, WordsAssociate DEF Coming, Inner, r
    <3>4. Coming(s)' = buffer[s] \o r
      BY <1>2, <1>3, <3>2 DEF Coming
    <3> QED BY <3>1, <3>2, <3>3, <3>4
  <2> QED BY <1>2, <2>1, <2>2
<1>5. PICK p \in Seq(SB!Word) : \E m \in Seq(SB!Word) :
         /\ Coming(s) = p \o (m \o r) /\ Coming(s)' = p \o r /\ Len(Inner(s)') = Len(p)
  BY <1>4
<1>6. PICK m \in Seq(SB!Word) :
         /\ Coming(s) = p \o (m \o r) /\ Coming(s)' = p \o r /\ Len(Inner(s)') = Len(p)
  BY <1>5
<1>7. Gaps(s)' \subseteq Cuts(Coming(s)') \cup {Len(p)}
  BY <1>6 DEF Gaps
<1>8. /\ Ordered(delivered[s] \o Coming(s))'
      /\ Cardinality(Gaps(s)') <= Cardinality(Gaps(s)) + 1
  BY <1>2, <1>3, <1>6, <1>7, Lost
<1>9. overflowed[s] = FALSE => Paid(s)
  BY DEF Streams
<1>10. ASSUME Paid(s) PROVE Paid(s)'
  <2>1. /\ subDeaths' = subDeaths /\ boxDeaths' = boxDeaths + 1 /\ damaged'[s] = damaged[s]
        /\ orphans'[s] = 0 /\ subDeaths \in Nat /\ boxDeaths \in Nat
        /\ damaged[s] \in Nat /\ orphans[s] \in Nat
        /\ Cardinality(Gaps(s)) \in Nat /\ Cardinality(Gaps(s)') \in Nat
    BY <1>1, <1>2 DEF Facts
  <2>2. Cardinality(Gaps(s)) + orphans[s] + damaged[s] <= boxDeaths + 2 * subDeaths
    BY <1>10 DEF Paid
  <2>3. Cardinality(Gaps(s)') + 0 + damaged[s] <= (boxDeaths + 1) + 2 * subDeaths
    BY <1>8, <2>1, <2>2
  <2> QED BY <2>1, <2>3 DEF Paid
<1> QED BY <1>2, <1>8, <1>9, <1>10

(* trdboxd starts: what is lost is lost at that gap.                       *)
LEMMA BoxStartStreams ==
  ASSUME Base, Base', Streams, BoxStart
  PROVE  Streams'
<1> SUFFICES ASSUME NEW s \in SFP
             PROVE  /\ Ordered(delivered[s] \o Coming(s))'
                    /\ overflowed'[s] = FALSE => Paid(s)'
  BY DEF Streams
<1>1. Facts(s) /\ Facts(s)'
  BY LinkFacts, LinkFactsNext
<1>2. PICK missed \in [SFP -> 0..EventSize + 1] :
         /\ \A t \in SFP : missed[t] <= Len(link[t])
         /\ link' = [t \in SFP |-> SubSeq(link[t], missed[t] + 1, Len(link[t]))]
  BY DEF BoxStart
<1>3. /\ trdboxd = "down" /\ trdboxd' = "up" /\ fifo'[s] = <<>>
      /\ UNCHANGED <<buffer, fragment, delivered, overflowed, orphans, damaged, boxDeaths, subDeaths>>
  BY DEF BoxStart, builder, deaths
<1> DEFINE p == Inner(s)
           a == SubSeq(link[s], 1, missed[s])
           r == SubSeq(link[s], missed[s] + 1, Len(link[s]))
<1>4. a \in Seq(SB!Word) /\ r \in Seq(SB!Word) /\ link[s] = a \o r /\ link'[s] = r
  <2>1. link[s] \in Seq(SB!Word) /\ missed[s] \in Nat /\ missed[s] <= Len(link[s]) /\ Len(link[s]) \in Nat
    <3>1. link[s] \in Seq(SB!Word)
      BY <1>1 DEF Facts
    <3>2. missed[s] \in 0..EventSize + 1 /\ missed[s] <= Len(link[s])
      BY <1>2
    <3> QED BY <3>1, <3>2, Constants
  <2>2. missed[s] \in 0..Len(link[s])
    BY <2>1
  <2> QED BY <1>2, <2>1, <2>2, CutBuffer
<1> HIDE DEF a, r
<1>5. p \in Seq(SB!Word) /\ fifo[s] \in Seq(SB!Word)
  BY <1>1 DEF Facts
<1>6. Inner(s)' = p
  BY <1>3 DEF Inner, Contents
<1>7. Coming(s) = p \o ((fifo[s] \o a) \o r) /\ fifo[s] \o a \in Seq(SB!Word)
  <2>1. fifo[s] \o (a \o r) = (fifo[s] \o a) \o r
    BY <1>4, <1>5, WordsAssociate
  <2>2. fifo[s] \o a \in Seq(SB!Word)
    BY <1>4, <1>5, Concat
  <2> QED BY <1>4, <2>1, <2>2 DEF Coming
<1>8. Coming(s)' = p \o r
  <2>1. <<>> \o r = r
    BY <1>4, ConcatEmptySeq
  <2> QED BY <1>3, <1>4, <1>6, <2>1 DEF Coming
<1>9. Gaps(s)' \subseteq Cuts(Coming(s)') \cup {Len(p)} /\ Len(p) \in Gaps(s)
  BY <1>3 DEF Gaps
<1> HIDE DEF p
<1>10. /\ Ordered(delivered[s] \o Coming(s))'
       /\ Cardinality(Gaps(s)') <= Cardinality(Gaps(s))
  BY <1>3, <1>4, <1>5, <1>7, <1>8, <1>9, Lost
<1>11. overflowed[s] = FALSE => Paid(s)
  BY DEF Streams
<1>12. ASSUME Paid(s) PROVE Paid(s)'
  <2>1. /\ subDeaths' = subDeaths /\ boxDeaths' = boxDeaths /\ damaged'[s] = damaged[s]
        /\ orphans'[s] = orphans[s] /\ subDeaths \in Nat /\ boxDeaths \in Nat
        /\ damaged[s] \in Nat /\ orphans[s] \in Nat
        /\ Cardinality(Gaps(s)) \in Nat /\ Cardinality(Gaps(s)') \in Nat
    BY <1>1, <1>3 DEF Facts
  <2>2. Cardinality(Gaps(s)) + orphans[s] + damaged[s] <= boxDeaths + 2 * subDeaths
    BY <1>12 DEF Paid
  <2>3. Cardinality(Gaps(s)') + orphans[s] + damaged[s] <= boxDeaths + 2 * subDeaths
    BY <1>10, <2>1, <2>2
  <2> QED BY <2>1, <2>3 DEF Paid
<1> QED BY <1>3, <1>10, <1>11, <1>12

(* An orphan takes what is in the FIFO: it is itself the payment.          *)
LEMMA ServeOrphanStreams ==
    ASSUME Base, Base', Streams, NEW s \in SFP, ServeOrphan(s)
    PROVE  /\ Ordered(delivered[s] \o Coming(s))'
           /\ overflowed'[s] = FALSE => Paid(s)'
<1>1. Facts(s) /\ Facts(s)'
  BY LinkFacts, LinkFactsNext
<1>2. /\ fifo'[s] = <<>> /\ orphans'[s] = orphans[s] - 1 /\ trdboxd' = "up"
      /\ UNCHANGED <<buffer, fragment, link, delivered, overflowed, damaged, boxDeaths, subDeaths>>
  BY DEF ServeOrphan, builder, deaths, Base, Types
<1> DEFINE p == Inner(s)
<1>3. p \in Seq(SB!Word) /\ fifo[s] \in Seq(SB!Word) /\ link[s] \in Seq(SB!Word)
  BY <1>1 DEF Facts
<1>4. Inner(s)' = p
  BY <1>2 DEF Inner, Contents
<1>5. Coming(s) = p \o (fifo[s] \o link[s])
  BY DEF Coming
<1>6. Coming(s)' = p \o link[s]
  <2>1. <<>> \o link[s] = link[s]
    BY <1>3, ConcatEmptySeq
  <2> QED BY <1>2, <1>4, <2>1 DEF Coming
<1>7. Gaps(s)' \subseteq Cuts(Coming(s)') \cup {Len(p)}
  BY <1>2 DEF Gaps
<1> HIDE DEF p
<1>8. /\ Ordered(delivered[s] \o Coming(s))'
      /\ Cardinality(Gaps(s)') <= Cardinality(Gaps(s)) + 1
  BY <1>2, <1>3, <1>5, <1>6, <1>7, Lost
<1>9. overflowed[s] = FALSE => Paid(s)
  BY DEF Streams
<1>10. ASSUME Paid(s) PROVE Paid(s)'
  <2>1. /\ subDeaths' = subDeaths /\ boxDeaths' = boxDeaths /\ damaged'[s] = damaged[s]
        /\ subDeaths \in Nat /\ boxDeaths \in Nat /\ damaged[s] \in Nat /\ orphans[s] \in Nat
        /\ orphans'[s] = orphans[s] - 1 /\ Cardinality(Gaps(s)) \in Nat
        /\ Cardinality(Gaps(s)') \in Nat
    BY <1>1, <1>2 DEF Facts
  <2>2. Cardinality(Gaps(s)) + orphans[s] + damaged[s] <= boxDeaths + 2 * subDeaths
    BY <1>10 DEF Paid
  <2>3. Cardinality(Gaps(s)') + (orphans[s] - 1) + damaged[s] <= boxDeaths + 2 * subDeaths
    BY <1>8, <2>1, <2>2
  <2> QED BY <2>1, <2>3 DEF Paid
<1> QED BY <1>2, <1>8, <1>9, <1>10

(* The words of a task are lost: by its end, or by an overflow.            *)
LEMMA InnerLost ==
    ASSUME Base, Base', Streams, NEW s \in SFP, Inner(s)' = <<>>,
           fifo'[s] = fifo[s], link'[s] = link[s], delivered'[s] = delivered[s]
    PROVE  /\ Ordered(delivered[s] \o Coming(s))'
           /\ Cardinality(Gaps(s)') <= Cardinality(Gaps(s)) + 1
<1>1. Facts(s)
  BY LinkFacts
<1> DEFINE p == Inner(s)
           r == fifo[s] \o link[s]
<1>2. p \in Seq(SB!Word) /\ r \in Seq(SB!Word) /\ p \o r \in Seq(SB!Word) /\ <<>> \in Seq(SB!Word)
  BY <1>1, Concat, EmptySeq DEF Facts
<1>3. Coming(s) = <<>> \o (p \o r)
  BY <1>2, ConcatEmptySeq DEF Coming
<1>4. Coming(s)' = <<>> \o r
  BY DEF Coming
<1>5. Gaps(s)' \subseteq Cuts(Coming(s)') \cup {Len(<<>>)}
  BY DEF Gaps
<1> HIDE DEF p, r
<1> QED BY <1>2, <1>3, <1>4, <1>5, Lost

LEMMA SubDiesStreams ==
  ASSUME Base, Base', Streams, SubDies
  PROVE  Streams'
<1> SUFFICES ASSUME NEW s \in SFP
             PROVE  /\ Ordered(delivered[s] \o Coming(s))'
                    /\ overflowed'[s] = FALSE => Paid(s)'
  BY DEF Streams
<1>1. Facts(s) /\ Facts(s)'
  BY LinkFacts, LinkFactsNext
<1>2. /\ buffer'[s] = <<>> /\ fragment'[s] = <<>> /\ subDeaths' = subDeaths + 1
      /\ orphans'[s] = orphans[s] + (IF query[s] /\ at[s] = "trdboxd" THEN 1 ELSE 0)
      /\ UNCHANGED <<fifo, link, delivered, overflowed, damaged, boxDeaths, trdboxd>>
  BY DEF SubDies
<1>3. orphans'[s] <= orphans[s] + 1
  BY <1>1, <1>2 DEF Facts
<1>4. Inner(s)' = <<>>
  BY <1>2, ConcatEmptySeq, EmptySeq DEF Inner, Contents
<1>5. /\ Ordered(delivered[s] \o Coming(s))'
      /\ Cardinality(Gaps(s)') <= Cardinality(Gaps(s)) + 1
  BY <1>2, <1>4, InnerLost
<1>6. overflowed[s] = FALSE => Paid(s)
  BY DEF Streams
<1>7. ASSUME Paid(s) PROVE Paid(s)'
  <2>1. /\ subDeaths' = subDeaths + 1 /\ boxDeaths' = boxDeaths /\ damaged'[s] = damaged[s]
        /\ subDeaths \in Nat /\ boxDeaths \in Nat /\ damaged[s] \in Nat /\ orphans[s] \in Nat
        /\ orphans'[s] \in Nat /\ Cardinality(Gaps(s)) \in Nat /\ Cardinality(Gaps(s)') \in Nat
    BY <1>1, <1>2 DEF Facts
  <2>2. Cardinality(Gaps(s)) + orphans[s] + damaged[s] <= boxDeaths + 2 * subDeaths
    BY <1>7 DEF Paid
  <2>3. Cardinality(Gaps(s)') + orphans'[s] + damaged[s] <= boxDeaths + 2 * (subDeaths + 1)
    BY <1>3, <1>5, <2>1, <2>2
  <2> QED BY <2>1, <2>3 DEF Paid
<1> QED BY <1>2, <1>5, <1>6, <1>7
-----------------------------------------------------------------------------
(* What the tasks and the bus do with the words.                           *)
LEMMA OverflowedIs ==
    ASSUME Base, NEW s \in SFP, SB!RecvFragment(s)
    PROVE  /\ SB!Overflows(buffer[s], Head(fragment[s])) => overflowed'[s] = TRUE
           /\ ~SB!Overflows(buffer[s], Head(fragment[s])) => overflowed'[s] = overflowed[s]
<1> DEFINE o == SB!Overflows(buffer[s], Head(fragment[s]))
<1>1. overflowed'[s] = (overflowed[s] \/ o) /\ overflowed[s] \in BOOLEAN
  BY ReceivedTypes DEF Base, Types
<1>2. o \in BOOLEAN
  BY DEF SB!Overflows
<1> HIDE DEF o
<1>3. ASSUME o PROVE overflowed'[s] = TRUE
  <2>1. o = TRUE
    BY <1>2, <1>3
  <2>2. (overflowed[s] \/ TRUE) = TRUE
    OBVIOUS
  <2> QED BY <1>1, <2>1, <2>2
<1>4. ASSUME ~o PROVE overflowed'[s] = overflowed[s]
  <2>1. o = FALSE
    BY <1>2, <1>4
  <2>2. \A x \in BOOLEAN : (x \/ FALSE) = x
    OBVIOUS
  <2> QED BY <1>1, <2>1, <2>2
<1> QED BY <1>3, <1>4 DEF o

(* A fragment is taken into the buffer and stays there.                    *)
LEMMA FillStreams ==
    ASSUME Base, Base', Streams, NEW s \in SFP, SB!RecvFragment(s),
           buffer'[s] = SB!Filled(s),
           UNCHANGED <<fifo, link, delivered, orphans, damaged, trdboxd, boxDeaths, subDeaths>>
    PROVE  /\ Ordered(delivered[s] \o Coming(s))'
           /\ overflowed'[s] = FALSE => Paid(s)'
<1> DEFINE f == Head(fragment[s])
<1>1. /\ fragment[s] # <<>> /\ fragment'[s] = <<>>
      /\ f \in Seq(SB!Word) /\ buffer[s] \in Seq(SB!Word)
      /\ ~SB!Overflows(buffer[s], f) => SB!Filled(s) = buffer[s] \o f
  <2>1. buffer[s] \in Seq(SB!Word)
    BY DEF Base, Types
  <2> QED BY <2>1, Received, ReceivedTypes
<1>2. Contents(fragment[s]) = f /\ Contents(fragment'[s]) = <<>>
  BY <1>1 DEF Contents
<1>3. CASE SB!Overflows(buffer[s], f)
  <2>1. SB!Filled(s) = <<>> /\ overflowed'[s] = TRUE
    BY <1>3, OverflowedIs DEF SB!Filled
  <2>2. Inner(s)' = <<>>
    BY <1>2, <2>1, ConcatEmptySeq, EmptySeq DEF Inner
  <2> QED BY <2>1, <2>2, InnerLost
<1>4. CASE ~SB!Overflows(buffer[s], f)
  <2>1. overflowed'[s] = overflowed[s] /\ SB!Filled(s) = buffer[s] \o f
    BY <1>1, <1>4, OverflowedIs
  <2> HIDE DEF f
  <2>2. buffer[s] \o f \in Seq(SB!Word)
    BY <1>1, Concat
  <2>3. (buffer[s] \o f) \o <<>> = buffer[s] \o f
    BY <2>2, ConcatEmptySeq
  <2>4. Inner(s)' = Inner(s)
    BY <1>2, <2>1, <2>3 DEF Inner
  <2>5. Coming(s)' = Coming(s) /\ Gaps(s)' = Gaps(s)
    BY <2>4 DEF Coming, Gaps
  <2> QED BY <2>1, <2>5, Unmoved
<1> QED BY <1>3, <1>4

(* What a subevent found in a buffer is.                                   *)
LEMMA SubeventCut ==
    ASSUME NEW b \in Seq(SB!Word), NEW n \in 1..Len(b), SB!IsSubeventEnd(b, n)
    PROVE  LET p == SubSeq(b, 1, n) IN
           /\ p \in Seq(SB!Word) /\ Len(p) = n /\ p[n] = EOD
           /\ Whole(p) => \E e \in 1..Events : p = Event(e)
<1> DEFINE p == SubSeq(b, 1, n)
<1>1. p \in Seq(SB!Word) /\ Len(p) = n /\ \A k \in 1..n : p[k] = b[k]
  <2>1. Len(b) \in Nat /\ n \in Nat /\ n <= Len(b)
    OBVIOUS
  <2>2. /\ p \in Seq(SB!Word) /\ Len(p) = IF 1 <= n THEN (n - 1) + 1 ELSE 0
        /\ \A k \in 1..(n - 1) + 1 : p[k] = b[(1 + k) - 1]
    BY <2>1, SubSeqProperties
  <2> HIDE DEF p
  <2>3. Len(p) = n
    BY <2>1, <2>2
  <2>4. \A k \in 1..n : k \in 1..(n - 1) + 1 /\ (1 + k) - 1 = k
    BY <2>1
  <2> QED BY <2>2, <2>3, <2>4
<1>2. PICK first \in 1..n :
         /\ \A k \in 1..(first - 1) : b[k] # EOD
         /\ \A k \in first..n : b[k] = EOD
  BY DEF SB!IsSubeventEnd
<1> HIDE DEF p
<1>3. n \in first..n /\ first \in 1..Len(p)
  BY <1>1
<1>4. /\ \A k \in 1..first - 1 : p[k] # EOD
      /\ \A k \in first..Len(p) : p[k] = EOD
  <2>1. \A k \in 1..first - 1 : k \in 1..n /\ k \in 1..(first - 1)
    OBVIOUS
  <2>2. \A k \in first..n : k \in 1..n
    OBVIOUS
  <2> QED BY <1>1, <1>2, <2>1, <2>2
<1>5. p[n] = EOD
  BY <1>1, <1>3, <1>4
<1>6. Whole(p) => \E e \in 1..Events : p = Event(e)
  BY <1>1, <1>3, <1>4, WholeEvent
<1> QED BY <1>1, <1>5, <1>6 DEF p

(* A subevent is sent: one that is no event pays with a gap.               *)
LEMMA ReplySubeventStreams ==
    ASSUME Base, Base', Streams, NEW s \in SFP, SB!ReplySubevent(s),
           damaged' = [damaged EXCEPT ![s] =
              IF \E e \in 1..Events : answer'[s][1].payload = Event(e) THEN @ ELSE @ + 1],
           UNCHANGED <<fifo, link, orphans, trdboxd, boxDeaths, subDeaths>>
    PROVE  /\ Ordered(delivered[s] \o Coming(s))'
           /\ overflowed'[s] = FALSE => Paid(s)'
<1> DEFINE n == SB!FoundSize(s)
           b == SB!Filled(s)
           f == Head(fragment[s])
           p == SubSeq(b, 1, n)
           q == SubSeq(b, n + 1, Len(b))
           r == fifo[s] \o link[s]
<1>1. SB!RecvFragment(s)
  BY DEF SB!ReplySubevent
<1>2. Facts(s) /\ Facts(s)'
  BY LinkFacts, LinkFactsNext
<1>3. /\ b \in Seq(SB!Word) /\ n \in 1..Len(b) /\ SB!IsSubeventEnd(b, n)
      /\ fragment[s] # <<>> /\ fragment'[s] = <<>> /\ f \in Seq(SB!Word)
      /\ ~SB!Overflows(buffer[s], f) => b = buffer[s] \o f
  <2>1. n # 0
    BY <1>1, Received DEF SB!ReplySubevent
  <2>2. fragment'[s] = <<>>
    BY <1>1, ReceivedTypes
  <2> QED BY <1>1, <2>1, <2>2, Received
<1>4. ~SB!Overflows(buffer[s], f)
  <2>1. SB!Overflows(buffer[s], f) => b = <<>>
    BY DEF SB!Filled
  <2> HIDE DEF b, n
  <2> QED BY <1>3, <2>1
<1>5. overflowed'[s] = overflowed[s] /\ b = buffer[s] \o f
  BY <1>1, <1>3, <1>4, OverflowedIs
<1>6. /\ buffer'[s] = q /\ delivered'[s] = delivered[s] \o p
      /\ answer'[s][1].payload = p
  BY DEF SB!ReplySubevent, Base, Types
<1> HIDE DEF n, b, f
<1>7. Inner(s) = b
  <2>1. Contents(fragment[s]) = f
    BY <1>3 DEF Contents, f
  <2> QED BY <1>5, <2>1 DEF Inner
<1>8. /\ p \in Seq(SB!Word) /\ Len(p) = n /\ p[n] = EOD
      /\ Whole(p) => \E e \in 1..Events : p = Event(e)
  BY <1>3, SubeventCut
<1>9. q \in Seq(SB!Word) /\ b = p \o q
  <2>1. n \in 0..Len(b)
    BY <1>3
  <2> QED BY <1>3, <2>1, CutBuffer
<1> HIDE DEF p, q
<1>10. Inner(s)' = q
  <2>1. Contents(fragment'[s]) = <<>>
    BY <1>3 DEF Contents
  <2>2. q \o <<>> = q
    BY <1>9, ConcatEmptySeq
  <2> QED BY <1>6, <2>1, <2>2 DEF Inner
<1>11. r \in Seq(SB!Word) /\ fifo'[s] \o link'[s] = r
  BY <1>2 DEF Facts
<1>12. Coming(s)' = q \o r /\ Coming(s) = (p \o q) \o r
  BY <1>7, <1>9, <1>10, <1>11 DEF Coming
<1> HIDE DEF r
<1> DEFINE y == q \o r
<1>13. y \in Seq(SB!Word) /\ Coming(s)' = y /\ Coming(s) = p \o y
  <2>1. (p \o q) \o r = p \o (q \o r)
    BY <1>8, <1>9, <1>11, WordsAssociate
  <2>2. q \o r \in Seq(SB!Word)
    BY <1>9, <1>11, Concat
  <2> QED BY <1>12, <2>1, <2>2
<1> HIDE DEF y
<1>14. Ordered(delivered[s] \o Coming(s))'
  <2>1. delivered[s] \in Seq(SB!Word)
    BY <1>2 DEF Facts
  <2>2. (delivered[s] \o p) \o y = delivered[s] \o (p \o y)
    BY <1>8, <1>13, <2>1, WordsAssociate
  <2>3. Ordered(delivered[s] \o (p \o y))
    BY <1>13 DEF Streams
  <2> QED BY <1>6, <1>13, <2>2, <2>3
<1>15. n # 0 /\ n \in Nat /\ p[Len(p)] = EOD
  BY <1>3, <1>8
<1>16. \A d \in Gaps(s)' : d + n \in Gaps(s)
  <2>1. \A d \in Cuts(y) : d + n \in Cuts(p \o y)
    BY <1>8, <1>13, <1>15, PassCuts
  <2>2. Len(q) + n = Len(b)
    <3>1. Len(b) = Len(p) + Len(q) /\ Len(p) \in Nat /\ Len(q) \in Nat
      BY <1>8, <1>9, Concat
    <3> QED BY <1>8, <3>1
  <2> QED BY <1>7, <1>10, <1>13, <2>1, <2>2 DEF Gaps
<1>17. /\ Cardinality(Gaps(s)') <= Cardinality(Gaps(s))
       /\ (\E c \in Gaps(s) : c < n) => Cardinality(Gaps(s)') <= Cardinality(Gaps(s)) - 1
  <2>1. IsFiniteSet(Gaps(s)) /\ Gaps(s) \in SUBSET Nat /\ Gaps(s)' \in SUBSET Nat
    BY <1>2 DEF Facts
  <2> QED BY <1>15, <1>16, <2>1, ShiftSize
<1>18. Whole(p) \/ \E c \in Gaps(s) : c < n
  <2>1. Whole(p) \/ \E c \in Cuts(p \o y) : c < Len(p)
    BY <1>8, <1>13, <1>15, PassCuts
  <2> QED BY <1>8, <1>13, <2>1 DEF Gaps
<1>19. Cardinality(Gaps(s)') + damaged'[s] <= Cardinality(Gaps(s)) + damaged[s]
  <2>1. /\ Cardinality(Gaps(s)) \in Nat /\ Cardinality(Gaps(s)') \in Nat /\ damaged[s] \in Nat
    BY <1>2 DEF Facts
  <2>2. damaged'[s] = IF \E e \in 1..Events : p = Event(e) THEN damaged[s] ELSE damaged[s] + 1
    BY <1>6 DEF Base, Types
  <2>3. CASE \E e \in 1..Events : p = Event(e)
    BY <1>17, <2>1, <2>2, <2>3
  <2>4. CASE ~ \E e \in 1..Events : p = Event(e)
    <3>1. \E c \in Gaps(s) : c < n
      BY <1>8, <1>18, <2>4
    <3> QED BY <1>17, <2>1, <2>2, <2>4, <3>1
  <2> QED BY <2>3, <2>4
<1>20. overflowed[s] = FALSE => Paid(s)
  BY DEF Streams
<1>21. ASSUME Paid(s) PROVE Paid(s)'
  <2>1. /\ subDeaths' = subDeaths /\ boxDeaths' = boxDeaths /\ orphans'[s] = orphans[s]
        /\ subDeaths \in Nat /\ boxDeaths \in Nat /\ damaged[s] \in Nat /\ orphans[s] \in Nat
        /\ damaged'[s] \in Nat /\ Cardinality(Gaps(s)) \in Nat
        /\ Cardinality(Gaps(s)') \in Nat
    BY <1>2 DEF Facts
  <2>2. Cardinality(Gaps(s)) + orphans[s] + damaged[s] <= boxDeaths + 2 * subDeaths
    BY <1>21 DEF Paid
  <2>3. Cardinality(Gaps(s)') + orphans[s] + damaged'[s] <= boxDeaths + 2 * subDeaths
    BY <1>19, <2>1, <2>2
  <2> QED BY <2>1, <2>3 DEF Paid
<1> QED BY <1>5, <1>14, <1>20, <1>21

LEMMA BuildStreams ==
  ASSUME Base, Base', Streams, NEW s \in SFP, Build(s)
  PROVE  Streams'
<1>1. UNCHANGED <<fifo, link, orphans, trdboxd, boxDeaths, subDeaths>>
  BY DEF Build, box, deaths
<1>2. CASE SB!RecvRead(s) /\ UNCHANGED damaged
  <2>1. UNCHANGED <<buffer, fragment, delivered, overflowed>>
    BY <1>2 DEF SB!RecvRead, SB!history
  <2>2. ASSUME NEW t \in SFP
        PROVE  /\ Ordered(delivered[t] \o Coming(t))'
               /\ overflowed'[t] = FALSE => Paid(t)'
    BY <1>1, <1>2, <2>1, Untouched
  <2> QED BY <2>2 DEF Streams
<1>3. ASSUME SB!RecvFragment(s),
             SB!QueryAgain(s) \/ SB!ReplyTimeout(s) \/ SB!ReplySubevent(s),
             \A t \in SFP \ {s} : damaged'[t] = damaged[t],
             /\ Ordered(delivered[s] \o Coming(s))'
             /\ overflowed'[s] = FALSE => Paid(s)'
      PROVE  Streams'
  <2> SUFFICES ASSUME NEW t \in SFP, t # s
               PROVE  /\ Ordered(delivered[t] \o Coming(t))'
                      /\ overflowed'[t] = FALSE => Paid(t)'
    BY <1>3 DEF Streams
  <2>1. fragment'[t] = fragment[t] /\ overflowed'[t] = overflowed[t]
    BY <1>3, ReceivedTypes
  <2>2. buffer'[t] = buffer[t] /\ delivered'[t] = delivered[t]
    <3>1. CASE SB!QueryAgain(s)
      BY <3>1 DEF SB!QueryAgain, Base, Types
    <3>2. CASE SB!ReplyTimeout(s)
      BY <3>2 DEF SB!ReplyTimeout, Base, Types
    <3>3. CASE SB!ReplySubevent(s)
      BY <3>3 DEF SB!ReplySubevent, Base, Types
    <3> QED BY <1>3, <3>1, <3>2, <3>3
  <2> QED BY <1>1, <1>3, <2>1, <2>2, Untouched
<1>4. CASE (SB!QueryAgain(s) \/ SB!ReplyTimeout(s)) /\ UNCHANGED damaged
  <2>1. SB!RecvFragment(s) /\ buffer'[s] = SB!Filled(s) /\ UNCHANGED delivered
    BY <1>4 DEF SB!QueryAgain, SB!ReplyTimeout, Base, Types
  <2>2. /\ Ordered(delivered[s] \o Coming(s))'
        /\ overflowed'[s] = FALSE => Paid(s)'
    BY <1>1, <1>4, <2>1, FillStreams
  <2> QED BY <1>3, <1>4, <2>1, <2>2
<1>5. CASE /\ SB!ReplySubevent(s)
           /\ damaged' = [damaged EXCEPT ![s] =
                 IF \E e \in 1..Events : answer'[s][1].payload = Event(e) THEN @ ELSE @ + 1]
  <2>1. SB!RecvFragment(s) /\ \A t \in SFP \ {s} : damaged'[t] = damaged[t]
    BY <1>5 DEF SB!ReplySubevent, Base, Types
  <2>2. /\ Ordered(delivered[s] \o Coming(s))'
        /\ overflowed'[s] = FALSE => Paid(s)'
    BY <1>1, <1>5, ReplySubeventStreams
  <2> QED BY <1>3, <1>5, <2>1, <2>2
<1> QED BY <1>2, <1>4, <1>5 DEF Build

(* A dump takes the words from the FIFO to the bus.                        *)
LEMMA ServeDumpStreams ==
    ASSUME Base, Base', Streams, NEW s \in SFP, ServeDump(s) PROVE Streams'
<1>1. /\ trdboxd = "up" /\ fragment'[s] = <<fifo[s]>> /\ fifo'[s] = <<>>
      /\ \A t \in SFP \ {s} : fragment'[t] = fragment[t] /\ fifo'[t] = fifo[t]
      /\ UNCHANGED <<buffer, link, delivered, overflowed, orphans, damaged, trdboxd, boxDeaths,
                     subDeaths>>
  BY DEF ServeDump, Base, Types, deaths
<1>2. fragment[s] = <<>>
  BY DEF ServeDump, Base, Types, Serving
<1>3. Facts(s)
  BY LinkFacts
<1>4. Coming(s)' = Coming(s)
  <2>1. buffer[s] \in Seq(SB!Word) /\ fifo[s] \in Seq(SB!Word) /\ link[s] \in Seq(SB!Word)
    BY <1>3 DEF Facts
  <2>2. Contents(fragment'[s]) = fifo[s]
    <3>1. <<fifo[s]>> # <<>> /\ Head(<<fifo[s]>>) = fifo[s]
      BY NotEmpty
    <3> QED BY <1>1, <3>1 DEF Contents
  <2>3. Inner(s)' = buffer[s] \o fifo[s]
    BY <1>1, <2>2 DEF Inner
  <2>4. Inner(s) = buffer[s]
    BY <1>2, <2>1, ConcatEmptySeq DEF Inner, Contents
  <2>5. <<>> \o link[s] = link[s]
    BY <2>1, ConcatEmptySeq
  <2>6. (buffer[s] \o fifo[s]) \o link[s] = buffer[s] \o (fifo[s] \o link[s])
    BY <2>1, WordsAssociate
  <2> QED BY <1>1, <2>3, <2>4, <2>5, <2>6 DEF Coming
<1>5. Gaps(s)' = Gaps(s)
  BY <1>1, <1>4 DEF Gaps
<1> SUFFICES ASSUME NEW t \in SFP
             PROVE  /\ Ordered(delivered[t] \o Coming(t))'
                    /\ overflowed'[t] = FALSE => Paid(t)'
  BY DEF Streams
<1>6. CASE t = s
  BY <1>1, <1>4, <1>5, <1>6, Unmoved
<1>7. CASE t # s
  BY <1>1, <1>7, Untouched
<1> QED BY <1>6, <1>7

(* A dword arrives at the card.                                            *)
LEMMA ArriveStreams ==
  ASSUME Base, Base', Streams, NEW s \in SFP, Arrive(s)
  PROVE  Streams'
<1>1. /\ fifo'[s] = Append(fifo[s], Head(link[s])) /\ link'[s] = Tail(link[s]) /\ link[s] # <<>>
      /\ \A t \in SFP \ {s} : fifo'[t] = fifo[t] /\ link'[t] = link[t]
      /\ UNCHANGED <<buffer, fragment, delivered, overflowed, orphans, damaged, trdboxd, boxDeaths,
                     subDeaths>>
  BY DEF Arrive, Base, Types, builder, deaths
<1>2. fifo[s] \in Seq(SB!Word) /\ link[s] \in Seq(SB!Word)
  BY DEF Base, Types
<1>3. fifo'[s] \o link'[s] = fifo[s] \o link[s]
  <2> DEFINE w == Head(link[s])
             v == Tail(link[s])
  <2>1. w \in SB!Word /\ v \in Seq(SB!Word) /\ <<w>> \in Seq(SB!Word) /\ link[s] = <<w>> \o v
    <3>1. w \in SB!Word /\ v \in Seq(SB!Word)
      BY <1>1, <1>2, HeadTailProperties
    <3>2. <<w>> \in Seq(SB!Word)
      BY <3>1
    <3>3. link[s] = <<w>> \o v
      BY <1>1, <1>2, HeadTailAppend, ConcatSimplifications
    <3> QED BY <3>1, <3>2, <3>3
  <2>2. Append(fifo[s], w) = fifo[s] \o <<w>>
    BY <1>2, <2>1, AppendIsConcat
  <2> HIDE DEF w, v
  <2>3. (fifo[s] \o <<w>>) \o v = fifo[s] \o (<<w>> \o v)
    BY <1>2, <2>1, WordsAssociate
  <2> QED BY <1>1, <2>1, <2>2, <2>3 DEF w, v
<1>4. Coming(s)' = Coming(s) /\ Gaps(s)' = Gaps(s)
  BY <1>1, <1>3 DEF Coming, Gaps, Inner, Contents
<1> SUFFICES ASSUME NEW t \in SFP
             PROVE  /\ Ordered(delivered[t] \o Coming(t))'
                    /\ overflowed'[t] = FALSE => Paid(t)'
  BY DEF Streams
<1>5. CASE t = s
  BY <1>1, <1>4, <1>5, Unmoved
<1>6. CASE t # s
  BY <1>1, <1>6, Untouched
<1> QED BY <1>5, <1>6

-----------------------------------------------------------------------------
LEMMA StreamsNext == Base /\ Base' /\ Streams /\ [Next]_vars => Streams'
<1> SUFFICES ASSUME Base, Base', Streams, [Next]_vars PROVE Streams'
  OBVIOUS
<1>1. CASE BoxDies
  BY <1>1, BoxDiesStreams
<1>2. CASE BoxStart
  BY <1>2, BoxStartStreams
<1>3. CASE SubDies
  BY <1>3, SubDiesStreams
<1>4. ASSUME NEW s \in SFP, ServeOrphan(s)
      PROVE  Streams'
  <2>1. /\ \A t \in SFP \ {s} : fifo'[t] = fifo[t] /\ orphans'[t] = orphans[t]
        /\ UNCHANGED <<buffer, fragment, link, delivered, overflowed, damaged, trdboxd, boxDeaths,
                       subDeaths>>
    BY <1>4 DEF ServeOrphan, Base, Types, builder, deaths
  <2> SUFFICES ASSUME NEW t \in SFP
               PROVE  /\ Ordered(delivered[t] \o Coming(t))'
                      /\ overflowed'[t] = FALSE => Paid(t)'
    BY DEF Streams
  <2>2. CASE t = s
    BY <1>4, <2>2, ServeOrphanStreams
  <2>3. CASE t # s
    BY <2>1, <2>3, Untouched
  <2> QED BY <2>2, <2>3
<1>5. ASSUME UNCHANGED <<buffer, fragment, fifo, link, delivered, overflowed, orphans, damaged,
                         trdboxd, boxDeaths, subDeaths>>
      PROVE  Streams'
  <2>1. ASSUME NEW t \in SFP
        PROVE  /\ Ordered(delivered[t] \o Coming(t))'
               /\ overflowed'[t] = FALSE => Paid(t)'
    BY <1>5, Untouched
  <2> QED BY <2>1 DEF Streams
<1>6. CASE SubStart \/ Terminate \/ DaqDies \/ UNCHANGED vars
  BY <1>5, <1>6 DEF SubStart, Terminate, DaqDies, vars, builder, box, deaths
<1>7. ASSUME NEW s \in SFP,
             \/ Build(s) \/ Expire(s)
             \/ Deliver(s) \/ ServeDump(s) \/ ServeOrphan(s) \/ Arrive(s)
             \/ Ask(s) \/ Send(s) \/ Hand(s) \/ Collect(s)
      PROVE  Streams'
  <2>1. CASE Expire(s) \/ Deliver(s)
    BY <1>5, <2>1 DEF Expire, SB!Expire, SB!ccbus, SB!header, SB!history, Deliver, builder, box, deaths
  <2>2. CASE Ask(s) \/ Send(s) \/ Hand(s) \/ Collect(s)
    BY <1>5, <2>2 DEF Ask, Send, Hand, Collect, builder, box, deaths
  <2> QED BY <1>4, <1>7, <2>1, <2>2, BuildStreams, ServeDumpStreams, ArriveStreams
<1> QED BY <1>1, <1>2, <1>3, <1>6, <1>7 DEF Next

-----------------------------------------------------------------------------
(* Restarts of trdboxd, subevd and minidaq at any moment keep the lockstep *)
(* of the tasks, their buffers in their bounds, and the streams in order   *)
(* with every gap paid for.                                                *)
THEOREM Invariance == Spec => [](Base /\ Streams)
<1>1. Init => Base /\ Streams
  BY InitBase, InitStreams
<1>2. (Base /\ Streams) /\ [Next]_vars => (Base /\ Streams)'
  BY BaseNext, StreamsNext
<1> QED BY <1>1, <1>2, PTL DEF Spec

(* Every variable has its type; a read of minidaq counts as sent exactly   *)
(* while it waits at a task or is being served (cmdsock of subevd).        *)
THEOREM TypeCorrect == Spec => []TypeOK
<1>1. Base => TypeOK
  BY TypesTypeOK DEF Base
<1> QED BY <1>1, Invariance, PTL

(* No restart makes a task take a reply for the answer to another query,   *)
(* and no query or reply of a task outlives it at its successor (the REQ   *)
(* socket ccbus of trd_subevent_builder.cc).                               *)
THEOREM LockstepAcrossRestarts == Spec => []LockstepKept
<1>1. Base => LockstepKept
  BY ServingLockstep DEF Base
<1> QED BY <1>1, Invariance, PTL

(* What has been sent to minidaq and what is on the way is in the order of *)
(* the detector, with no dword twice, through every restart and overflow.  *)
THEOREM OrderAcrossRestarts == Spec => []InOrder
<1>1. Base /\ Streams => InOrder
  <2> SUFFICES ASSUME Base, Streams, NEW s \in SFP
               PROVE  LET words == delivered[s] \o buffer[s] \o Contents(fragment[s]) \o fifo[s] \o link[s]
                      IN  \A i, j \in 1..Len(words) :
                            i < j /\ EOD \notin {words[i], words[j]} => Before(words[i], words[j])
    BY DEF InOrder
  <2>1. Facts(s)
    BY LinkFacts
  <2> DEFINE d == delivered[s]
             b == buffer[s]
             c == Contents(fragment[s])
             f == fifo[s]
             l == link[s]
  <2>2. d \in Seq(SB!Word) /\ b \in Seq(SB!Word) /\ c \in Seq(SB!Word) /\ f \in Seq(SB!Word) /\ l \in Seq(SB!Word)
    BY <2>1 DEF Facts
  <2>3. Ordered(d \o ((b \o c) \o (f \o l)))
    BY DEF Streams, Coming, Inner
  <2> HIDE DEF d, b, c, f, l
  <2>4. d \o b \o c \o f \o l = d \o ((b \o c) \o (f \o l))
    <3>1. b \o c \in Seq(SB!Word) /\ f \o l \in Seq(SB!Word) /\ d \o (b \o c) \in Seq(SB!Word)
      BY <2>2, Concat
    <3>2. (d \o b) \o c = d \o (b \o c)
      BY <2>2, WordsAssociate
    <3>3. ((d \o (b \o c)) \o f) \o l = (d \o (b \o c)) \o (f \o l)
      <4> DEFINE w == d \o (b \o c)
      <4>1. w \in Seq(SB!Word)
        BY <3>1
      <4> HIDE DEF w
      <4>2. (w \o f) \o l = w \o (f \o l)
        BY <2>2, <4>1, WordsAssociate
      <4> QED BY <4>2 DEF w
    <3>4. (d \o (b \o c)) \o (f \o l) = d \o ((b \o c) \o (f \o l))
      <4> DEFINE v == b \o c
                 w == f \o l
      <4>1. v \in Seq(SB!Word) /\ w \in Seq(SB!Word)
        BY <3>1
      <4> HIDE DEF v, w
      <4>2. (d \o v) \o w = d \o (v \o w)
        BY <2>2, <4>1, WordsAssociate
      <4> QED BY <4>2 DEF v, w
    <3> QED BY <3>2, <3>3, <3>4
  <2> DEFINE words == d \o b \o c \o f \o l
  <2>5. Ordered(words)
    BY <2>3, <2>4
  <2> HIDE DEF words
  <2>6. \A i, j \in 1..Len(words) :
           i < j /\ EOD \notin {words[i], words[j]} => Before(words[i], words[j])
    BY <2>5 DEF Ordered
  <2> QED BY <2>6 DEF words, d, b, c, f, l
<1> QED BY <1>1, Invariance, PTL

(* On a link whose buffer has not overflowed the subevents that are not    *)
(* whole events are at most the restarts of trdboxd and twice those of     *)
(* subevd: find_dword comes back to the event boundaries by itself.        *)
THEOREM DamageIsBounded == Spec => []DamageBounded
<1>1. Base /\ Streams => DamageBounded
  <2> SUFFICES ASSUME Base, Streams, NEW s \in SFP, ~overflowed[s]
               PROVE  damaged[s] <= boxDeaths + 2 * subDeaths
    BY DEF DamageBounded
  <2>1. Facts(s)
    BY LinkFacts
  <2>2. Paid(s)
    BY <2>1 DEF Streams, Facts
  <2> QED BY <2>1, <2>2 DEF Paid, Facts
<1> QED BY <1>1, Invariance, PTL
=============================================================================
