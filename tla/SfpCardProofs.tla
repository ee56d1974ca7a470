--------------------------- MODULE SfpCardProofs ---------------------------
(***************************************************************************)
(* Theorems about the card procedures, for every number of phase steps,    *)
(* bits, runs, words and tries, and for all cards.                         *)
(***************************************************************************)
EXTENDS SfpCard, TLAPS, SequenceTheorems, WellFoundedInduction

(* What the arguments need of the types.                                   *)
CoreType ==
    /\ card \in Card
    /\ hw \in Hardware
    /\ dcm \in [Card -> Int]
    /\ configured \in [Card -> BOOLEAN]
    /\ config \in [Card -> {"loop1", "loop2", "normal", "none"}]

LEMMA Ends == CoreType => hw[card].left \in Int /\ hw[card].right \in Int
                          /\ hw[card].left <= 0 /\ hw[card].right >= 0
BY CardAssumption DEF CoreType, CardType

(* Where a returning procedure leads to.                                   *)
LEMMA Returned ==
    ASSUME Return, card \in Card
    PROVE  card' \in Card /\ step' \in {"config", "open", "none"}
BY DEF Return, Startup, Enter, Card

-----------------------------------------------------------------------------
(* The scan.  Below the middle the steps are counted from the reset; above *)
(* the left end the rows are those from there to the phase, and the phase  *)
(* is the position of the DCM but for a refused last step.                 *)
Descending ==
    /\ i \in 0..MaxDelay
    /\ rows = {} /\ right = maxp
    /\ dcm[card] = -i /\ hw[card].left <= -i

Ascending ==
    /\ left \in -MaxDelay..0
    /\ ph \in left..maxp
    /\ rows = left..ph
    /\ \/ /\ i = ph + 1 /\ right = maxp
          /\ dcm[card] = ph /\ ph <= hw[card].right
       \/ /\ i = maxp + 1 /\ right = ph
          /\ dcm[card] = ph - 1 /\ dcm[card] = hw[card].right

ScanInv ==
    /\ CoreType
    /\ rows \subseteq -MaxDelay..maxp
    /\ step = "down" => Descending
    /\ step = "up" => Ascending

LEMMA ScanInit == Init => ScanInv
<1> SUFFICES ASSUME Init PROVE ScanInv
  OBVIOUS
<1>1. hw \in Hardware /\ hw \in [Card -> CardType]
  BY CardAssumption DEF Init
<1>2. configured \in [Card -> BOOLEAN]
  BY <1>1 DEF Init, CardType
<1> QED BY <1>1, <1>2 DEF Init, ScanInv, CoreType, Card

LEMMA ScanStep == ScanInv /\ [Next]_vars => ScanInv'
<1> SUFFICES ASSUME ScanInv, [Next]_vars PROVE ScanInv'
  OBVIOUS
<1> USE CardAssumption
<1>0. /\ hw[card].left \in Int /\ hw[card].right \in Int
      /\ hw[card].left <= 0 /\ hw[card].right >= 0 /\ dcm[card] \in Int
  BY Ends DEF ScanInv, CoreType
<1>1. ASSUME UNCHANGED <<hw, dcm, scanvars>>, CoreType', step' \notin {"down", "up"}
      PROVE  ScanInv'
  BY <1>1 DEF ScanInv, scanvars, maxp
<1>2. CASE TestConfig
  <2>1. CoreType'
    BY <1>2 DEF TestConfig, SetConfig, ScanInv, CoreType, fixed
  <2> QED BY <1>1, <1>2, <2>1 DEF TestConfig, fixed
<1>3. CASE TestClear \/ Burst
  <2>1. CoreType'
    BY <1>3 DEF TestClear, Burst, ScanInv, CoreType, fixed
  <2> QED BY <1>1, <1>3, <2>1 DEF TestClear, Burst, fixed
<1>4. CASE TestRestore
  <2>1. card \in Card
    BY DEF ScanInv, CoreType
  <2>2. card' \in Card /\ step' \in {"config", "open", "none"}
    BY <1>4, <2>1, Returned DEF TestRestore
  <2>3. CoreType'
    BY <1>4, <2>2 DEF TestRestore, SetConfig, ScanInv, CoreType, fixed
  <2> QED BY <1>1, <1>4, <2>2, <2>3 DEF TestRestore, fixed
<1>5. CASE ScanReset
  <2>1. CoreType'
    BY <1>5 DEF ScanReset, ScanInv, CoreType, fixed
  <2>2. dcm'[card] = 0
    BY <1>5 DEF ScanReset, ScanInv, CoreType
  <2>3. i' = 0 /\ rows' = {} /\ right' = maxp /\ step' = "down" /\ card' = card /\ hw' = hw
    BY <1>5 DEF ScanReset, fixed
  <2>4. Descending'
    BY <1>0, <2>2, <2>3 DEF Descending, maxp
  <2> QED BY <2>1, <2>3, <2>4 DEF ScanInv
<1>6. CASE ScanDown
  <2>1. Descending /\ CoreType
    BY <1>6 DEF ScanDown, At, ScanInv
  <2>2. dcm' = [dcm EXCEPT ![card] = @ + (-1)]
    BY <1>6 DEF ScanDown, Move
  <2>3. CoreType' /\ dcm'[card] = dcm[card] - 1
    BY <1>6, <2>1, <2>2 DEF ScanDown, CoreType, fixed
  <2>4. Descending'
    BY <1>6, <1>0, <2>1, <2>3 DEF ScanDown, AtLeft, Descending, maxp, fixed
  <2> QED BY <1>6, <2>3, <2>4 DEF ScanDown, At, ScanInv
<1>7. CASE ScanLeft
  <2>1. Descending /\ CoreType
    BY <1>7 DEF ScanLeft, At, ScanInv
  <2>2. CoreType'
    BY <1>7, <2>1 DEF ScanLeft, CoreType, fixed
  <2>3. ph' = -i /\ left' = -i /\ i' = -i + 1 /\ rows' = {-i} /\ right' = maxp
    BY <1>7, <2>1 DEF ScanLeft, TestOptIo, Descending
  <2>4. Ascending'
    <3>1. dcm' = dcm /\ card' = card /\ hw' = hw
      BY <1>7 DEF ScanLeft, fixed
    <3>2. rows' = left'..ph'
      BY <2>1, <2>3 DEF Descending
    <3> QED BY <1>0, <2>1, <2>3, <3>1, <3>2 DEF Descending, Ascending, maxp
  <2>5. rows' \subseteq -MaxDelay..maxp
    BY <2>1, <2>3 DEF Descending, maxp
  <2> QED BY <1>7, <2>2, <2>4, <2>5 DEF ScanLeft, ScanInv, maxp
<1>8. CASE ScanUp
  <2>1. Ascending /\ CoreType
    BY <1>8 DEF ScanUp, At, ScanInv
  <2>2. dcm' = [dcm EXCEPT ![card] = @ + 1]
    BY <1>8 DEF ScanUp, Move
  <2>3. CoreType' /\ dcm'[card] = dcm[card] + 1
    BY <1>8, <2>1, <2>2 DEF ScanUp, CoreType, fixed
  <2>4. ph' = ph + 1 /\ i' = i + 1 /\ rows' = rows \cup {ph + 1}
        /\ UNCHANGED <<card, left, right, hw>>
    BY <1>8 DEF ScanUp, TestOptIo, fixed
  <2>5. i = ph + 1 /\ right = maxp /\ dcm[card] = ph /\ ph < hw[card].right
    BY <1>8, <1>0, <2>1 DEF ScanUp, AtRight, Ascending, maxp
  <2>6. ph + 1 <= maxp
    BY <1>8, <2>5 DEF ScanUp
  <2>7. rows' = left..(ph + 1)
    BY <2>1, <2>4 DEF Ascending, maxp
  <2>8. Ascending'
    BY <1>0, <2>1, <2>3, <2>4, <2>5, <2>6, <2>7 DEF Ascending, maxp
  <2>9. rows' \subseteq -MaxDelay..maxp
    BY <2>1, <2>6, <2>7 DEF Ascending, maxp
  <2> QED BY <1>8, <2>3, <2>8, <2>9 DEF ScanUp, At, ScanInv, maxp
<1>9. CASE ScanRight
  <2>1. Ascending /\ CoreType
    BY <1>9 DEF ScanRight, At, ScanInv
  <2>2. CoreType'
    BY <1>9, <2>1 DEF ScanRight, CoreType, fixed
  <2>3. ph' = ph + 1 /\ i' = maxp + 1 /\ right' = ph + 1 /\ rows' = rows \cup {ph + 1}
        /\ UNCHANGED <<card, left, hw, dcm>>
    BY <1>9 DEF ScanRight, TestOptIo, fixed
  <2>4. i = ph + 1 /\ dcm[card] = ph /\ dcm[card] = hw[card].right
    BY <1>9, <2>1 DEF ScanRight, AtRight, Ascending, maxp
  <2>5. ph + 1 <= maxp
    BY <1>9, <2>4 DEF ScanRight
  <2>6. rows' = left..(ph + 1)
    BY <2>1, <2>3 DEF Ascending, maxp
  <2>7. Ascending'
    BY <1>0, <2>1, <2>3, <2>4, <2>5, <2>6 DEF Ascending, maxp
  <2>8. rows' \subseteq -MaxDelay..maxp
    BY <2>1, <2>5, <2>6 DEF Ascending, maxp
  <2> QED BY <1>9, <2>2, <2>7, <2>8 DEF ScanRight, At, ScanInv, maxp
<1>10. CASE ScanFile \/ ScanNoFile \/ NoFile
  <2>1. CoreType'
    BY <1>10 DEF ScanFile, ScanNoFile, NoFile, Die, ScanInv, CoreType, fixed, cardvars
  <2> QED BY <1>1, <1>10, <2>1 DEF ScanFile, ScanNoFile, NoFile, Die, fixed, cardvars
<1>11. CASE StartProg \/ PollInit \/ WriteBytes \/ PollDone
  <2>1. CoreType'
    <3>1. UNCHANGED <<card, hw, dcm>>
      BY <1>11 DEF StartProg, PollInit, WriteBytes, PollDone, fixed, cardvars
    <3>2. CASE StartProg
      BY <3>1, <3>2 DEF StartProg, ScanInv, CoreType
    <3>3. CASE PollInit
      BY <3>1, <3>3 DEF PollInit, cardvars, ScanInv, CoreType
    <3>4. CASE Takes
      <4>1. CASE UNCHANGED <<configured, config>>
        BY <3>1, <4>1 DEF ScanInv, CoreType
      <4>2. CASE /\ configured' = [configured EXCEPT ![card] = TRUE]
                 /\ config' = [config EXCEPT ![card] = "normal"]
        BY <3>1, <4>2 DEF ScanInv, CoreType
      <4> QED BY <3>4, <4>1, <4>2 DEF Takes
    <3> QED BY <1>11, <3>2, <3>3, <3>4 DEF WriteBytes, PollDone
  <2>2. step' \notin {"down", "up"} /\ rows' = rows
    BY <1>11 DEF StartProg, PollInit, WriteBytes, PollDone, At
  <2> QED BY <2>1, <2>2 DEF ScanInv, maxp
<1>12. CASE EndProg
  <2>1. card \in Card
    BY DEF ScanInv, CoreType
  <2>2. card' \in Card /\ step' \in {"config", "open", "none"}
    BY <1>12, <2>1, Returned DEF EndProg
  <2>3. CoreType'
    BY <1>12, <2>2 DEF EndProg, ScanInv, CoreType, fixed, cardvars
  <2> QED BY <1>1, <1>12, <2>2, <2>3 DEF EndProg, fixed, cardvars
<1>13. ASSUME NEW c \in Card, Command(c)
       PROVE  ScanInv'
  <2>1. CoreType'
    BY <1>13 DEF Command, Enter, ScanInv, CoreType, fixed, cardvars
  <2>2. step' \in {"config", "open"}
    BY <1>13 DEF Command, Enter
  <2> QED BY <1>1, <1>13, <2>1, <2>2 DEF Command, fixed, cardvars
<1>14. ASSUME UNCHANGED <<step, card, scanvars, hw, configured, config, dcm>>
       PROVE  ScanInv'
  BY <1>14 DEF ScanInv, CoreType, Descending, Ascending, maxp, scanvars
<1>15. ASSUME NEW c \in Card, ResetCard(c) \/ Dump(c) \/ Arrive(c)
       PROVE  ScanInv'
  BY <1>14, <1>15 DEF ResetCard, Dump, Arrive, fixed
<1>16. CASE Restart
  <2>1. CoreType' /\ step' = "config"
    BY <1>16 DEF Restart, Enter, ScanInv, CoreType, Card, cardvars
  <2> QED BY <1>1, <1>16, <2>1 DEF Restart, cardvars
<1>17. CASE UNCHANGED vars
  BY <1>14, <1>17 DEF vars, fixed, cardvars
<1> QED BY <1>2, <1>3, <1>4, <1>5, <1>6, <1>7, <1>8, <1>9, <1>10, <1>11, <1>12, <1>13, <1>15,
           <1>16, <1>17
         DEF Next, Procedure, Scan, Program

LEMMA ScanInvariant == Spec => []ScanInv
BY ScanInit, ScanStep, PTL DEF Spec

(* The scan stays in its array of 2 * MaxDelay + 2 elements, wherever the  *)
(* ends of the DCM are (test_rxtx_ph, su738.cc:832-872).                   *)
THEOREM ScanStaysInArray == Spec => []ScanInArray
<1>1. ScanInv => ScanInArray
  BY CardAssumption DEF ScanInv, ScanInArray, maxp
<1> QED BY <1>1, ScanInvariant, PTL

(* No element of err is written to the file that this scan has not stored  *)
(* (su738.cc:885-888).                                                     *)
THEOREM ScanMeasuresRows == Spec => []RowsMeasured
<1>1. ScanInv => RowsMeasured
  <2> SUFFICES ASSUME ScanInv, At("up"), i > maxp
               PROVE  rows = left..right
    BY DEF RowsMeasured
  <2>1. Ascending
    BY DEF ScanInv, At
  <2> QED BY <2>1, CardAssumption DEF Ascending, maxp
<1> QED BY <1>1, ScanInvariant, PTL

(* Each row but that of a refused step is for the phase it names           *)
(* (set_dcm and test_rxtx_ph, su738.cc:797-872).                           *)
THEOREM ScanNamesPhases == Spec => []PhaseIsPosition
<1>1. ScanInv => PhaseIsPosition
  <2> SUFFICES ASSUME ScanInv, At("up")
               PROVE  dcm[card] = IF ph > hw[card].right THEN ph - 1 ELSE ph
    BY DEF PhaseIsPosition
  <2>1. Ascending
    BY DEF ScanInv, At
  <2>2. hw[card].right \in Int
    BY Ends DEF ScanInv
  <2> QED BY <2>1, <2>2, CardAssumption DEF Ascending, maxp
<1> QED BY <1>1, ScanInvariant, PTL

-----------------------------------------------------------------------------
(* The config register.  While the process lives only the card under test  *)
(* may be in a loopback, and only from the first statement of the test to  *)
(* the last, or a card that the start-up has not reached yet.              *)
InTest == {"clear", "burst", "restore", "reset", "down", "up"}

UnderTest(c) == card = c /\ step \in InTest

Ahead(c) ==
    server = "startup" /\ (card < c \/ (card = c /\ proc = "test1" /\ step = "config"))

ConfigInv ==
    /\ card \in Card
    /\ configured \in [Card -> BOOLEAN]
    /\ config \in [Card -> {"loop1", "loop2", "normal", "none"}]
    /\ proc = "none" => step \notin InTest
    /\ server = "dead" => proc = "none"
    /\ \A c \in Card : ~configured[c] => config[c] = "none"
    /\ server # "dead" =>
          \A c \in Card : configured[c] /\ ~UnderTest(c) /\ ~Ahead(c) => config[c] = "normal"

LEMMA ConfigInit == Init => ConfigInv
<1> SUFFICES ASSUME Init PROVE ConfigInv
  OBVIOUS
<1>1. configured \in [Card -> BOOLEAN]
  <2>1. hw \in [Card -> CardType]
    BY CardAssumption DEF Init
  <2> QED BY <2>1 DEF Init, CardType
<1>2. \A c \in Card : config[c] = IF configured[c] THEN "normal" ELSE "none"
  BY DEF Init
<1>3. config \in [Card -> {"loop1", "loop2", "normal", "none"}]
  BY DEF Init
<1>4. card = 0 /\ step = "config" /\ proc = "test1"
  BY DEF Init
<1>5. \A c \in Card : configured[c] => config[c] = "normal"
  BY <1>2
<1>6. \A c \in Card : ~configured[c] => config[c] = "none"
  BY <1>2
<1>7. server # "dead"
  BY DEF Init
<1> QED BY <1>1, <1>3, <1>4, <1>5, <1>6, <1>7 DEF ConfigInv, Card, InTest

(* The register of the card under test is written.                         *)
LEMMA Written ==
    ASSUME ConfigInv, NEW v \in {"loop1", "loop2", "normal"}, SetConfig(card, v)
    PROVE  /\ config' \in [Card -> {"loop1", "loop2", "normal", "none"}]
           /\ \A c \in Card : c # card => config'[c] = config[c]
           /\ config'[card] = IF configured[card] THEN v ELSE "none"
BY DEF ConfigInv, SetConfig

(* A returning procedure leads to the next card or procedure, or to none.  *)
LEMMA ReturnsTo ==
    ASSUME Return, server # "dead", proc # "none", card \in Card
    PROVE  /\ card' \in Card /\ step' \notin InTest /\ server' # "dead"
           /\ \A c \in Card : Ahead(c) /\ c # card => Ahead(c)'
<1> USE DEF Return, Startup, Enter, Ahead, InTest, Card
<1>1. CASE server # "startup"
  BY <1>1
<1>2. CASE server = "startup" /\ ((proc = "test1" /\ failed) \/ proc = "prog")
  BY <1>2
<1>3. CASE server = "startup" /\ ~((proc = "test1" /\ failed) \/ proc = "prog") /\ card = 0
  BY <1>3
<1>4. CASE server = "startup" /\ ~((proc = "test1" /\ failed) \/ proc = "prog") /\ card = 1
  BY <1>4
<1> QED BY <1>1, <1>2, <1>3, <1>4

LEMMA ConfigStep == ConfigInv /\ [Next]_vars => ConfigInv'
<1> SUFFICES ASSUME ConfigInv, [Next]_vars PROVE ConfigInv'
  OBVIOUS
<1>0. card \in Card
  BY DEF ConfigInv
<1>1. ASSUME UNCHANGED <<server, card, proc, configured, config>>, proc # "none",
             step \in InTest, step' \in InTest
      PROVE  ConfigInv'
  BY <1>1 DEF ConfigInv, UnderTest, Ahead, InTest
<1>2. ASSUME UNCHANGED <<server, card, proc, configured, config>>, proc # "none",
             step \notin InTest \cup {"config"}, step' \notin InTest \cup {"config"}
      PROVE  ConfigInv'
  BY <1>2 DEF ConfigInv, UnderTest, Ahead
<1>3. CASE TestConfig
  <2>1. PICK v \in {"loop1", "loop2"} : SetConfig(card, v)
    BY <1>3 DEF TestConfig
  <2>2. UNCHANGED <<server, card, configured, proc>> /\ proc # "none" /\ step' = "clear" /\ step = "config"
    BY <1>3 DEF TestConfig, At
  <2> QED BY <2>1, <2>2, Written DEF ConfigInv, UnderTest, Ahead, InTest
<1>4. CASE TestClear \/ Burst \/ ScanReset \/ ScanDown \/ ScanLeft \/ ScanUp \/ ScanRight \/ ScanFile
  <2>1. UNCHANGED <<server, card, configured, config, proc>> /\ step \in InTest /\ step' \in InTest /\ proc # "none"
    BY <1>4 DEF TestClear, Burst, ScanReset, ScanDown, ScanLeft, ScanUp, ScanRight, ScanFile,
                At, InTest, cardvars
  <2> QED BY <1>1, <2>1
<1>5. CASE TestRestore
  <2>1. SetConfig(card, "normal") /\ UNCHANGED configured /\ proc # "none" /\ server # "dead"
    BY <1>5 DEF TestRestore, At, ConfigInv
  <2>2. /\ card' \in Card /\ step' \notin InTest /\ server' # "dead"
        /\ \A c \in Card : Ahead(c) /\ c # card => Ahead(c)'
    BY <1>0, <1>5, <2>1, ReturnsTo DEF TestRestore
  <2>3. /\ config' \in [Card -> {"loop1", "loop2", "normal", "none"}]
        /\ \A c \in Card : c # card => config'[c] = config[c]
        /\ config'[card] = IF configured[card] THEN "normal" ELSE "none"
    BY <2>1, Written
  <2> QED BY <2>1, <2>2, <2>3 DEF ConfigInv, UnderTest
<1>6. CASE PollInit
  <2>1. /\ UNCHANGED <<server, card, proc, configured, config>> /\ proc # "none"
        /\ step = "init" /\ step' \in {"init", "bytes"}
    BY <1>6 DEF PollInit, At, cardvars
  <2> QED BY <1>2, <2>1 DEF InTest
<1>7. CASE StartProg
  <2>1. /\ configured' = [configured EXCEPT ![card] = FALSE]
        /\ config' = [config EXCEPT ![card] = "none"]
        /\ UNCHANGED <<server, proc, card>> /\ proc # "none" /\ step = "open" /\ step' = "init"
    BY <1>7 DEF StartProg, At
  <2> QED BY <2>1 DEF ConfigInv, UnderTest, Ahead, InTest
<1>8. CASE WriteBytes \/ PollDone
  <2>1. /\ Takes /\ UNCHANGED <<server, proc, card>> /\ proc # "none"
        /\ step \notin InTest \cup {"config"} /\ step' \notin InTest \cup {"config"}
    BY <1>8 DEF WriteBytes, PollDone, At, InTest
  <2>2. CASE UNCHANGED <<configured, config>>
    BY <1>2, <2>1, <2>2
  <2>3. CASE /\ configured' = [configured EXCEPT ![card] = TRUE]
             /\ config' = [config EXCEPT ![card] = "normal"]
    BY <2>1, <2>3 DEF ConfigInv, UnderTest, Ahead
  <2> QED BY <2>1, <2>2, <2>3 DEF Takes
<1>9. CASE EndProg
  <2>1. /\ UNCHANGED <<configured, config>> /\ proc # "none" /\ step = "done" /\ server # "dead"
    BY <1>9 DEF EndProg, At, cardvars, ConfigInv
  <2>2. /\ card' \in Card /\ step' \notin InTest /\ server' # "dead"
        /\ \A c \in Card : Ahead(c) /\ c # card => Ahead(c)'
    BY <1>0, <1>9, <2>1, ReturnsTo DEF EndProg
  <2>3. ~UnderTest(card) /\ ~Ahead(card)
    BY <1>0, <2>1 DEF UnderTest, Ahead, InTest, Card
  <2> QED BY <2>1, <2>2, <2>3 DEF ConfigInv, UnderTest
<1>10. ASSUME NEW c \in Card, Command(c)
       PROVE  ConfigInv'
  <2>1. step \notin InTest /\ server = "serving" /\ server' = "serving"
    BY <1>10 DEF Command, Idle, ConfigInv
  <2>2. card' = c /\ step' \in {"open", "config"} /\ UNCHANGED <<configured, config>> /\ proc' # "none"
    BY <1>10 DEF Command, Enter, cardvars
  <2> QED BY <2>1, <2>2 DEF ConfigInv, UnderTest, Ahead, InTest
<1>11. ASSUME UNCHANGED <<server, card, step, proc, configured, config>>
       PROVE  ConfigInv'
  BY <1>11 DEF ConfigInv, UnderTest, Ahead
<1>12. ASSUME NEW c \in Card, ResetCard(c) \/ Dump(c) \/ Arrive(c)
       PROVE  ConfigInv'
  <2>1. UNCHANGED <<server, card, step, proc, configured, config>>
    BY <1>12 DEF ResetCard, Dump, Arrive
  <2> QED BY <1>11, <2>1
<1>13. CASE UNCHANGED vars
  BY <1>11, <1>13 DEF vars, cardvars
<1>14. CASE NoFile \/ ScanNoFile
  <2>1. /\ server' = "dead" /\ proc' = "none" /\ step' = "none"
        /\ UNCHANGED <<card, configured, config>>
    BY <1>14 DEF NoFile, ScanNoFile, Die, cardvars
  <2> QED BY <2>1 DEF ConfigInv, InTest
<1>15. CASE Restart
  <2>1. /\ server' = "startup" /\ proc' = "test1" /\ card' = 0 /\ step' = "config"
        /\ UNCHANGED <<configured, config>>
    BY <1>15 DEF Restart, Enter, cardvars
  <2>2. \A c \in Card : Ahead(c)'
    BY <2>1 DEF Ahead, Card
  <2> QED BY <2>1, <2>2 DEF ConfigInv, Card, InTest
<1> QED BY <1>3, <1>4, <1>5, <1>6, <1>7, <1>8, <1>9, <1>10, <1>12, <1>13, <1>14, <1>15
         DEF Next, Procedure, Scan, Program

(* No card is left in a loopback when trdboxd binds its socket or waits    *)
(* for a command (su738.cc:121-199, 1144-1310; trdboxd.cc:94-115).         *)
THEOREM CardsAreNormalWhenIdle == Spec => []NormalWhenIdle
<1>1. ConfigInv => NormalWhenIdle
  <2> SUFFICES ASSUME ConfigInv, Idle, NEW c \in Card
               PROVE  config[c] = IF configured[c] THEN "normal" ELSE "none"
    BY DEF NormalWhenIdle
  <2>1. ~UnderTest(c) /\ ~Ahead(c) /\ server # "dead"
    BY DEF ConfigInv, Idle, UnderTest, Ahead
  <2> QED BY <2>1 DEF ConfigInv
<1> QED BY <1>1, ConfigInit, ConfigStep, PTL DEF Spec

-----------------------------------------------------------------------------
(* The patterns.  Every word of them is a word, however many there are; a  *)
(* word and its complement alternate; and the shifting pattern, mode 1,    *)
(* starts run r with bit r alone.  RunWords is defined by recursion: that  *)
(* the function exists, and has its type, is shown by the least index at   *)
(* which it would not.                                                     *)
Less == {p \in Nat \X Nat : p[1] < p[2]}

LEMMA LeastOne ==
    ASSUME NEW T \in SUBSET Nat, T # {}
    PROVE  \E n \in T : \A m \in T : ~(m < n)
<1>1. IsWellFoundedOn(Less, Nat)
  BY NatLessThanWellFounded, SMT DEF OpToRel, Less
<1>2. \E n \in T : \A m \in T : ~(<<m, n>> \in Less)
  BY <1>1, WFMin
<1> QED BY <1>2 DEF Less

LEMMA Sizes ==
    /\ NBits \in Nat \ {0} /\ Runs \in Nat \ {0} /\ NWords \in Nat \ {0}
    /\ NWords * Runs \in Nat \ {0} /\ 2 * NWords * Runs = 2 * (NWords * Runs)
    /\ NWords <= NWords * Runs
<1>1. NBits \in Nat \ {0} /\ Runs \in Nat \ {0} /\ NWords \in Nat \ {0}
  BY CardAssumption
<1>2. NWords * Runs \in Nat \ {0} /\ NWords <= NWords * Runs
  BY <1>1
<1> QED BY <1>1, <1>2

LEMMA FirstIsWord ==
    ASSUME NEW m \in 0..3, NEW r \in Nat
    PROVE  gen_first(m, r) \in Word
<1>1. CASE m = 0
  BY <1>1 DEF gen_first, Bits, Word
<1>2. CASE m = 1
  <2>1. r % NBits \in Bit
    BY Sizes DEF Bit
  <2> QED BY <1>2, <2>1 DEF gen_first, Word
<1>3. CASE m = 2
  <2>1. 1 + (r % 4) \in {1, 2, 3, 4}
    OBVIOUS
  <2>2. {} \in Word /\ mask \in Word /\ {b \in mask : b % 2 = 0} \in Word
        /\ {b \in mask : b % 2 = 1} \in Word
    BY DEF mask, Word
  <2> DEFINE a == {b \in mask : b % 2 = 0}
             z == {b \in mask : b % 2 = 1}
             e == {}
  <2>3. gen_first(m, r) = <<e, mask, a, z>>[1 + (r % 4)]
    BY <1>3 DEF gen_first
  <2>4. e \in Word /\ mask \in Word /\ a \in Word /\ z \in Word
    BY <2>2
  <2> HIDE DEF a, z, e
  <2>5. <<e, mask, a, z>>[1 + (r % 4)] \in {e, mask, a, z}
    BY <2>1
  <2> QED BY <2>3, <2>4, <2>5
<1>4. CASE m = 3
  BY <1>4 DEF gen_first, Word
<1> QED BY <1>1, <1>2, <1>3, <1>4

LEMMA NextIsWord ==
    ASSUME NEW m \in 0..3, NEW w \in Word
    PROVE  gen_tp(w, m) \in Word
<1>1. Count(w) \cap mask \in Word
  BY DEF Count, mask, Word
<1>2. Shift(w) \in Word
  <2>1. {b + 1 : b \in w} \cap mask \in Word
    BY DEF mask, Word
  <2>2. {0} \in Word
    BY Sizes DEF Word, Bit
  <2> QED BY <2>1, <2>2 DEF Shift
<1>3. mask \ w \in Word
  BY DEF mask, Word
<1> QED BY <1>1, <1>2, <1>3 DEF gen_tp

Generates(f, m, r, n) ==
    f = [j \in 0..n |-> IF j = 0 THEN gen_first(m, r) ELSE gen_tp(f[j - 1], m)]

LEMMA GeneratedExists ==
    ASSUME NEW m, NEW r, NEW n \in Nat
    PROVE  \E f : Generates(f, m, r, n)
<1> DEFINE T == {k \in Nat : ~ \E f : Generates(f, m, r, k)}
<1>1. SUFFICES ASSUME T # {} PROVE FALSE
  OBVIOUS
<1>2. PICK k \in T : \A l \in T : ~(l < k)
  BY <1>1, LeastOne
<1>3. k # 0
  <2> DEFINE f == [j \in 0..0 |-> gen_first(m, r)]
  <2>1. \A j \in 0..0 : f[j] = IF j = 0 THEN gen_first(m, r) ELSE gen_tp(f[j - 1], m)
    OBVIOUS
  <2>2. f = [j \in 0..0 |-> f[j]]
    OBVIOUS
  <2> HIDE DEF f
  <2>3. Generates(f, m, r, 0)
    BY <2>1, <2>2 DEF Generates
  <2> QED BY <2>3, <1>2
<1>4. k - 1 \in Nat /\ k - 1 < k
  BY <1>3
<1>5. PICK g : Generates(g, m, r, k - 1)
  BY <1>2, <1>4
<1> DEFINE h == [j \in 0..k |-> IF j < k THEN g[j] ELSE gen_tp(g[k - 1], m)]
<1>6. \A j \in 0..k : h[j] = IF j = 0 THEN gen_first(m, r) ELSE gen_tp(h[j - 1], m)
  <2> TAKE j \in 0..k
  <2>1. CASE j < k
    <3>1. j \in 0..k - 1 /\ (j # 0 => j - 1 \in 0..k /\ j - 1 < k)
      BY <2>1
    <3>2. g[j] = IF j = 0 THEN gen_first(m, r) ELSE gen_tp(g[j - 1], m)
      BY <1>5, <3>1 DEF Generates
    <3> QED BY <2>1, <3>1, <3>2
  <2>2. CASE j = k
    <3>1. j # 0 /\ j - 1 \in 0..k /\ j - 1 < k
      BY <1>3, <2>2
    <3> QED BY <2>2, <3>1
  <2> QED BY <2>1, <2>2
<1>7. Generates(h, m, r, k)
  <2> HIDE DEF h
  <2>1. h = [j \in 0..k |-> h[j]]
    BY DEF h
  <2> QED BY <1>6, <2>1 DEF Generates
<1> QED BY <1>2, <1>7

LEMMA RunIs ==
    ASSUME NEW m \in 0..3, NEW r \in Nat
    PROVE  /\ RunWords(m, r)[0] = gen_first(m, r)
           /\ \A j \in 0..NWords - 1 : RunWords(m, r)[j] \in Word
<1> DEFINE n == NWords - 1
           f == RunWords(m, r)
<1>1. n \in Nat
  BY Sizes
<1>2. f = CHOOSE g : Generates(g, m, r, n)
  BY DEF RunWords, Generates
<1>3. Generates(f, m, r, n)
  <2>1. \E g : Generates(g, m, r, n)
    BY <1>1, GeneratedExists
  <2> QED BY <1>2, <2>1
<1> HIDE DEF f, n
<1>4. \A j \in 0..n : f[j] = IF j = 0 THEN gen_first(m, r) ELSE gen_tp(f[j - 1], m)
  BY <1>3 DEF Generates
<1>5. f[0] = gen_first(m, r)
  BY <1>1, <1>4
<1>6. \A j \in 0..n : f[j] \in Word
  <2> DEFINE T == {j \in Nat : j \in 0..n /\ f[j] \notin Word}
  <2>1. SUFFICES ASSUME T # {} PROVE FALSE
    OBVIOUS
  <2>2. PICK k \in T : \A l \in T : ~(l < k)
    BY <2>1, LeastOne
  <2>3. k # 0
    BY <1>5, <2>2, FirstIsWord
  <2>4. k - 1 \in 0..n /\ k - 1 \in Nat /\ k - 1 < k /\ k \in 0..n
    BY <1>1, <2>2, <2>3
  <2>5. f[k - 1] \in Word
    BY <2>2, <2>4
  <2> QED BY <1>4, <2>2, <2>3, <2>4, <2>5, NextIsWord
<1> QED BY <1>5, <1>6 DEF f, n

(* The pattern of a burst: words and their complements, in turn.           *)
LEMMA BufferIs ==
    ASSUME NEW m \in 0..3
    PROVE  /\ wBuffer[m] \in Seq(Word) /\ Len(wBuffer[m]) = 2 * (NWords * Runs)
           /\ \A j \in 0..NWords * Runs - 1 :
                 /\ wBuffer[m][2 * j + 1] \in Word
                 /\ wBuffer[m][2 * j + 2] = Bit \ wBuffer[m][2 * j + 1]
           /\ m = 1 => \A r \in 0..Runs - 1 : r < NBits =>
                 /\ NWords * r \in 0..NWords * Runs - 1
                 /\ wBuffer[m][2 * (NWords * r) + 1] = {r}
<1> DEFINE N == NWords * Runs
           last(k) == RunWords(m, ((k - 1) \div 2) \div NWords)[((k - 1) \div 2) % NWords]
           w == wBuffer[m]
<1>1. w = [k \in 1..2 * N |-> IF k % 2 = 1 THEN last(k) ELSE Bit \ last(k)]
  BY Sizes DEF wBuffer
<1>2. N \in Nat \ {0} /\ NWords \in Nat \ {0} /\ Runs \in Nat \ {0}
  BY Sizes
<1>3. ASSUME NEW k \in 1..2 * N
      PROVE  last(k) \in Word
  <2> DEFINE j == (k - 1) \div 2
  <2>1. j \in Nat
    BY <1>2
  <2> HIDE DEF j
  <2>2. j \div NWords \in Nat /\ j % NWords \in 0..NWords - 1
    BY <1>2, <2>1
  <2>3. RunWords(m, j \div NWords)[j % NWords] \in Word
    BY <2>2, RunIs
  <2> QED BY <2>3 DEF j
<1>4. ASSUME NEW j \in 0..N - 1
      PROVE  /\ 2 * j + 1 \in 1..2 * N /\ 2 * j + 2 \in 1..2 * N
             /\ ((2 * j + 1) - 1) \div 2 = j /\ ((2 * j + 2) - 1) \div 2 = j
             /\ (2 * j + 1) % 2 = 1 /\ (2 * j + 2) % 2 = 0
  BY <1>2
<1> HIDE DEF N, w
<1>5. ASSUME NEW j \in 0..N - 1
      PROVE  /\ w[2 * j + 1] = RunWords(m, j \div NWords)[j % NWords]
             /\ w[2 * j + 1] \in Word /\ w[2 * j + 2] = Bit \ w[2 * j + 1]
  <2>1. w[2 * j + 1] = last(2 * j + 1) /\ w[2 * j + 2] = Bit \ last(2 * j + 2)
    <3> DEFINE k == 2 * j + 1
               l == 2 * j + 2
    <3>1. k \in 1..2 * N /\ l \in 1..2 * N /\ k % 2 = 1 /\ l % 2 = 0
      BY <1>4
    <3> HIDE DEF k, l, last
    <3>2. w[k] = last(k) /\ w[l] = Bit \ last(l)
      BY <1>1, <3>1
    <3> QED BY <3>2 DEF k, l
  <2>2. last(2 * j + 1) = RunWords(m, j \div NWords)[j % NWords]
    BY <1>4
  <2>3. last(2 * j + 2) = RunWords(m, j \div NWords)[j % NWords]
    BY <1>4
  <2>4. last(2 * j + 1) \in Word
    BY <1>3, <1>4
  <2> HIDE DEF last
  <2> QED BY <2>1, <2>2, <2>3, <2>4
<1>6. ASSUME m = 1, NEW r \in 0..Runs - 1, r < NBits
      PROVE  NWords * r \in 0..N - 1 /\ w[2 * (NWords * r) + 1] = {r}
  <2>1. NWords * r \in 0..N - 1
    <3>1. NWords * r + NWords = NWords * (r + 1) /\ NWords * r \in Nat
      BY <1>2
    <3>2. NWords * (r + 1) <= NWords * Runs
      BY <1>2
    <3> QED BY <1>2, <3>1, <3>2 DEF N
  <2>2. (NWords * r) \div NWords = r /\ (NWords * r) % NWords = 0
    BY <1>2
  <2>3. r % NBits = r
    BY <1>6, Sizes
  <2>4. RunWords(m, r)[0] = {r}
    BY <1>6, <2>3, RunIs DEF gen_first
  <2> QED BY <1>5, <2>1, <2>2, <2>4
<1>7. w \in Seq(Word) /\ Len(w) = 2 * N
  <2>1. \A k \in 1..2 * N : (IF k % 2 = 1 THEN last(k) ELSE Bit \ last(k)) \in Word
    BY <1>3 DEF Word
  <2>2. 2 * N \in Nat
    BY <1>2
  <2> HIDE DEF last
  <2>3. w \in [1..2 * N -> Word]
    BY <1>1, <2>1
  <2> QED BY <2>2, <2>3
<1> QED BY <1>5, <1>6, <1>7 DEF N, w

-----------------------------------------------------------------------------
(* The loopback: what comes back of a pattern, and what a reading of it    *)
(* sees and leaves.  The FIFO drops the first word or it does not.         *)
Drops(c) == configured[c] /\ Met(c) = "drop"

LEMMA MetIs ==
    ASSUME NEW c \in Card, hw[c].fault \in Fault
    PROVE  /\ Met(c) \in {"none", "zero", "one", "bridge", "drop", "dark"}
           /\ Met(c) = "bridge" => hw[c].fault.kind = "bridge"
BY DEF Met, Fault

LEMMA GarbledIsWord ==
    ASSUME NEW c \in Card, hw[c].fault \in Fault, NEW w \in Word
    PROVE  Garbled(c, w) \in Word
<1>1. hw[c].fault.i \in Bit
  BY DEF Fault
<1>2. Bit \ w \in Word /\ w \ {hw[c].fault.i} \in Word /\ w \cup {hw[c].fault.i} \in Word
      /\ w \ {hw[c].fault.i, hw[c].fault.j} \in Word
  BY <1>1 DEF Word
<1> QED BY <1>2 DEF Garbled

(* What comes back of a pattern.                                           *)
LEMMA LoopedIs ==
    ASSUME NEW c \in Card, hw[c].fault \in Fault, NEW s \in Seq(Word), s # <<>>
    PROVE  /\ Looped(c, s) \in Seq(Word)
           /\ ~configured[c] \/ Met(c) = "dark" => Looped(c, s) = <<>>
           /\ configured[c] /\ Met(c) \notin {"dark", "drop"} =>
                 /\ Len(Looped(c, s)) = Len(s)
                 /\ \A k \in 1..Len(s) : Looped(c, s)[k] = Garbled(c, s[k])
           /\ configured[c] /\ Met(c) = "drop" => Len(Looped(c, s)) = Len(s) - 1
<1> DEFINE t == [k \in DOMAIN s |-> Garbled(c, s[k])]
<1>1. /\ t \in Seq(Word) /\ Len(t) = Len(s) /\ Len(s) \in Nat \ {0}
      /\ \A k \in 1..Len(s) : t[k] = Garbled(c, s[k])
  <2>1. \A k \in 1..Len(s) : Garbled(c, s[k]) \in Word
    BY GarbledIsWord
  <2>2. DOMAIN s = 1..Len(s) /\ Len(s) \in Nat
    OBVIOUS
  <2>3. t \in [1..Len(s) -> Word]
    BY <2>1, <2>2
  <2>4. Len(s) # 0
    BY EmptySeq
  <2> HIDE DEF t
  <2>5. t \in Seq(Word) /\ Len(t) = Len(s)
    BY <2>2, <2>3
  <2> QED BY <2>2, <2>4, <2>5 DEF t
<1>2. CASE ~configured[c] \/ Met(c) = "dark"
  <2>1. Looped(c, s) = <<>>
    BY <1>2 DEF Looped
  <2>2. <<>> \in Seq(Word)
    OBVIOUS
  <2> QED BY <1>2, <2>1, <2>2
<1>3. CASE configured[c] /\ Met(c) # "dark"
  <2>1. Looped(c, s) = IF Met(c) = "drop" THEN Tail(t) ELSE t
    BY <1>3 DEF Looped
  <2> HIDE DEF t
  <2>2. Tail(t) \in Seq(Word) /\ Len(Tail(t)) = Len(t) - 1
    <3>1. t # <<>>
      BY <1>1, EmptySeq
    <3> QED BY <1>1, <3>1, HeadTailProperties
  <2> QED BY <1>1, <1>3, <2>1, <2>2
<1> QED BY <1>2, <1>3

(* What is left of the words that a reading does not take.                 *)
LEMMA LeftIs ==
    ASSUME NEW u \in Seq(Word), NEW n \in Nat
    PROVE  /\ After(u, n) \in Seq(Word)
           /\ Len(u) \in {0, 2 * n} => After(u, n) = <<>>
           /\ Len(u) = 2 * n - 1 => Len(After(u, n)) = 1
<1> DEFINE k == 2 * IF Len(u) \div 2 < n THEN Len(u) \div 2 ELSE n
<1>1. Len(u) \in Nat
  OBVIOUS
<1>2. /\ k \in Nat /\ k <= Len(u)
      /\ Len(u) \in {0, 2 * n} => k = Len(u)
      /\ Len(u) = 2 * n - 1 => k = Len(u) - 1
  BY <1>1
<1>3. After(u, n) = SubSeq(u, k + 1, Len(u))
  BY DEF After
<1> HIDE DEF k
<1>4. /\ SubSeq(u, k + 1, Len(u)) \in Seq(Word)
      /\ Len(SubSeq(u, k + 1, Len(u))) = Len(u) - k
  BY <1>1, <1>2, SubSeqProperties
<1>5. Len(u) \in {0, 2 * n} => SubSeq(u, k + 1, Len(u)) = <<>>
  BY <1>1, <1>2, <1>4, EmptySeq
<1> QED BY <1>1, <1>2, <1>3, <1>4, <1>5

(* What a reading of n dwords sees.                                        *)
LEMMA ReadIs ==
    ASSUME NEW u \in Seq(Word), NEW n \in Nat \ {0}, NEW junk
    PROVE  /\ Len(u) = 2 * n => Words2Read(u, n, junk) = u
           /\ Len(u) = 0 => /\ Words2Read(u, n, junk)[1] = junk
                            /\ Words2Read(u, n, junk)[2] = junk
           /\ Len(u) = 2 * n - 1 => /\ Words2Read(u, n, junk)[2 * n - 1] = junk
                                    /\ Words2Read(u, n, junk)[2 * n] = junk
<1> DEFINE k == 2 * (Len(u) \div 2)
           v == Words2Read(u, n, junk)
<1>1. Len(u) \in Nat /\ 2 * n \in Nat /\ 1 \in 1..2 * n /\ 2 \in 1..2 * n
      /\ 2 * n - 1 \in 1..2 * n /\ 2 * n \in 1..2 * n
  OBVIOUS
<1>2. /\ k \in Nat
      /\ Len(u) = 2 * n => k = 2 * n
      /\ Len(u) = 0 => k = 0
      /\ Len(u) = 2 * n - 1 => k = 2 * n - 2
  BY <1>1
<1>3. v = [l \in 1..2 * n |-> IF l <= k THEN u[l] ELSE junk]
  BY DEF Words2Read
<1> HIDE DEF k, v
<1>4. \A l \in 1..2 * n : v[l] = IF l <= k THEN u[l] ELSE junk
  BY <1>3
<1>5. Len(u) = 2 * n => v = u
  <2> SUFFICES ASSUME Len(u) = 2 * n PROVE v = u
    OBVIOUS
  <2>1. v = [l \in 1..2 * n |-> u[l]]
    BY <1>1, <1>2, <1>3
  <2> QED BY <2>1
<1>6. Len(u) = 0 => v[1] = junk /\ v[2] = junk
  BY <1>1, <1>2, <1>4
<1>7. Len(u) = 2 * n - 1 => v[2 * n - 1] = junk /\ v[2 * n] = junk
  <2> SUFFICES ASSUME Len(u) = 2 * n - 1 PROVE v[2 * n - 1] = junk /\ v[2 * n] = junk
    OBVIOUS
  <2>1. ~(2 * n - 1 <= k) /\ ~(2 * n <= k)
    BY <1>2
  <2> QED BY <1>1, <1>4, <2>1
<1> QED BY <1>5, <1>6, <1>7 DEF v

(* A pattern sent once, and as many words read.                            *)
LEMMA PatternLeaves ==
    ASSUME NEW c \in Card, hw[c].fault \in Fault, configured[c] \in BOOLEAN,
           NEW n \in Nat \ {0}, NEW s \in Seq(Word), Len(s) = 2 * n
    PROVE  /\ After(Looped(c, s), n) \in Seq(Word)
           /\ IF Drops(c) THEN Len(After(Looped(c, s), n)) \in 0..1
              ELSE After(Looped(c, s), n) = <<>>
<1>1. s # <<>>
  BY EmptySeq
<1>2. Looped(c, s) \in Seq(Word) /\ After(Looped(c, s), n) \in Seq(Word)
  BY <1>1, LoopedIs, LeftIs
<1>3. CASE Drops(c)
  <2>1. Len(Looped(c, s)) = 2 * n - 1
    BY <1>1, <1>3, LoopedIs DEF Drops
  <2> QED BY <1>2, <1>3, <2>1, LeftIs
<1>4. CASE ~Drops(c)
  <2>1. Len(Looped(c, s)) \in {0, 2 * n}
    <3>1. CASE ~configured[c] \/ Met(c) = "dark"
      <4>1. Looped(c, s) = <<>>
        BY <1>1, <3>1, LoopedIs
      <4> QED BY <4>1
    <3>2. CASE configured[c] /\ Met(c) # "dark"
      BY <1>1, <1>4, <3>2, LoopedIs DEF Drops
    <3> QED BY <3>1, <3>2
  <2> QED BY <1>2, <1>4, <2>1, LeftIs
<1> QED BY <1>3, <1>4

(* A burst: what is there of the last one, and what comes back.            *)
Sent(c, m) == fifo[c] \o Looped(c, wBuffer[m])
NDwords == NWords * Runs

LEMMA Pattern ==
    ASSUME NEW m \in 0..3
    PROVE  /\ NDwords \in Nat \ {0} /\ wBuffer[m] \in Seq(Word)
           /\ Len(wBuffer[m]) = 2 * NDwords /\ wBuffer[m] # <<>>
           /\ 1 \in 1..2 * NDwords /\ 2 \in 1..2 * NDwords
           /\ wBuffer[m][1] \in Word /\ wBuffer[m][2] = Bit \ wBuffer[m][1]
           /\ wBuffer[m][2 * NDwords] = Bit \ wBuffer[m][2 * NDwords - 1]
           /\ wBuffer[m][2 * NDwords - 1] \in Word
<1>1. NDwords \in Nat \ {0}
  BY Sizes DEF NDwords
<1>2. /\ wBuffer[m] \in Seq(Word) /\ Len(wBuffer[m]) = 2 * NDwords
      /\ \A j \in 0..NDwords - 1 : /\ wBuffer[m][2 * j + 1] \in Word
                                   /\ wBuffer[m][2 * j + 2] = Bit \ wBuffer[m][2 * j + 1]
  BY BufferIs DEF NDwords
<1>3. 0 \in 0..NDwords - 1 /\ NDwords - 1 \in 0..NDwords - 1
  BY <1>1
<1>4. /\ wBuffer[m][2 * 0 + 1] \in Word /\ wBuffer[m][2 * 0 + 2] = Bit \ wBuffer[m][2 * 0 + 1]
      /\ wBuffer[m][2 * (NDwords - 1) + 1] \in Word
      /\ wBuffer[m][2 * (NDwords - 1) + 2] = Bit \ wBuffer[m][2 * (NDwords - 1) + 1]
  BY <1>2, <1>3
<1>5. /\ 2 * 0 + 1 = 1 /\ 2 * 0 + 2 = 2
      /\ 2 * (NDwords - 1) + 1 = 2 * NDwords - 1 /\ 2 * (NDwords - 1) + 2 = 2 * NDwords
  BY <1>1
<1>6. wBuffer[m] # <<>>
  BY <1>1, <1>2, EmptySeq
<1> QED BY <1>1, <1>2, <1>4, <1>5, <1>6

LEMMA NoComplement ==
    ASSUME NEW w \in Word
    PROVE  Bit \ w # w
<1>1. 0 \in Bit
  BY Sizes DEF Bit
<1> QED BY <1>1

LEMMA BurstLeaves ==
    ASSUME NEW c \in Card, hw[c].fault \in Fault, configured[c] \in BOOLEAN,
           fifo[c] \in Seq(Word), NEW m \in 0..3, NEW junk
    PROVE  /\ After(Sent(c, m), NDwords) \in Seq(Word)
           /\ ~Drops(c) /\ fifo[c] = <<>> => After(Sent(c, m), NDwords) = <<>>
           /\ Drops(c) /\ fifo[c] = <<>> =>
                 /\ Len(After(Sent(c, m), NDwords)) = 1
                 /\ Words2Read(Sent(c, m), NDwords, junk) # wBuffer[m]
           /\ Drops(c) /\ Len(fifo[c]) = 1 => After(Sent(c, m), NDwords) = <<>>
<1> DEFINE u == Sent(c, m)
           x == Looped(c, wBuffer[m])
<1>1. /\ x \in Seq(Word)
      /\ Drops(c) => Len(x) = 2 * NDwords - 1
      /\ ~Drops(c) => Len(x) \in {0, 2 * NDwords}
  <2>1. /\ x \in Seq(Word)
        /\ ~configured[c] \/ Met(c) = "dark" => x = <<>>
        /\ configured[c] /\ Met(c) \notin {"dark", "drop"} => Len(x) = 2 * NDwords
        /\ configured[c] /\ Met(c) = "drop" => Len(x) = 2 * NDwords - 1
    BY Pattern, LoopedIs
  <2>2. x = <<>> => Len(x) = 0
    OBVIOUS
  <2> HIDE DEF x
  <2> QED BY <2>1, <2>2 DEF Drops
<1>2. u = fifo[c] \o x
  BY DEF Sent
<1> HIDE DEF u, x
<1>3. u \in Seq(Word) /\ Len(u) = Len(fifo[c]) + Len(x) /\ NDwords \in Nat \ {0}
      /\ Len(x) \in Nat
  BY <1>1, <1>2, ConcatProperties, Pattern
<1>4. fifo[c] = <<>> => Len(u) = Len(x)
  BY <1>3
<1>5. After(u, NDwords) \in Seq(Word)
  BY <1>3, LeftIs
<1>6. ASSUME ~Drops(c), fifo[c] = <<>> PROVE After(u, NDwords) = <<>>
  BY <1>1, <1>3, <1>4, <1>6, LeftIs
<1>7. ASSUME Drops(c), fifo[c] = <<>>
      PROVE  Len(After(u, NDwords)) = 1 /\ Words2Read(u, NDwords, junk) # wBuffer[m]
  <2>1. Len(u) = 2 * NDwords - 1
    BY <1>1, <1>4, <1>7
  <2>2. /\ Words2Read(u, NDwords, junk)[2 * NDwords - 1] = junk
        /\ Words2Read(u, NDwords, junk)[2 * NDwords] = junk
    BY <1>3, <2>1, ReadIs
  <2>3. wBuffer[m][2 * NDwords] # wBuffer[m][2 * NDwords - 1]
    BY Pattern, NoComplement
  <2>4. Len(After(u, NDwords)) = 1
    BY <1>3, <2>1, LeftIs
  <2> QED BY <2>2, <2>3, <2>4
<1>8. ASSUME Drops(c), Len(fifo[c]) = 1 PROVE After(u, NDwords) = <<>>
  <2>1. Len(u) = 2 * NDwords
    BY <1>1, <1>3, <1>8
  <2> QED BY <1>3, <2>1, LeftIs
<1> QED BY <1>5, <1>6, <1>7, <1>8 DEF u

LEMMA BurstRead ==
    ASSUME NEW c \in Card, hw[c].fault \in Fault, configured[c] \in BOOLEAN,
           fifo[c] = <<>>, NEW m \in 0..3, NEW junk
    PROVE  /\ LoopWorks(c) => Words2Read(Sent(c, m), NDwords, junk) = wBuffer[m]
           /\ ~LoopWorks(c) /\ ~Drops(c) /\ m = 1 /\ NBits - 1 <= Runs
              /\ (Met(c) = "bridge" => hw[c].fault.i # hw[c].fault.j) =>
                 Words2Read(Sent(c, m), NDwords, junk) # wBuffer[m]
<1> DEFINE u == Looped(c, wBuffer[m])
           B == wBuffer[m]
           v == Words2Read(u, NDwords, junk)
<1>0. Sent(c, m) = u
  <2>1. u \in Seq(Word)
    BY Pattern, LoopedIs
  <2> HIDE DEF u
  <2>2. <<>> \o u = u
    BY <2>1, EmptySeq, ConcatEmptySeq
  <2> QED BY <2>2 DEF Sent, u
<1>1. /\ u \in Seq(Word)
      /\ ~configured[c] \/ Met(c) = "dark" => u = <<>>
      /\ configured[c] /\ Met(c) \notin {"dark", "drop"} =>
            /\ Len(u) = Len(B)
            /\ \A k \in 1..Len(B) : u[k] = Garbled(c, B[k])
  <2>1. B \in Seq(Word) /\ B # <<>>
    BY Pattern
  <2> HIDE DEF B
  <2> QED BY <2>1, LoopedIs DEF B
<1>2. /\ NDwords \in Nat \ {0} /\ B \in Seq(Word) /\ Len(B) = 2 * NDwords
      /\ 1 \in 1..2 * NDwords /\ 2 \in 1..2 * NDwords
      /\ B[1] \in Word /\ B[2] = Bit \ B[1] /\ B[1] # B[2]
  BY Pattern, NoComplement
<1>3. ASSUME configured[c], Met(c) \notin {"dark", "drop"}
      PROVE  v = u /\ \A k \in 1..2 * NDwords : u[k] = Garbled(c, B[k])
  <2>1. Len(u) = 2 * NDwords
    BY <1>1, <1>2, <1>3
  <2> QED BY <1>1, <1>2, <1>3, <2>1, ReadIs
<1>4. CASE LoopWorks(c)
  <2>1. configured[c] /\ Met(c) = "none" /\ PhaseGood(c)
    BY <1>4 DEF LoopWorks
  <2>2. \A w : Garbled(c, w) = w
    BY <2>1 DEF Garbled
  <2>3. \A k \in 1..2 * NDwords : u[k] = B[k]
    BY <1>3, <2>1, <2>2
  <2>4. Len(u) = Len(B)
    BY <1>1, <2>1
  <2> HIDE DEF u, B
  <2>5. u = B
    BY <1>1, <1>2, <2>3, <2>4, SeqEqual
  <2> QED BY <1>0, <1>3, <1>4, <2>1, <2>5 DEF B
<1>5. CASE ~LoopWorks(c) /\ ~Drops(c) /\ m = 1 /\ NBits - 1 <= Runs
           /\ (Met(c) = "bridge" => hw[c].fault.i # hw[c].fault.j)
  <2> DEFINE f == hw[c].fault
  <2>0. f.i \in Bit /\ f.j \in Bit
        /\ Met(c) \in {"none", "zero", "one", "bridge", "drop", "dark"}
    BY MetIs DEF Fault
  <2> SUFFICES v # B
    BY <1>0, <1>5
  <2>1. CASE ~configured[c] \/ Met(c) = "dark"
    <3>1. Len(u) = 0
      BY <1>1, <2>1
    <3>2. v[1] = junk /\ v[2] = junk
      BY <1>1, <1>2, <3>1, ReadIs
    <3> QED BY <1>2, <3>2
  <2>2. CASE configured[c] /\ Met(c) # "dark"
    <3>1. Met(c) # "drop" /\ v = u /\ \A k \in 1..2 * NDwords : v[k] = Garbled(c, B[k])
      BY <1>3, <1>5, <2>2 DEF Drops
    <3>2. v[1] = Garbled(c, B[1]) /\ v[2] = Garbled(c, B[2])
      BY <1>2, <3>1
    <3>3. CASE ~PhaseGood(c)
      <4>1. v[1] = Bit \ B[1]
        BY <3>2, <3>3 DEF Garbled
      <4> QED BY <1>2, <4>1, NoComplement
    <3>4. CASE PhaseGood(c) /\ Met(c) = "zero"
      <4>1. v[1] = B[1] \ {f.i} /\ v[2] = B[2] \ {f.i}
        BY <3>2, <3>4 DEF Garbled
      <4>2. f.i \in B[1] \/ f.i \in B[2]
        BY <1>2, <2>0
      <4> QED BY <4>1, <4>2
    <3>5. CASE PhaseGood(c) /\ Met(c) = "one"
      <4>1. v[1] = B[1] \cup {f.i} /\ v[2] = B[2] \cup {f.i}
        BY <3>2, <3>5 DEF Garbled
      <4>2. f.i \notin B[1] \/ f.i \notin B[2]
        BY <1>2, <2>0
      <4> QED BY <4>1, <4>2
    <3>6. CASE PhaseGood(c) /\ Met(c) = "bridge"
      <4>1. PICK r \in 0..NBits - 1 : r \in {f.i, f.j} /\ r < NBits - 1
        <5>1. f.i # f.j /\ f.i \in 0..NBits - 1 /\ f.j \in 0..NBits - 1
          BY <1>5, <2>0, <3>6 DEF Bit
        <5> QED BY <5>1, Sizes
      <4>2. r \in 0..Runs - 1 /\ r < NBits
        BY <1>5, <4>1, Sizes
      <4> DEFINE k == 2 * (NWords * r) + 1
      <4>3. NWords * r \in 0..NDwords - 1 /\ B[k] = {r}
        BY <1>5, <4>2, BufferIs DEF NDwords
      <4>4. k \in 1..2 * NDwords
        BY <1>2, <4>3
      <4> HIDE DEF k
      <4>5. ~({f.i, f.j} \subseteq B[k])
        BY <1>5, <3>6, <4>3
      <4>6. v[k] = B[k] \ {f.i, f.j}
        BY <3>1, <3>6, <4>4, <4>5 DEF Garbled
      <4> QED BY <4>1, <4>3, <4>6
    <3>7. Met(c) # "none" \/ ~PhaseGood(c)
      BY <1>5, <2>2 DEF LoopWorks
    <3> QED BY <2>0, <2>2, <3>1, <3>3, <3>4, <3>5, <3>6, <3>7
  <2> QED BY <2>1, <2>2
<1> QED BY <1>4, <1>5

-----------------------------------------------------------------------------
(* The optical test.  While the card is in a loopback the detector cannot  *)
(* reach it, so the FIFO holds what the patterns have left: nothing, or,   *)
(* if the link loses the first word, one word after every other pattern.   *)
Quiet == {"burst", "restore", "reset", "down", "up"}
Prepared == {"config", "clear", "reset", "down", "up"}

Types ==
    /\ server \in {"startup", "serving", "dead"}
    /\ proc \in {"test1", "test2", "phase", "prog", "none"}
    /\ step \in Step
    /\ failed \in BOOLEAN /\ file \in BOOLEAN
    /\ {i, ph, left, right} \subseteq Int
    /\ mode \in 0..4
    /\ step \in Prepared => mode = 0 /\ ~failed
    /\ step = "burst" => mode \in 0..3
    /\ step = "restore" => mode = 4
    /\ fifo \in [Card -> Seq(Word)]

Drained ==
    /\ step \in InTest => config[card] # "normal"
    /\ step \in Quiet => IF Drops(card) THEN Len(fifo[card]) \in 0..1 ELSE fifo[card] = <<>>

(* A loop that works has no errors so far.                                 *)
Passing == step \in {"burst", "restore"} /\ LoopWorks(card) => ~failed

(* One that does not has them when pattern 1 is over; a word lost in every *)
(* pattern is noticed in one of the first two.                             *)
Failing ==
    step \in {"burst", "restore"} /\ ~LoopWorks(card) =>
        /\ mode > 1 => failed
        /\ mode = 1 /\ ~failed /\ Drops(card) => fifo[card] = <<>>

LEMMA CardIs ==
    ASSUME CoreType, NEW c \in Card
    PROVE  /\ hw[c].fault \in Fault /\ configured[c] \in BOOLEAN
           /\ Met(c) = "bridge" => hw[c].fault.i # hw[c].fault.j
<1>1. hw \in Hardware /\ hw \in [Card -> CardType]
  BY CardAssumption DEF CoreType
<1>2. configured \in [Card -> BOOLEAN]
  BY DEF CoreType
<1>3. hw[c] \in CardType
  BY <1>1
<1>4. hw[c].fault \in Fault /\ (hw[c].fault.kind = "bridge" => hw[c].fault.i # hw[c].fault.j)
  BY <1>1, <1>3, CardAssumption DEF CardType
<1> QED BY <1>2, <1>4, MetIs

(* What the scan leaves in the FIFO after each phase.                      *)
LEMMA PhaseLeaves ==
    ASSUME CoreType, fifo \in [Card -> Seq(Word)], NEW phase, TestOptIo(phase)
    PROVE  /\ fifo' \in [Card -> Seq(Word)]
           /\ IF Drops(card) THEN Len(fifo'[card]) \in 0..1 ELSE fifo'[card] = <<>>
<1> DEFINE s == SubSeq(wBuffer[1], 1, 2 * NWords)
<1>1. card \in Card /\ hw[card].fault \in Fault /\ configured[card] \in BOOLEAN
  BY CardIs DEF CoreType
<1>2. s \in Seq(Word) /\ Len(s) = 2 * NWords /\ NWords \in Nat \ {0}
  <2>1. /\ wBuffer[1] \in Seq(Word) /\ Len(wBuffer[1]) = 2 * (NWords * Runs)
    BY BufferIs
  <2>2. 1 \in Nat \ {0} /\ 2 * NWords \in Nat /\ 2 * NWords <= 2 * (NWords * Runs) /\ NWords \in Nat \ {0}
    BY Sizes
  <2> QED BY <2>1, <2>2, SubSeqProperties
<1>3. fifo' = [fifo EXCEPT ![card] = After(Looped(card, s), NWords)]
  BY DEF TestOptIo
<1> HIDE DEF s
<1>4. /\ After(Looped(card, s), NWords) \in Seq(Word)
      /\ IF Drops(card) THEN Len(After(Looped(card, s), NWords)) \in 0..1
         ELSE After(Looped(card, s), NWords) = <<>>
  BY <1>1, <1>2, PatternLeaves
<1> QED BY <1>1, <1>3, <1>4

(* What one pattern does.                                                  *)
LEMMA BurstDoes ==
    ASSUME CoreType, Types, Drained, Burst
    PROVE  /\ fifo' \in [Card -> Seq(Word)] /\ mode \in 0..3 /\ mode' = mode + 1
           /\ step' = (IF mode < 3 THEN "burst" ELSE "restore") /\ failed' \in BOOLEAN
           /\ failed => failed'
           /\ IF Drops(card) THEN Len(fifo'[card]) \in 0..1 ELSE fifo'[card] = <<>>
           /\ LoopWorks(card) /\ ~failed => ~failed'
           /\ Drops(card) /\ fifo[card] = <<>> => failed'
           /\ Drops(card) /\ fifo[card] # <<>> => fifo'[card] = <<>>
           /\ ~LoopWorks(card) /\ ~Drops(card) /\ mode = 1 /\ NBits - 1 <= Runs => failed'
<1>1. PICK junk \in {{}, Bit} :
        /\ failed' = (failed \/ Words2Read(Sent(card, mode), NDwords, junk) # wBuffer[mode])
        /\ fifo' = [fifo EXCEPT ![card] = After(Sent(card, mode), NDwords)]
  BY DEF Burst, Sent, NDwords
<1>2. /\ mode \in 0..3 /\ mode' = mode + 1
      /\ step' = (IF mode < 3 THEN "burst" ELSE "restore")
  BY DEF Burst, At, Types
<1>3. /\ card \in Card /\ hw[card].fault \in Fault /\ configured[card] \in BOOLEAN
      /\ Met(card) = "bridge" => hw[card].fault.i # hw[card].fault.j
      /\ fifo \in [Card -> Seq(Word)] /\ fifo[card] \in Seq(Word)
  BY CardIs DEF CoreType, Types
<1>4. IF Drops(card) THEN Len(fifo[card]) \in 0..1 ELSE fifo[card] = <<>>
  BY DEF Burst, At, Drained, Quiet
<1>5. fifo'[card] = After(Sent(card, mode), NDwords) /\ fifo'[card] \in Seq(Word)
      /\ fifo' \in [Card -> Seq(Word)]
  <2>1. After(Sent(card, mode), NDwords) \in Seq(Word)
    BY <1>2, <1>3, BurstLeaves
  <2> QED BY <1>1, <1>3, <2>1
<1>6. failed' \in BOOLEAN /\ (failed => failed')
  BY <1>1, Zenon DEF Types
<1>7. CASE ~Drops(card)
  <2>1. fifo[card] = <<>>
    BY <1>4, <1>7
  <2>2. fifo'[card] = <<>>
    BY <1>2, <1>3, <1>5, <1>7, <2>1, BurstLeaves
  <2>3. /\ LoopWorks(card) => Words2Read(Sent(card, mode), NDwords, junk) = wBuffer[mode]
        /\ ~LoopWorks(card) /\ mode = 1 /\ NBits - 1 <= Runs =>
              Words2Read(Sent(card, mode), NDwords, junk) # wBuffer[mode]
    BY <1>2, <1>3, <1>7, <2>1, BurstRead
  <2> QED BY <1>1, <1>2, <1>5, <1>6, <1>7, <2>2, <2>3
<1>8. CASE Drops(card)
  <2>1. ~LoopWorks(card)
    BY <1>8 DEF Drops, LoopWorks
  <2>2. CASE fifo[card] = <<>>
    <3>1. /\ Len(fifo'[card]) = 1
          /\ Words2Read(Sent(card, mode), NDwords, junk) # wBuffer[mode]
      BY <1>2, <1>3, <1>5, <1>8, <2>2, BurstLeaves
    <3>2. failed'
      BY <1>1, <3>1, Zenon
    <3>3. Len(fifo'[card]) \in 0..1
      BY <3>1
    <3> QED BY <1>2, <1>5, <1>6, <1>8, <2>1, <2>2, <3>2, <3>3
  <2>3. CASE fifo[card] # <<>>
    <3>1. Len(fifo[card]) = 1
      BY <1>3, <1>4, <1>8, <2>3, EmptySeq
    <3>2. fifo'[card] = <<>>
      BY <1>2, <1>3, <1>5, <1>8, <3>1, BurstLeaves
    <3>3. Len(fifo'[card]) \in 0..1
      BY <3>2
    <3> QED BY <1>2, <1>5, <1>6, <1>8, <2>1, <2>3, <3>2, <3>3
  <2> QED BY <2>2, <2>3
<1> QED BY <1>7, <1>8

LEMMA TypesInit == Init => Types
<1> SUFFICES ASSUME Init PROVE Types
  OBVIOUS
<1>1. <<>> \in Seq(Word)
  OBVIOUS
<1>2. fifo \in [Card -> Seq(Word)]
  BY <1>1 DEF Init
<1>3. failed \in BOOLEAN /\ ~failed /\ file \in BOOLEAN
  BY DEF Init
<1> QED BY <1>2, <1>3 DEF Init, Types, Step, Prepared

LEMMA ReturnTypes ==
    ASSUME Types, Return
    PROVE  /\ server' \in {"startup", "serving", "dead"}
           /\ proc' \in {"test1", "test2", "phase", "prog", "none"}
           /\ step' \in {"config", "open", "none"}
           /\ step' = "config" => mode' = 0 /\ ~failed'
           /\ failed' \in BOOLEAN /\ mode' \in 0..4
<1>1. CASE UNCHANGED <<mode, failed>> /\ proc' = "none" /\ step' = "none"
  BY <1>1 DEF Types, Return, Startup, Enter
<1>2. CASE \E p \in {"test1", "phase", "prog"}, c \in {1, card} : Enter(p, c)
  <2>1. /\ proc' \in {"test1", "phase", "prog"} /\ step' \in {"config", "open"}
        /\ mode' = 0 /\ failed' = FALSE
    BY <1>2 DEF Enter
  <2>2. server' \in {server, "serving"}
    BY DEF Return, Startup
  <2>3. failed' \in BOOLEAN /\ ~failed'
    BY <2>1
  <2> QED BY <2>1, <2>2, <2>3 DEF Types
<1> QED BY <1>1, <1>2 DEF Return, Startup

LEMMA TypesStep == CoreType /\ ConfigInv /\ Types /\ Drained /\ [Next]_vars => Types'
<1> SUFFICES ASSUME CoreType, ConfigInv, Types, Drained, [Next]_vars PROVE Types'
  OBVIOUS
<1> USE DEF Prepared
<1>0. card \in Card /\ MaxDelay \in Nat
  BY CardAssumption DEF CoreType
<1>1. ASSUME UNCHANGED <<server, proc, step, file, mode, failed>>,
             fifo' \in [Card -> Seq(Word)], {i', ph', left', right'} \subseteq Int
      PROVE  Types'
  BY <1>1 DEF Types
<1>2. ASSUME UNCHANGED <<server, proc, file, mode, failed>>, fifo' \in [Card -> Seq(Word)],
             {i', ph', left', right'} \subseteq Int, step' \in Step \ {"burst", "restore"},
             step' \in Prepared => step \in Prepared
      PROVE  Types'
  BY <1>2 DEF Types
<1>3. CASE TestConfig
  BY <1>3, <1>2 DEF TestConfig, At, Types, Step, scanvars, fixed
<1>4. CASE TestClear
  <2>1. /\ mode = 0 /\ ~failed /\ step' \in {"reset", "burst"}
        /\ UNCHANGED <<server, proc, file, mode, failed, i, ph, left, right>>
    BY <1>4 DEF TestClear, At, Types, scanvars, fixed
  <2>2. fifo' \in [Card -> Seq(Word)]
    <3>1. <<>> \in Seq(Word)
      OBVIOUS
    <3> QED BY <1>4, <3>1 DEF TestClear, Types
  <2> QED BY <2>1, <2>2 DEF Types, Step
<1>5. CASE Burst
  <2>1. /\ fifo' \in [Card -> Seq(Word)] /\ mode \in 0..3 /\ mode' = mode + 1
        /\ step' = (IF mode < 3 THEN "burst" ELSE "restore") /\ failed' \in BOOLEAN
    BY <1>5, BurstDoes
  <2>2. UNCHANGED <<server, proc, file, i, ph, left, right>>
    BY <1>5 DEF Burst, scanvars, fixed
  <2>3. CASE mode < 3
    <3>1. step' = "burst" /\ mode' \in 0..3
      BY <2>1, <2>3
    <3> QED BY <2>1, <2>2, <3>1 DEF Types, Step
  <2>4. CASE mode = 3
    <3>1. step' = "restore" /\ mode' = 4
      BY <2>1, <2>4
    <3> QED BY <2>1, <2>2, <3>1 DEF Types, Step
  <2> QED BY <2>1, <2>3, <2>4
<1>6. CASE TestRestore \/ EndProg
  <2>1. Return /\ UNCHANGED <<file, fifo, i, ph, left, right>>
    BY <1>6 DEF TestRestore, EndProg, scanvars, fixed, cardvars
  <2> QED BY <2>1, ReturnTypes DEF Types, Step
<1>7. CASE ScanReset
  BY <1>0, <1>7, <1>2 DEF ScanReset, At, Types, Step, fixed, minp, maxp
<1>8. CASE ScanDown
  BY <1>8, <1>1 DEF ScanDown, At, Types, fixed
<1>9. CASE ScanLeft
  <2>1. fifo' \in [Card -> Seq(Word)]
    BY <1>9, PhaseLeaves DEF ScanLeft, Types
  <2> QED BY <1>9, <1>2, <2>1 DEF ScanLeft, At, Types, Step, fixed
<1>10. CASE ScanUp \/ ScanRight
  <2>1. TestOptIo(ph')
    BY <1>10 DEF ScanUp, ScanRight
  <2>2. fifo' \in [Card -> Seq(Word)]
    BY <2>1, PhaseLeaves DEF Types
  <2> QED BY <1>0, <1>10, <1>1, <2>2 DEF ScanUp, ScanRight, Types, Step, fixed, maxp
<1>11. CASE ScanFile
  <2>1. mode = 0
    BY <1>11 DEF ScanFile, At, Types
  <2> QED BY <1>11, <2>1 DEF ScanFile, Types, Step, scanvars, fixed, cardvars
<1>12. CASE NoFile \/ ScanNoFile
  BY <1>12 DEF NoFile, ScanNoFile, Die, Types, Step, scanvars, fixed, cardvars
<1>13. CASE StartProg
  BY <1>13, <1>2 DEF StartProg, Types, Step, fixed
<1>14. CASE PollInit \/ WriteBytes \/ PollDone
  <2>1. /\ UNCHANGED <<server, proc, file, mode, failed, fifo, ph, left, right>>
        /\ i' \in Int /\ step' \in {step, "bytes", "done"}
    BY <1>14 DEF PollInit, WriteBytes, PollDone, Types, fixed, cardvars
  <2> QED BY <2>1 DEF Types, Step
<1>15. ASSUME NEW c \in Card, Command(c)
       PROVE  Types'
  <2>1. PICK p \in {"test1", "test2", "phase", "prog"} : Enter(p, c)
    BY <1>15 DEF Command
  <2>2. UNCHANGED <<server, file, fifo, i, ph, left, right>>
    BY <1>15 DEF Command, scanvars, fixed, cardvars
  <2>3. proc' = p /\ step' \in {"config", "open"} /\ mode' = 0 /\ failed' = FALSE
    BY <2>1 DEF Enter
  <2>4. failed' \in BOOLEAN /\ ~failed'
    BY <2>3
  <2> QED BY <2>2, <2>3, <2>4 DEF Types, Step
<1>16. ASSUME NEW c \in Card, ResetCard(c) \/ Dump(c) \/ Arrive(c)
       PROVE  Types'
  <2>1. fifo[c] \in Seq(Word)
    BY DEF Types
  <2>2. <<>> \in Seq(Word)
    OBVIOUS
  <2>3. After(fifo[c], Len(fifo[c])) \in Seq(Word)
    <3>1. Len(fifo[c]) \in Nat
      BY <2>1
    <3> QED BY <2>1, <3>1, LeftIs
  <2>4. fifo[c] \o <<{}, {}>> \in Seq(Word)
    <3>1. {} \in Word
      BY DEF Word
    <3>2. <<{}, {}>> \in Seq(Word)
      BY <3>1
    <3> QED BY <2>1, <3>2, ConcatProperties
  <2>5. fifo' \in [Card -> Seq(Word)]
    BY <1>16, <2>2, <2>3, <2>4 DEF ResetCard, Dump, Arrive, Types
  <2> QED BY <1>16, <1>1, <2>5 DEF ResetCard, Dump, Arrive, Types, scanvars, fixed
<1>17. CASE Restart
  <2>1. /\ server' = "startup" /\ proc' = "test1" /\ step' = "config"
        /\ mode' = 0 /\ failed' = FALSE /\ file' \in BOOLEAN
        /\ UNCHANGED <<i, ph, left, right, fifo>>
    BY <1>17 DEF Restart, Enter, scanvars, cardvars
  <2>2. failed' \in BOOLEAN /\ ~failed'
    BY <2>1
  <2> QED BY <2>1, <2>2 DEF Types, Step
<1>18. CASE UNCHANGED vars
  BY <1>18, <1>1 DEF vars, scanvars, fixed, cardvars, Types
<1> QED BY <1>3, <1>4, <1>5, <1>6, <1>7, <1>8, <1>9, <1>10, <1>11, <1>12, <1>13, <1>14,
           <1>15, <1>16, <1>17, <1>18 DEF Next, Procedure, Scan, Program

(* The detector cannot reach a card under test.                            *)
LEMMA Undisturbed ==
    ASSUME ConfigInv, Drained, NEW c \in Card, ResetCard(c) \/ Dump(c) \/ Arrive(c),
           fifo \in [Card -> Seq(Word)]
    PROVE  /\ UNCHANGED <<card, step, mode, failed, hw, configured, config, dcm>>
           /\ step \in InTest => fifo'[card] = fifo[card]
<1>1. UNCHANGED <<card, step, mode, failed, hw, configured, config, dcm>>
  BY DEF ResetCard, Dump, Arrive, fixed
<1>2. ASSUME step \in InTest
      PROVE  fifo'[card] = fifo[card]
  <2>1. Arrive(c) /\ config[c] = "normal"
    BY <1>2 DEF ConfigInv, ResetCard, Dump, Arrive, Idle
  <2>2. c # card
    BY <1>2, <2>1 DEF Drained
  <2> QED BY <2>1, <2>2 DEF Arrive, ConfigInv
<1> QED BY <1>1, <1>2

LEMMA QuietInTest == Quiet \subseteq InTest /\ {"burst", "restore"} \subseteq Quiet
BY DEF Quiet, InTest

LEMMA DrainedInit == Init => Drained
BY DEF Init, Drained, Quiet, InTest

LEMMA DrainedStep == CoreType /\ ConfigInv /\ Types /\ Drained /\ [Next]_vars => Drained'
<1> SUFFICES ASSUME CoreType, ConfigInv, Types, Drained, [Next]_vars PROVE Drained'
  OBVIOUS
<1>0. card \in Card /\ fifo \in [Card -> Seq(Word)]
  BY DEF CoreType, Types
<1>1. ASSUME step' \notin InTest PROVE Drained'
  BY <1>1, QuietInTest DEF Drained
<1>2. ASSUME UNCHANGED <<card, configured, config, hw>>, step \in InTest,
             IF Drops(card) THEN Len(fifo'[card]) \in 0..1 ELSE fifo'[card] = <<>>
      PROVE  Drained'
  BY <1>2 DEF Drained, Drops, Met
<1>3. ASSUME UNCHANGED <<card, configured, config, hw>>, fifo'[card] = fifo[card],
             step' \in Quiet => step \in Quiet, step' \in InTest => step \in InTest
      PROVE  Drained'
  BY <1>3 DEF Drained, Drops, Met
<1>4. CASE TestConfig
  <2>1. PICK v \in {"loop1", "loop2"} : SetConfig(card, v)
    BY <1>4 DEF TestConfig
  <2>2. config'[card] # "normal" /\ card' = card /\ step' = "clear"
    <3>1. config'[card] = IF configured[card] THEN v ELSE "none"
      BY <2>1, Written
    <3> QED BY <1>4, <3>1 DEF TestConfig
  <2> QED BY <2>2 DEF Drained, Quiet
<1>5. CASE TestClear
  <2>1. UNCHANGED <<card, configured, config, hw>> /\ step \in InTest /\ fifo'[card] = <<>>
    BY <1>0, <1>5 DEF TestClear, At, InTest, fixed
  <2>2. Len(fifo'[card]) \in 0..1
    BY <2>1
  <2> QED BY <1>2, <2>1, <2>2
<1>6. CASE Burst
  <2>1. UNCHANGED <<card, configured, config, hw>> /\ step \in InTest
    BY <1>6 DEF Burst, At, InTest, fixed
  <2> QED BY <1>2, <1>6, <2>1, BurstDoes
<1>7. CASE TestRestore \/ EndProg
  <2>1. step' \in {"config", "open", "none"}
    BY <1>7, ReturnTypes DEF TestRestore, EndProg
  <2> QED BY <1>1, <2>1 DEF InTest
<1>8. CASE ScanReset \/ ScanDown \/ ScanFile
  <2>1. UNCHANGED <<card, configured, config, hw, fifo>> /\ step \in Quiet
    BY <1>8 DEF ScanReset, ScanDown, ScanFile, At, Quiet, fixed, cardvars
  <2> QED BY <1>3, <2>1, QuietInTest
<1>9. CASE ScanLeft \/ ScanUp \/ ScanRight
  <2>1. TestOptIo(ph') /\ UNCHANGED <<card, configured, config, hw>> /\ step \in InTest
    BY <1>9 DEF ScanLeft, ScanUp, ScanRight, At, InTest, fixed
  <2> QED BY <1>0, <1>2, <2>1, PhaseLeaves
<1>10. CASE NoFile \/ ScanNoFile \/ Restart \/ StartProg \/ PollInit \/ WriteBytes \/ PollDone
  <2>1. step' \notin InTest
    BY <1>10 DEF NoFile, ScanNoFile, Die, Restart, Enter, StartProg, PollInit, WriteBytes, PollDone, At, InTest
  <2> QED BY <1>1, <2>1
<1>11. ASSUME NEW c \in Card, Command(c)
       PROVE  Drained'
  <2>1. step' \in {"open", "config"}
    BY <1>11 DEF Command, Enter
  <2> QED BY <1>1, <2>1 DEF InTest
<1>12. ASSUME NEW c \in Card, ResetCard(c) \/ Dump(c) \/ Arrive(c)
       PROVE  Drained'
  <2>1. /\ UNCHANGED <<card, step, mode, failed, hw, configured, config, dcm>>
        /\ step \in InTest => fifo'[card] = fifo[card]
    BY <1>0, <1>12, Undisturbed
  <2> QED BY <1>1, <1>3, <2>1
<1>13. CASE UNCHANGED vars
  BY <1>13, <1>3 DEF vars, fixed, cardvars
<1> QED BY <1>4, <1>5, <1>6, <1>7, <1>8, <1>9, <1>10, <1>11, <1>12, <1>13
         DEF Next, Procedure, Scan, Program

(* A step leads into a burst, is one, or has nothing to do with it.        *)
LEMMA ToABurst ==
    ASSUME CoreType, ConfigInv, Types, Drained, [Next]_vars, step' \in {"burst", "restore"}
    PROVE  /\ UNCHANGED <<card, hw, dcm, configured, config>>
           /\ \/ Burst
              \/ mode' = 0 /\ ~failed'
              \/ step' = step /\ mode' = mode /\ failed' = failed /\ fifo'[card] = fifo[card]
<1>1. ~(TestRestore \/ EndProg)
  BY ReturnTypes DEF TestRestore, EndProg
<1>2. CASE TestClear \/ ScanFile
  <2>1. mode = 0 /\ ~failed
    BY <1>2 DEF TestClear, ScanFile, At, Types, Prepared
  <2> QED BY <1>2, <2>1 DEF TestClear, ScanFile, cardvars, fixed
<1>3. CASE Burst
  BY <1>3 DEF Burst, fixed
<1>4. ~(TestConfig \/ ScanReset \/ ScanDown \/ ScanLeft \/ ScanUp \/ ScanRight \/ ScanNoFile \/ Program
        \/ Restart \/ \E c \in Card : Command(c))
  BY <1>1 DEF TestConfig, ScanReset, ScanDown, ScanLeft, ScanUp, ScanRight, ScanNoFile, Die, Program, Restart, Command, Enter,
          NoFile, StartProg, PollInit, WriteBytes, PollDone, At
<1>5. CASE \E c \in Card : ResetCard(c) \/ Dump(c) \/ Arrive(c)
  <2>1. PICK c \in Card : ResetCard(c) \/ Dump(c) \/ Arrive(c)
    BY <1>5
  <2>2. fifo \in [Card -> Seq(Word)]
    BY DEF Types
  <2>3. /\ UNCHANGED <<card, step, mode, failed, hw, configured, config, dcm>>
        /\ step \in InTest => fifo'[card] = fifo[card]
    BY <2>1, <2>2, Undisturbed
  <2> QED BY <2>3, QuietInTest
<1>6. CASE UNCHANGED vars
  BY <1>6 DEF vars, fixed, cardvars
<1> QED BY <1>1, <1>2, <1>3, <1>4, <1>5, <1>6 DEF Next, Procedure, Scan

LEMMA PassingInit == Init => Passing
BY DEF Init, Passing

LEMMA PassingStep == CoreType /\ ConfigInv /\ Types /\ Drained /\ Passing /\ [Next]_vars => Passing'
<1> SUFFICES ASSUME CoreType, ConfigInv, Types, Drained, Passing, [Next]_vars,
                    step' \in {"burst", "restore"}, LoopWorks(card)'
             PROVE  ~failed'
  BY DEF Passing
<1>1. UNCHANGED <<card, hw, dcm, configured, config>>
  BY ToABurst
<1>2. LoopWorks(card)
  BY <1>1 DEF LoopWorks, Met, PhaseGood
<1>3. CASE Burst
  <2>1. ~failed
    BY <1>2, <1>3 DEF Burst, At, Passing
  <2> QED BY <1>2, <1>3, <2>1, BurstDoes
<1>4. CASE step' = step /\ failed' = failed
  BY <1>2, <1>4 DEF Passing
<1> QED BY <1>3, <1>4, ToABurst

LEMMA FailingInit == Init => Failing
BY DEF Init, Failing

LEMMA FailingStep ==
    ASSUME NBits - 1 <= Runs
    PROVE  CoreType /\ ConfigInv /\ Types /\ Drained /\ Failing /\ [Next]_vars => Failing'
<1> SUFFICES ASSUME CoreType, ConfigInv, Types, Drained, Failing, [Next]_vars,
                    step' \in {"burst", "restore"}, ~LoopWorks(card)'
             PROVE  /\ mode' > 1 => failed'
                    /\ mode' = 1 /\ ~failed' /\ Drops(card)' => fifo'[card'] = <<>>
  BY DEF Failing
<1>1. UNCHANGED <<card, hw, dcm, configured, config>>
  BY ToABurst
<1>2. ~LoopWorks(card) /\ (Drops(card)' <=> Drops(card)) /\ mode \in Int
  BY <1>1 DEF LoopWorks, Met, PhaseGood, Drops, Types
<1>3. CASE Burst
  <2>1. /\ mode > 1 => failed
        /\ mode = 1 /\ ~failed /\ Drops(card) => fifo[card] = <<>>
    BY <1>2, <1>3 DEF Burst, At, Failing
  <2>2. CASE mode = 0
    <3>1. mode' = 1
      BY <1>3, <2>2, BurstDoes
    <3>2. Drops(card) /\ ~failed' => fifo'[card] = <<>>
      BY <1>3, BurstDoes
    <3> QED BY <1>1, <1>2, <3>1, <3>2
  <2>3. CASE mode = 1
    <3>1. failed'
      BY <1>2, <1>3, <2>1, <2>3, BurstDoes
    <3> QED BY <3>1
  <2>4. CASE mode > 1
    <3>1. failed'
      BY <1>3, <2>1, <2>4, BurstDoes
    <3> QED BY <3>1
  <2>5. mode \in 0..3
    BY <1>3, BurstDoes
  <2> QED BY <2>2, <2>3, <2>4, <2>5
<1>4. CASE mode' = 0
  BY <1>4
<1>5. CASE step' = step /\ mode' = mode /\ failed' = failed /\ fifo'[card] = fifo[card]
  <2>1. /\ mode > 1 => failed
        /\ mode = 1 /\ ~failed /\ Drops(card) => fifo[card] = <<>>
    BY <1>2, <1>5 DEF Failing
  <2> QED BY <1>1, <1>2, <1>5, <2>1
<1> QED BY <1>3, <1>4, <1>5, ToABurst

TestInv == ScanInv /\ ConfigInv /\ Types /\ Drained /\ Passing

LEMMA TestInvariant == Spec => []TestInv
<1>1. Init => TestInv
  BY ScanInit, ConfigInit, TypesInit, DrainedInit, PassingInit DEF TestInv
<1>2. TestInv /\ [Next]_vars => TestInv'
  BY ScanStep, ConfigStep, TypesStep, DrainedStep, PassingStep DEF TestInv, ScanInv
<1> QED BY <1>1, <1>2, PTL DEF Spec

(* Every variable has its type, the words of the FIFOs among them.         *)
THEOREM TypeCorrect == Spec => []TypeOK
<1>1. TestInv => TypeOK
  <2> SUFFICES ASSUME TestInv PROVE TypeOK
    OBVIOUS
  <2>1. CoreType /\ Types /\ rows \subseteq -MaxDelay..maxp /\ MaxDelay \in Nat
    BY CardAssumption DEF TestInv, ScanInv
  <2>2. hw \in [Card -> CardType] /\ rows \subseteq Int
    BY <2>1, CardAssumption DEF CoreType, maxp
  <2> QED BY <2>1, <2>2 DEF Types, CoreType, TypeOK
<1> QED BY <1>1, TestInvariant, PTL

(* A test of a loop that works counts no error and leaves the FIFO empty,  *)
(* for all patterns at every size, whatever the detector has sent before   *)
(* or sends to the other card, and whatever is broken behind the loop      *)
(* (opticalTest, RX_phase).                                                *)
THEOREM SoundCardsPass == Spec => []SoundCardPasses
<1>1. TestInv => SoundCardPasses
  BY DEF TestInv, Passing, Drained, Quiet, Drops, LoopWorks, SoundCardPasses, At
<1> QED BY <1>1, TestInvariant, PTL

(* A test without errors means that the loop it closes works, in test1 and *)
(* in the scan that in the FPGA and in test2 that through the TLK, if the  *)
(* runs reach every bit but one: a bridge between two bits shows at the    *)
(* one that is sent alone.  The 15 runs of the test just suffice for 16    *)
(* bits (opticalTest, test_opt_io_burst).                                  *)
THEOREM FaultsAreFound ==
    ASSUME NBits - 1 <= Runs
    PROVE  Spec => []FaultFound
<1>1. TestInv /\ Failing => FaultFound
  BY DEF TestInv, Types, Failing, FaultFound, At
<1>2. TestInv /\ Failing /\ [Next]_vars => Failing'
  BY FailingStep DEF TestInv, ScanInv
<1> QED BY <1>1, <1>2, FailingInit, TestInvariant, PTL DEF Spec
=============================================================================
