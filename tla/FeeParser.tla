----------------------------- MODULE FeeParser -----------------------------
(***************************************************************************)
(* TrdFeeParser (trdfeeparser.py): reads the dwords of an optical link     *)
(* against a list of expectations.  Each expectation is a list of parser   *)
(* functions to be tried in turn; the first that accepts the dword is done *)
(* with it and may append new expectations at the END of the list.         *)
(*                                                                         *)
(* A dword is what the parser functions tell apart: its kind and the       *)
(* fields they use.  tracklet_format is "run3", the default.               *)
(***************************************************************************)
EXTENDS Integers, Sequences

CONSTANTS NChannels   \* channels of an MCM: 21

ASSUME ChannelAssumption == NChannels \in Nat

NoHC == -1            \* the hc field of a dword that is no HC0

(* n: pids in use (tmcm), extra headers (hc0), time bins (hc1), channels   *)
(* in the mask (msk).  "adcl" is the last dword of a channel, "bad" one    *)
(* that only the functions that take anything accept.                      *)
Kind == {"thc", "tmcm", "trk", "eot", "hc0", "hc1", "hc2", "hc3",
         "mcm", "msk", "adc", "adcl", "eod", "pad", "bad"}
Word == [k : Kind, n : Nat, hc : Int, zs : BOOLEAN]

(* The parser functions, named by what they parse.  "digit" is             *)
(* parse_adcdata for the last dword of a channel, which calls store_digits.*)
Fct == {"thc", "tmcm", "trk", "eot", "hc0", "hc1", "hc2", "hc3", "mcmhdr",
        "adcmask", "adc", "digit", "eod", "pad", "find", "skip"}

VARIABLES
    bound,     \* readlist has been bound to the list readlist_start names
    readlist,  \* what is in that list
    ctx,       \* ParsingContext: class attributes, unset until HC0 and HC1
    crashed,   \* a TypeError has left the parser
    nomatch,   \* history: "NO MATCH" has been logged
    last       \* history: the last dword and the function that took it

feevars == <<bound, readlist, ctx, crashed, nomatch, last>>

(* The dwords whose bits pass the decode pattern or the assertion of a     *)
(* parser function: 0x10001000 (eot) has the bit of a tracklet header, any *)
(* header with low bits 01 can pass for HC0 or HC1, even dwords for        *)
(* tracklets.                                                              *)
Accepts(f, w) ==
    CASE f = "thc"              -> w.k \in {"thc", "eot"}
      [] f = "trk"              -> w.k \in {"trk", "eot", "eod", "pad", "mcm", "msk"}
      [] f \in {"hc0", "hc1"}   -> w.k \in {"hc0", "hc1", "hc2", "hc3"}
      [] f = "mcmhdr"           -> w.k = "mcm"
      [] f = "adcmask"          -> w.k = "msk"
      [] f = "skip"             -> w.k # "eod"
      [] f \in {"adc", "digit", "find"} -> TRUE
      [] OTHER                  -> w.k = f

(* for fct in expected: the first that does not raise AssertionError;      *)
(* find_eod_mcmhdr hands eod and MCM headers to their own functions.       *)
Found(w) == IF w.k = "eod" THEN "eod" ELSE IF w.k = "mcm" THEN "mcmhdr" ELSE "find"

Matching(expected, w) == {i \in DOMAIN expected : Accepts(expected[i], w)}

Chosen(expected, w) ==
    LET i == CHOOSE i \in Matching(expected, w) :
                 \A j \in Matching(expected, w) : i <= j
    IN  IF expected[i] = "find" THEN Found(w) ELSE expected[i]

-----------------------------------------------------------------------------
(* The expectations.                                                       *)
\* slip: HC1 is tried first, although its pattern also fits HC2 and HC3
ExtraHeaderHC1First == <<"hc1", "hc2", "hc3">>

ExtraHeader == <<"hc3", "hc2", "hc1">>
AfterTracklet == <<"tmcm", "eot">>
AfterEot == <<"eot", "pad", "hc0">>
AfterAdc == <<"mcmhdr", "eod">>
AfterEod == <<"eod", "pad">>

(* dwords of a channel: three time bins each, range(0, ntb, 3)             *)
Dwords(ntb) == (ntb + 2) \div 3

(* parse_adcdata for each dword of n channels, then what may follow.       *)
\* slip: nothing is expected after the last channel
AdcDataOnly(n, ntb) ==
    [i \in 1..n * Dwords(ntb) |->
        IF i % Dwords(ntb) = 0 THEN <<"digit">> ELSE <<"adc">>]

AdcData(n, ntb) ==
    [i \in 1..n * Dwords(ntb) |->
        IF i % Dwords(ntb) = 0 THEN <<"digit">> ELSE <<"adc">>]
    \o <<AfterAdc>>

(* HC0 with all version fields 0 is taken for zero suppression, 2 headers  *)
OldHC0(w) == w.n = 0 /\ ~w.zs
NHeaders(w) == IF OldHC0(w) THEN 2 ELSE w.n

\* slip: the MCM header is expected before the extra headers
HeadersMcmFirst(w) == <<<<"mcmhdr">>>> \o [i \in 1..NHeaders(w) |-> ExtraHeader]

Headers(w) == [i \in 1..NHeaders(w) |-> ExtraHeader] \o <<<<"mcmhdr">>>>

(* The functions that expect one thing only, and what a function expects   *)
(* next, under the context it left; those of single dwords nothing.        *)
Leads == [thc |-> AfterTracklet, eot |-> AfterEot, eod |-> AfterEod,
          pad |-> <<"pad">>, find |-> <<"find">>, skip |-> <<"eod", "skip">>]

Follow(f, w, c) ==
    IF f \in DOMAIN Leads THEN <<Leads[f]>>
    ELSE IF f = "tmcm" THEN [i \in 1..w.n |-> <<"trk">>] \o <<AfterTracklet>>
    ELSE IF f = "hc0" THEN Headers(w)
    ELSE IF f = "mcmhdr" /\ c.zs THEN <<<<"adcmask">>>>
    ELSE IF f = "mcmhdr" THEN AdcData(NChannels, c.ntb)
    ELSE IF f = "adcmask" THEN AdcData(w.n, c.ntb)
    ELSE <<>>

(* The context a function leaves.                                          *)
Context(f, w) ==
    IF f = "hc0" THEN [ctx EXCEPT !.hc = w.hc, !.zs = w.zs \/ OldHC0(w),
                                  !.set = @ \cup {"hc0"}]
    ELSE IF f = "hc1" THEN [ctx EXCEPT !.ntb = w.n, !.set = @ \cup {"hc1"}]
    ELSE ctx

(* ctx.major, ctx.ntb are descriptors of the class until they are set:     *)
(* using them raises TypeError, which nobody catches.                      *)
TypeError(f) ==
    \/ f = "mcmhdr" /\ "hc0" \notin ctx.set
    \/ f = "mcmhdr" /\ ~ctx.zs /\ "hc1" \notin ctx.set
    \/ f = "adcmask" /\ "hc1" \notin ctx.set

-----------------------------------------------------------------------------
(* Environment: what the detector writes on a link, from the start of the  *)
(* link on: which kinds of dword may stand where.                          *)
Stands(d, k, kinds) == k \in DOMAIN d => d[k].k \in kinds

Earlier(d, k, kind) == {h \in DOMAIN d : h < k /\ d[h].k = kind}

Suppressed(hc0) == hc0.zs \/ OldHC0(hc0)

(* Behind d[k]: n channels, then an MCM or the end of the data.            *)
ChannelsBehind(d, k, n, ntb) ==
    /\ \A j \in 1..n * Dwords(ntb) :
           Stands(d, k + j, {IF j % Dwords(ntb) = 0 THEN "adcl" ELSE "adc"})
    /\ Stands(d, k + n * Dwords(ntb) + 1, {"mcm", "eod"})

TrackletsWritten(d, k) ==
    /\ d[k].k = "thc" => Stands(d, k + 1, {"tmcm", "eot"})
    /\ d[k].k = "tmcm" =>
           /\ \A j \in 1..d[k].n : Stands(d, k + j, {"trk"})
           /\ Stands(d, k + d[k].n + 1, {"tmcm", "eot"})
    /\ d[k].k = "eot" =>   \* they come in twos
           Stands(d, k + 1, IF k > 1 /\ d[k - 1].k = "eot" THEN {"pad", "hc0"} ELSE {"eot"})

RawDataWritten(d, k) ==
    /\ d[k].k = "hc0" =>
           /\ \A j \in 1..NHeaders(d[k]) : Stands(d, k + j, {"hc1", "hc2", "hc3"})
           /\ k + NHeaders(d[k]) + 1 \in DOMAIN d =>
                  /\ d[k + NHeaders(d[k]) + 1].k = "mcm"
                  /\ \E j \in 1..NHeaders(d[k]) : d[k + j].k = "hc1"
    /\ d[k].k = "mcm" =>
           \A h \in Earlier(d, k, "hc0"), t \in Earlier(d, k, "hc1") :
               IF Suppressed(d[h]) THEN Stands(d, k + 1, {"msk"})
               ELSE ChannelsBehind(d, k, NChannels, d[t].n)
    /\ d[k].k = "msk" =>
           \A t \in Earlier(d, k, "hc1") : ChannelsBehind(d, k, d[k].n, d[t].n)
    /\ d[k].k = "eod" => Stands(d, k + 1, {"eod", "pad"})
    /\ d[k].k = "pad" => Stands(d, k + 1, {"pad"})

Written(d) ==
    /\ Stands(d, 1, {"thc", "eot"})
    /\ \A k \in DOMAIN d : TrackletsWritten(d, k) /\ RawDataWritten(d, k)

-----------------------------------------------------------------------------
FeeInit ==
    /\ bound = FALSE
    /\ readlist = <<<<"thc", "eot">>>>
    /\ ctx = [hc |-> NoHC, zs |-> FALSE, ntb |-> 0, set |-> {}]
    /\ crashed = FALSE
    /\ nomatch = FALSE
    /\ last = [w |-> [k |-> "bad", n |-> 0, hc |-> NoHC, zs |-> FALSE], f |-> "none"]

(* reset() makes readlist another name of the list readlist_start; pop and *)
(* extend change that list, so from the second call on nothing is reset.   *)
Reset ==
    /\ bound' = TRUE
    /\ UNCHANGED <<readlist, ctx, crashed, nomatch, last>>

(* The three ways a dword goes; fallback is what is appended where nothing *)
(* matches: skip until eod (process_linkdata) or find eod or an MCM (read).*)
NoMatch(w, fallback) ==
    /\ Matching(Head(readlist), w) = {}
    /\ readlist' = Append(Tail(readlist), fallback)
    /\ nomatch' = TRUE
    /\ last' = [w |-> w, f |-> "none"]
    /\ UNCHANGED <<ctx, crashed>>

Match(w) ==
    LET f == Chosen(Head(readlist), w) IN
    /\ Matching(Head(readlist), w) # {}
    /\ ~TypeError(f)
    /\ ctx' = Context(f, w)
    /\ readlist' = Tail(readlist) \o Follow(f, w, ctx')
    /\ last' = [w |-> w, f |-> f]
    /\ UNCHANGED <<crashed, nomatch>>

Crash(w) ==
    LET f == Chosen(Head(readlist), w) IN
    /\ Matching(Head(readlist), w) # {}
    /\ TypeError(f)
    /\ crashed' = TRUE
    /\ readlist' = Tail(readlist)
    /\ last' = [w |-> w, f |-> f]
    /\ UNCHANGED <<ctx, nomatch>>

Fallback == {<<"find">>, <<"eod", "skip">>}

(* One turn of the loop of read or process_linkdata.  With an empty list   *)
(* pop raises IndexError and the loop breaks; AlwaysExpecting says that    *)
(* this never happens.                                                     *)
Parse(w, fallback) ==
    /\ bound /\ ~crashed /\ readlist # <<>>
    /\ NoMatch(w, fallback) \/ Match(w) \/ Crash(w)
    /\ UNCHANGED bound

-----------------------------------------------------------------------------
(* An expectation after which nothing more is expected in its place: every *)
(* other kind leads on, up to the padding that never ends.                 *)
Closed == {<<"trk">>, ExtraHeader, <<"adc">>, <<"digit">>}
Open == {<<"thc", "eot">>, AfterTracklet, AfterEot, <<"mcmhdr">>, <<"adcmask">>,
         AfterAdc, AfterEod, <<"pad">>} \cup Fallback

FeeTypeOK ==
    /\ bound \in BOOLEAN
    /\ readlist \in Seq(Open \cup Closed)
    /\ ctx \in [hc : Int, zs : BOOLEAN, ntb : Nat, set : SUBSET {"hc0", "hc1"}]
    /\ crashed \in BOOLEAN
    /\ nomatch \in BOOLEAN
    /\ last \in [w : Word, f : Fct \cup {"none"}]

(* The parser never runs out of expectations, whatever dwords it is given: *)
(* "extra data after end of readlist" (trdfeeparser.py:468, 525) is never  *)
(* reached, so read takes all the dwords it is asked to.                   *)
AlwaysExpecting ==
    ~crashed => \E i \in DOMAIN readlist : readlist[i] \in Open

(* As long as every dword has matched, exactly one expectation leads on    *)
(* and it is the last of the list: appending at the end then gives the     *)
(* order of the link format, although other expectations are pending.      *)
InOrder ==
    ~crashed /\ ~nomatch =>
        /\ readlist # <<>>
        /\ readlist[Len(readlist)] \in Open
        /\ \A i \in 1..Len(readlist) - 1 : readlist[i] \in Closed
=============================================================================
