----------------------------- MODULE CruParser -----------------------------
(***************************************************************************)
(* The readers that feed a TrdFeeParser:                                   *)
(*  "tf"   TrdCruParser.read, called by RdhStreamParser for the payload of *)
(*         each RDH page: a half-CRU header, then the data of 15 links,     *)
(*         which may go on over any number of pages;                       *)
(*  "o32"  o32reader: TrdFeeParser.process for each subevent;              *)
(*  "bin"  MiniDaqReader: TrdFeeParser.read for each subevent.             *)
(*                                                                         *)
(* The unit of length is the block of 32 bytes, and a block stands for one *)
(* dword of its link.  Positions count the payload, from the first block   *)
(* of the half-CRU header; pages are full but for the last one, which is   *)
(* padded to an even number of blocks.                                     *)
(***************************************************************************)
EXTENDS FeeParser

CONSTANTS
    LastLink,    \* 14
    HeaderSize,  \* blocks of a half-CRU header: 2
    PageSize,    \* blocks of payload in an RDH page: 254
    RdhSize,     \* blocks of an RDH: 2
    Intact,      \* payloads the detector can send
    Damaged,     \* payloads with an unreadable dword
    MaxUnits     \* bound on half-CRU payloads (tf) or subevents

Link == 0..LastLink

(* A payload: the data of its links and where in it they start.            *)
Payload == [data : [Link -> Seq(Word)], start : [0..LastLink + 1 -> Nat]]

ASSUME LayoutAssumption ==
    /\ LastLink \in Nat
    /\ HeaderSize \in Nat \ {0, 1} /\ RdhSize \in Nat
    /\ PageSize \in Nat /\ PageSize > HeaderSize
    /\ MaxUnits \in Nat
    /\ Intact \cup Damaged \subseteq Payload
    /\ \A x \in Intact \cup Damaged :
           /\ x.start[0] = HeaderSize
           /\ \A i \in Link : x.start[i + 1] = x.start[i] + Len(x.data[i])

(* A payload is intact when each link is as the detector writes it.        *)
ASSUME FormatAssumption == \A x \in Intact, i \in Link : Written(x.data[i])

None == -1
NoHeader == <<>>
Least(a, b) == IF a < b THEN a ELSE b

VARIABLES
    reader,      \* which of the three
    payload,     \* what is being read
    units,       \* payloads read, the present one included
    pc,          \* "file", "cru" (loop of TrdCruParser.read), "fee", "astray"
    pos,         \* blocks of the payload read
    page,        \* RDH pages of the payload begun
    maxpos,      \* end of the page
    hcruheader,  \* datasize of the header whose links are being read
    link,        \* the link being read, or None
    unread,      \* what is left of it, or None
    readsize,    \* size of the call of feeparser.read under way
    feemax,      \* maxpos of that call
    intact,      \* history: no dword of any payload so far was damaged
    first,       \* history: no dword of an earlier link has been parsed
    swallowed    \* history: a block of data has been taken for padding

cruvars == <<hcruheader, link, unread>>
filevars == <<reader, payload, units, intact>>
vars == <<feevars, cruvars, filevars, page, pc, pos, maxpos, readsize, feemax, first, swallowed>>

-----------------------------------------------------------------------------
data == payload.data
Start == payload.start

(* The blocks of the payload with the padding of its last page.            *)
Padded(x) == x.start[LastLink + 1] + (x.start[LastLink + 1] % 2)
Total == Padded(payload)

(* What feeparser.read finds at position p.                                *)
Owner(p) == {i \in Link : \E j \in DOMAIN data[i] : p = Start[i] + j - 1}

Block(k) == [k |-> k, n |-> 0, hc |-> NoHC, zs |-> FALSE]
WordAt(p) ==
    IF p < HeaderSize THEN Block("bad")
    ELSE IF Owner(p) = {} THEN Block("pad")
    ELSE LET i == CHOOSE i \in Owner(p) : TRUE
             j == CHOOSE j \in DOMAIN data[i] : p = Start[i] + j - 1
         IN  data[i][j]

(* TrdHalfCruHeader.offset: where in the file link i is expected, from the *)
(* first RDH of the payload on.                                            *)
Offset(i) ==
    LET rawoffset == Start[i]
    IN  (PageSize + RdhSize) * (rawoffset \div PageSize) + RdhSize + (rawoffset % PageSize)

(* stream.tell(), which counts the RDH of each page as well.               *)
Tell == pos + RdhSize * page

-----------------------------------------------------------------------------
Init ==
    /\ FeeInit
    /\ reader \in {"tf", "o32", "bin"}
    /\ payload = [data |-> [i \in Link |-> <<>>], start |-> [i \in 0..LastLink + 1 |-> HeaderSize]]
    /\ units = 0 /\ page = 0
    /\ pc = "file"
    /\ pos = Total /\ maxpos = Total
    /\ hcruheader = NoHeader /\ link = None /\ unread = None
    /\ readsize = 0 /\ feemax = 0
    /\ intact = TRUE /\ first = TRUE /\ swallowed = FALSE

(* Environment: the next payload; at most one in a file is damaged.        *)
Send(x) ==
    /\ units' = units + 1
    /\ payload' = x
    /\ intact' = (intact /\ x \in Intact)

(* RdhStreamParser.read: an RDH and a call of TrdCruParser.read.           *)
NewPayload(x) ==
    /\ reader = "tf" /\ pos = Total
    /\ Send(x)
    /\ pos' = 0 /\ page' = 1
    /\ maxpos' = Least(PageSize, Padded(x))
    /\ pc' = "cru"
    /\ UNCHANGED <<feevars, cruvars, reader, readsize, feemax, first, swallowed>>

NextPage ==
    /\ reader = "tf" /\ pc = "file" /\ ~crashed /\ pos < Total
    /\ page' = page + 1
    /\ maxpos' = Least(pos + PageSize, Total)
    /\ pc' = "cru"
    /\ UNCHANGED <<feevars, cruvars, filevars, pos, readsize, feemax, first, swallowed>>

PageDone ==
    /\ pc = "cru" /\ pos = maxpos
    /\ pc' = "file"
    /\ UNCHANGED <<feevars, cruvars, filevars, page, pos, maxpos, readsize, feemax, first, swallowed>>

(* 32 bytes left in the page are read and dropped, whatever they are.      *)
\* slip: the padding is looked at but not read
PaddingNotRead ==
    /\ pc = "cru" /\ maxpos - pos = 1
    /\ swallowed' = (swallowed \/ Owner(pos) # {})
    /\ UNCHANGED <<feevars, cruvars, filevars, page, pc, pos, maxpos, readsize, feemax, first>>

Padding ==
    /\ pc = "cru" /\ maxpos - pos = 1
    /\ pos' = pos + 1
    /\ swallowed' = (swallowed \/ Owner(pos) # {})
    /\ UNCHANGED <<feevars, cruvars, filevars, page, pc, maxpos, readsize, feemax, first>>

(* A turn of the loop up to the call of feeparser.read.  p, l, u, h are    *)
(* the position behind the header, link, unread and the header.            *)
AtHeader == hcruheader = NoHeader
TurnHeader == IF AtHeader THEN [i \in Link |-> Len(data[i])] ELSE hcruheader
TurnPos == IF AtHeader THEN pos + HeaderSize ELSE pos
TurnLink == IF AtHeader THEN 0 ELSE link
TurnUnread == IF AtHeader \/ unread = None THEN TurnHeader[TurnLink] ELSE unread

Turn == pc = "cru" /\ maxpos - pos > 1

(* What is read as a header is none; what follows depends on its bits.     *)
Astray ==
    /\ Turn /\ AtHeader /\ pos # 0
    /\ pc' = "astray"
    /\ UNCHANGED <<feevars, cruvars, filevars, page, pos, maxpos, readsize, feemax, first, swallowed>>

\* slip: avail_bytes, taken before the header was read, limits the call
ReadSizeStale == Least(TurnUnread, maxpos - pos)

ReadSize == Least(TurnUnread, maxpos - TurnPos)

CallFeeParser ==
    /\ Turn /\ (AtHeader => pos = 0)
    /\ TurnUnread > 0
    /\ hcruheader' = TurnHeader /\ link' = TurnLink /\ unread' = TurnUnread
    /\ pos' = TurnPos
    /\ readsize' = ReadSize
    /\ feemax' = TurnPos + ReadSize
    /\ pc' = "fee"
    /\ IF bound THEN UNCHANGED feevars ELSE Reset
    /\ UNCHANGED <<filevars, page, maxpos, first, swallowed>>

(* unread == 0: reset for the next link, or for the next header.           *)
\* slip: the last link is compared with the number of links
EndLinkOneMore(h, l) ==
    /\ Reset
    /\ IF l < LastLink + 1
       THEN hcruheader' = h /\ link' = l + 1 /\ unread' = None
       ELSE hcruheader' = NoHeader /\ link' = None /\ unread' = None

EndLink(h, l) ==
    /\ Reset
    /\ IF l < LastLink
       THEN hcruheader' = h /\ link' = l + 1 /\ unread' = None
       ELSE hcruheader' = NoHeader /\ link' = None /\ unread' = None

EmptyLink ==
    /\ Turn /\ (AtHeader => pos = 0)
    /\ TurnUnread = 0
    /\ pos' = TurnPos
    /\ EndLink(TurnHeader, TurnLink)
    /\ UNCHANGED <<filevars, page, pc, maxpos, readsize, feemax, first, swallowed>>

(* feeparser.read and what TrdCruParser.read does when it returns.         *)
FeeDword ==
    /\ pc = "fee" /\ pos < feemax
    /\ Parse(WordAt(pos), IF reader = "o32" THEN <<"eod", "skip">> ELSE <<"find">>)
    /\ pos' = pos + 1
    /\ UNCHANGED <<cruvars, filevars, page, pc, maxpos, readsize, feemax, first, swallowed>>

FeeReturn ==
    /\ reader = "tf" /\ pc = "fee" /\ pos = feemax /\ ~crashed
    /\ pc' = "cru"
    /\ IF unread = readsize
       THEN EndLink(hcruheader, link) /\ first' = FALSE
       ELSE unread' = unread - readsize /\ UNCHANGED <<feevars, hcruheader, link, first>>
    /\ UNCHANGED <<filevars, page, pos, maxpos, readsize, feemax, swallowed>>

-----------------------------------------------------------------------------
(* o32reader: process resets, then loops; MiniDaqReader: read resets only  *)
(* the first time.  A subevent is the data of one link.                    *)
Subevent(x) ==
    /\ \E i \in Link : \A j \in Link : i # j => x.data[j] = <<>>
    /\ Send(x)
    /\ pos' = HeaderSize
    /\ readsize' = x.start[LastLink + 1] - HeaderSize
    /\ feemax' = x.start[LastLink + 1]
    /\ pc' = "fee"
    /\ UNCHANGED <<cruvars, reader, page, maxpos, first, swallowed>>

Process(x) == reader = "o32" /\ Subevent(x) /\ Reset

ReadSubevent(x) ==
    /\ reader = "bin"
    /\ Subevent(x)
    /\ IF bound THEN UNCHANGED feevars ELSE Reset

SubeventDone ==
    /\ reader # "tf" /\ pc = "fee" /\ pos = feemax /\ ~crashed
    /\ pc' = "file"
    /\ first' = FALSE
    /\ UNCHANGED <<feevars, cruvars, filevars, page, pos, maxpos, readsize, feemax, swallowed>>

Read ==
    \/ NextPage \/ PageDone \/ Padding \/ Astray \/ CallFeeParser \/ EmptyLink
    \/ FeeDword \/ FeeReturn \/ SubeventDone

NewData ==
    /\ pc = "file" /\ ~crashed /\ units < MaxUnits
    /\ \E x \in Intact \cup (IF intact THEN Damaged ELSE {}) :
           NewPayload(x) \/ Process(x) \/ ReadSubevent(x)

Next == Read \/ NewData

Spec == Init /\ [][Next]_vars

(* The program reads to the end of the file; nobody owes it a longer one.  *)
FairSpec == Spec /\ WF_vars(Read)

-----------------------------------------------------------------------------
TypeOK ==
    /\ FeeTypeOK
    /\ reader \in {"tf", "o32", "bin"}
    /\ payload \in Payload
    /\ units \in 0..MaxUnits
    /\ pc \in {"file", "cru", "fee", "astray"}
    /\ pos \in Nat /\ page \in Nat /\ maxpos \in Nat /\ feemax \in Nat
    /\ hcruheader \in [Link -> Nat] \cup {NoHeader}
    /\ link \in Link \cup {None}
    /\ unread \in Nat \cup {None}
    /\ readsize \in Nat
    /\ intact \in BOOLEAN /\ first \in BOOLEAN /\ swallowed \in BOOLEAN

(* The functions meant for each kind of dword; the first of the two        *)
(* end-of-tracklet dwords of a link without tracklets passes for a header. *)
Meant(k) ==
    CASE k = "eot"  -> {"eot", "thc"}
      [] k = "mcm"  -> {"mcmhdr"}
      [] k = "msk"  -> {"adcmask"}
      [] k = "adcl" -> {"digit"}
      [] OTHER      -> {k}

(* The first link with data is understood, dword by dword, however the     *)
(* pages cut it: nothing fails to match, nothing raises an exception, each *)
(* dword is taken by the function meant for it, and store_digits is called *)
(* at the last dword of each channel (process, read, TrdCruParser.read).   *)
FirstLinkAsWritten ==
    first /\ intact /\ ~swallowed =>
        /\ ~crashed /\ ~nomatch
        /\ last.f # "none" => last.f \in Meant(last.w.k)

(* TrdCruParser keeps its place over links and pages: as long as no data   *)
(* were taken for padding, each call of feeparser.read covers data of the  *)
(* current link only, from where the call before stopped, and a header is  *)
(* read only where there is one.  Empty links at the end of a payload that *)
(* fills its page are still pending when the next payload begins.  Each    *)
(* link starts where in the file TrdHalfCruHeader says it does (offset).   *)
NothingLeft ==
    \/ hcruheader = NoHeader
    \/ unread = None /\ \A i \in link..LastLink : hcruheader[i] = 0

InPlace ==
    reader = "tf" /\ ~swallowed =>
        /\ pc # "astray"
        /\ pc = "fee" =>
               /\ feemax - readsize = Start[link] + Len(data[link]) - unread
               /\ feemax <= Start[link + 1] /\ feemax <= maxpos
        /\ pc # "fee" /\ ~NothingLeft =>
               pos = Start[link] + IF unread = None THEN 0 ELSE Len(data[link]) - unread
        /\ pc # "fee" /\ NothingLeft => pos \in {0, Start[LastLink + 1], Total}
        /\ pc = "fee" /\ pos = feemax - readsize /\ unread = Len(data[link])
               => Tell = Offset(link)

(* Each call of TrdCruParser.read ends: every turn of its loop reads       *)
(* something or goes on to the next link.                                  *)
PageEnds == pc = "cru" ~> (pc \in {"file", "astray"} \/ crashed)

(* In a time frame a digit is stored for the half-chamber whose link the   *)
(* dword is from: at the end of each link TrdCruParser.read calls reset    *)
(* and says "start new link" (trdfeeparser.py:649).  Violated: reset       *)
(* changes nothing, the headers of the second link are skipped, and its    *)
(* digits go to the half-chamber of the first.                             *)
DigitsOfOwnLink ==
    reader = "tf" /\ intact /\ ~swallowed /\ pc = "fee" /\ pos > feemax - readsize
    /\ last.f = "digit" => Owner(pos - 1) = {ctx.hc}
=============================================================================
