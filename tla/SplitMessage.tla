----------------------------- MODULE SplitMessage -----------------------------
(***************************************************************************)
(* SplitMessage (pkg/channels/manager.go): an answer that is longer than   *)
(* the channel's limit is sent in chunks, which keep code blocks whole     *)
(* where they can and close and reopen a block that they cut.  One step is *)
(* one round of its loop; indices count runes from 1.  A rune is a letter, *)
(* a space, a newline or a backquote.                                      *)
(***************************************************************************)
EXTENDS Integers, Sequences, FiniteSets

CONSTANTS Pieces,       \* texts that messages are put together from
          MaxPieces,    \* bound on the pieces of a message
          MaxLen,       \* the channel's limit
          MinBuffer,    \* 50
          LineWindow, SpaceWindow,  \* 200 and 100
          Margin        \* 20

Runes == {"letter", "space", "newline", "backquote"}
Fence == <<"backquote", "backquote", "backquote">>
Room == 5  \* for the fence that closes a chunk

LesserOf(a, b) == IF a < b THEN a ELSE b
GreaterOf(a, b) == IF a > b THEN a ELSE b
Buffer == LesserOf(GreaterOf(MaxLen \div 10, MinBuffer), MaxLen \div 2)
Limit == GreaterOf(MaxLen - Buffer, MaxLen \div 2)  \* effectiveLimit

\* The windows of the code against a limit of 2000 or more: a cut that follows the
\* line of a fence never falls back to that line.
SplitAssumption ==
  /\ Pieces \subseteq Seq(Runes) /\ MaxPieces \in Nat
  /\ MaxLen > 2 * Room /\ Limit - Margin <= MaxLen - Room - LineWindow

VARIABLES
  text,  \* what is left to send
  sent   \* the length of the chunk sent last

vars == <<text, sent>>

IsSpace(r) == r \in {"space", "newline"}
None == 0

LeastOf(S) == CHOOSE x \in S : \A y \in S : x <= y
LastOf(S) == IF S = {} THEN None ELSE CHOOSE x \in S : \A y \in S : x >= y

TrimLeft(s) ==
  LET kept == {i \in DOMAIN s : ~IsSpace(s[i])}
  IN IF kept = {} THEN <<>> ELSE SubSeq(s, LeastOf(kept), Len(s))
TrimRight(s) == SubSeq(s, 1, LastOf({i \in DOMAIN s : ~IsSpace(s[i])}))
Trim(s) == TrimRight(TrimLeft(s))

FenceAt(s, i, end) == i + 2 <= end /\ SubSeq(s, i, i + 2) = Fence

\* The fences that the scan of s[1..end] meets; a rune is part of one of them only.
Fences(s, end) ==
  LET scan[i \in 0 .. end] ==
        IF i = 0 THEN {}
        ELSE IF FenceAt(s, i, end) /\ {i - 1, i - 2} \cap scan[i - 1] = {}
        THEN scan[i - 1] \cup {i} ELSE scan[i - 1]
  IN scan[end]

\* findLastUnclosedCodeBlockInRange, findNextClosingCodeBlockInRange (the last rune
\* of the fence), findNewlineFrom
Unclosed(s, end) == IF Cardinality(Fences(s, end)) % 2 = 1 THEN LastOf(Fences(s, end)) ELSE None
Closing(s, from) ==
  LET at == {i \in from .. Len(s) : FenceAt(s, i, Len(s))}
  IN IF at = {} THEN None ELSE LeastOf(at) + 2
NewlineFrom(s, from) ==
  LET at == {i \in from .. Len(s) : s[i] = "newline"} IN IF at = {} THEN None ELSE LeastOf(at)

\* findLastNewlineInRange, findLastSpaceInRange: how many runes come before it.
Before(s, end, window, r) ==
  LET at == {i \in GreaterOf(end - window, 0) + 1 .. end : s[i] = r}
  IN GreaterOf(LastOf(at) - 1, 0)
NaturalEnd(s, end) ==
  IF Before(s, end, LineWindow, "newline") > 0 THEN Before(s, end, LineWindow, "newline")
  ELSE Before(s, end, SpaceWindow, "space")

(***************************************************************************)
(* The chunks of a round: of the first n runes, as they are or with a      *)
(* fence that closes them.                                                 *)
(***************************************************************************)
Send(n) == sent' = n /\ text' = TrimLeft(SubSeq(text, n + 1, Len(text)))

\* The rest begins with the opening line of the block.
SendClosed(n, header) ==
  /\ sent' = Len(TrimRight(SubSeq(text, 1, n))) + 4
  /\ text' = Trim(header \o <<"newline">> \o SubSeq(text, n + 1, Len(text)))

\* Mutant: no room is left for the fence that closes a chunk.
InnerLimitFull == MaxLen
InnerLimit == MaxLen - Room

\* A block that the chunk would cut, from the fence at open on.
SplitBlock(end, open) ==
  LET line == NewlineFrom(text, open)
      header == IF line = None THEN Fence ELSE TrimRight(SubSeq(text, open, line - 1))
      \* headerEndIdx
      headerEnd == IF line = None THEN open - 1 + Len(header) ELSE line - 1
      inner == Before(text, InnerLimit, LineWindow, "newline")
      before == NaturalEnd(text, open - 1)
  IN IF Closing(text, end + 1) \in 1 .. MaxLen THEN Send(Closing(text, end + 1))
     ELSE IF end > headerEnd + Margin
     THEN SendClosed(IF inner > headerEnd THEN inner ELSE InnerLimit, header)
     ELSE IF before > 0 THEN Send(before)
     ELSE IF open - 1 > Margin THEN Send(open - 1)
     ELSE SendClosed(InnerLimit, header)

Round ==
  /\ Len(text) > MaxLen
  /\ LET end == IF NaturalEnd(text, Limit) > 0 THEN NaturalEnd(text, Limit) ELSE Limit
         open == Unclosed(text, end)
     IN IF open = None THEN Send(end) ELSE SplitBlock(end, open)

Last == text # <<>> /\ Len(text) <= MaxLen /\ sent' = Len(text) /\ text' = <<>>
-----------------------------------------------------------------------------
Join(ps) ==
  LET upto[i \in 0 .. Len(ps)] == IF i = 0 THEN <<>> ELSE upto[i - 1] \o ps[i]
  IN upto[Len(ps)]

\* The opening line of a block ends before a chunk does.
ShortHeaders ==
  \A i \in 1 .. Len(text) - 2 :
    FenceAt(text, i, Len(text)) =>
      NewlineFrom(text, i) \in {None} \cup 1 .. i + Limit - Margin

Init ==
  /\ \E n \in 1 .. MaxPieces : \E ps \in [1 .. n -> Pieces] : text = Join(ps)
  /\ ShortHeaders
  /\ sent = 0

Next == Round \/ Last
Spec == Init /\ [][Next]_vars
-----------------------------------------------------------------------------
TypeOK == text \in Seq(Runes) /\ sent \in Nat

\* No chunk is longer than the channel takes, the fences that are added to it
\* included, and each one leaves less of the answer: the splitting ends.  This needs
\* opening lines of code blocks that are short (ShortHeaders).
Fits == sent' <= MaxLen /\ Len(text') < Len(text)
ChunksFit == [][Fits]_vars
=============================================================================
