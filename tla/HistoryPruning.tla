---------------------------- MODULE HistoryPruning ----------------------------
(***************************************************************************)
(* What BuildMessagesForSession (pkg/agent/context.go) makes of a history  *)
(* for one request: sanitized, pruned when it fills the context window,    *)
(* and sanitized again.  A message has a size, in tokens with the system   *)
(* prompt left out, and may be a brief acknowledgement.                    *)
(***************************************************************************)
EXTENDS Transcript

CONSTANTS Sizes,      \* the sizes of the results of tools
          MaxHistory, \* bound on the messages of the history
          Trigger,    \* TriggerRatio of the ContextWindowTokens
          Soft, Hard, \* SoftToolResultChars, HardToolResultChars
          Recent,     \* the latest messages, 8, which are not condensed
          ChitChat    \* IncludeOldChitChat

PruningAssumption ==
  {MaxHistory, Trigger, Soft, Hard, Recent} \cup Sizes \subseteq Nat /\ ChitChat \in BOOLEAN

VARIABLES
  history,
  request   \* what was made of it, <<>> before

vars == <<history, request>>

\* What sanitizing and pruning put in has no text of its own.
Size(m) == IF "size" \in DOMAIN m THEN m.size ELSE 0
Ack(m) == "ack" \in DOMAIN m /\ m.ack
Tokens(h) == FoldSeq(LAMBDA m, n : n + Size(m), 0, h)
TooLong(h) == Tokens(h) >= Trigger
Oversize(m, limit) == m.role = "tool" /\ limit > 0 /\ Size(m) > limit

\* The first loop: long results are condensed to their head and tail.
Condensed(h, cutoff) ==
  [i \in DOMAIN h |-> IF i <= cutoff /\ Oversize(h[i], Soft) THEN [h[i] EXCEPT !.size = Soft] ELSE h[i]]

\* compactOldChitChat: acknowledgements in a row give one note.
OldAck(h, cutoff, i) == i \in 1 .. cutoff /\ Ack(h[i])
Joined(h, cutoff, i) ==
  OldAck(h, cutoff, i) /\ (OldAck(h, cutoff, i - 1) \/ OldAck(h, cutoff, i + 1))
Compacted(h, cutoff) ==
  FoldLeftDomain(LAMBDA out, i : IF ~Joined(h, cutoff, i) THEN Append(out, h[i])
                                 ELSE IF OldAck(h, cutoff, i - 1) THEN out
                                 ELSE Append(out, Assistant({})),
                 <<>>, h)

\* The last loop: results are left out, the oldest first, while that is needed.  Its
\* limit is the cutoff of the history before acknowledgements were joined.
\* Mutant: it has no limit.
OmittedAll(h, cutoff) ==
  FoldLeftDomain(LAMBDA out, i : IF TooLong(out) /\ Oversize(out[i], Hard)
                                 THEN [out EXCEPT ![i].size = 0] ELSE out,
                 h, h)
Omitted(h, cutoff) ==
  FoldLeftDomain(LAMBDA out, i : IF i <= cutoff /\ TooLong(out) /\ Oversize(out[i], Hard)
                                 THEN [out EXCEPT ![i].size = 0] ELSE out,
                 h, h)

\* pruneHistoryForContext in the mode "tools_only"
Pruned(h) ==
  LET cutoff == Len(h) - Recent
      short == Condensed(h, cutoff)
  IN IF ~TooLong(h) \/ cutoff <= 0 THEN h
     ELSE Omitted(IF ChitChat THEN Compacted(short, cutoff) ELSE short, cutoff)

\* BuildMessagesForSession
Build ==
  /\ request = <<>> /\ history # <<>>
  /\ request' = Sanitize(Pruned(Sanitize(history)))
  /\ UNCHANGED history

(***************************************************************************)
(* The history, as runs leave it: texts, and calls with their results, or  *)
(* without where the process died.                                         *)
(***************************************************************************)
Text(role, size, ack) == [role |-> role, ids |-> {}, size |-> size, ack |-> ack]
Ask == [role |-> "assistant", ids |-> {1}, size |-> 0, ack |-> FALSE]
Answer(size) == [role |-> "tool", ids |-> {1}, size |-> size, ack |-> FALSE]

\* Each message knows its place.
Extend(ms) ==
  /\ request = <<>> /\ Len(history) + Len(ms) <= MaxHistory
  /\ history' = history \o [i \in DOMAIN ms |-> ms[i] @@ ("pos" :> Len(history) + i)]
  /\ UNCHANGED request

Say == \E role \in {"user", "assistant"}, ack \in BOOLEAN : Extend(<<Text(role, 1, ack)>>)
Tool == \E size \in Sizes : Extend(<<Ask, Answer(size)>>)
Crash == Extend(<<Ask>>)
-----------------------------------------------------------------------------
Init == history = <<>> /\ request = <<>>

Next == Say \/ Tool \/ Crash \/ Build

Spec == Init /\ [][Next]_vars
-----------------------------------------------------------------------------
TypeOK ==
  /\ Len(history) <= MaxHistory
  /\ \A i \in DOMAIN history : history[i].pos = i /\ Size(history[i]) \in Sizes \cup {0, 1}
  /\ request # <<>> => history # <<>>

Original(m) == "pos" \in DOMAIN m
Sent(m) == \E i \in DOMAIN request : Original(request[i]) /\ request[i].pos = m.pos
Verbatim(m) == \E i \in DOMAIN request : request[i] = m

\* What goes to the model is a valid transcript in the order of the history.  Nothing
\* of the sanitized history is missing but joined acknowledgements, and the calls
\* that follow them up to the next text; the latest messages are as they were, but for as
\* many as the joining moved below the limit; and long results are left only when
\* there is room.
PruningKeeps ==
  request # <<>> =>
    LET h == Sanitize(history)
        cutoff == Len(h) - Recent
        joined == {i \in DOMAIN h : ChitChat /\ Joined(h, cutoff, i)}
        lost == {i \in DOMAIN h : Original(h[i]) /\ ~Sent(h[i])}
        moved == IF joined = {} THEN 0 ELSE Cardinality(joined) - 1
    IN /\ Paired(request) /\ Prompted(request)
       /\ \A i, j \in DOMAIN request :
            i < j /\ Original(request[i]) /\ Original(request[j]) => request[i].pos < request[j].pos
       /\ \A i \in lost : \E j \in joined : j <= i /\ \A k \in j + 1 .. i : h[k].ids # {}
       /\ \A i \in DOMAIN h \ lost : i > cutoff + moved /\ Original(h[i]) => Verbatim(h[i])
       /\ TooLong(request) /\ cutoff > 0 =>
            \A i \in DOMAIN request : i <= cutoff - Cardinality(lost) => ~Oversize(request[i], Hard)
=============================================================================
