------------------------------ MODULE Transcript ------------------------------
(***************************************************************************)
(* The messages of a conversation, and sanitizeHistoryForProvider          *)
(* (pkg/agent/context.go), which makes of any history one that a provider  *)
(* accepts.                                                                *)
(***************************************************************************)
EXTENDS Integers, Sequences, FiniteSets, SequencesExt

(***************************************************************************)
(* Messages.  An assistant message asks for the tool calls in ids or, with *)
(* none, answers; a tool message carries the result of one call.           *)
(***************************************************************************)
User == [role |-> "user", ids |-> {}]
Assistant(ids) == [role |-> "assistant", ids |-> ids]
Result(c) == [role |-> "tool", ids |-> {c}]
Results(ids) ==
  [i \in 1 .. Cardinality(ids) |->
     Result(CHOOSE c \in ids : Cardinality({d \in ids : d < c}) = i - 1)]

\* Every call has exactly one result, right after the message that asks for it,
\* and no result is on its own.
Answered(m, i) ==
  LET n == Cardinality(m[i].ids)
  IN /\ i + n <= Len(m)
     /\ \A j \in i + 1 .. i + n : m[j].role = "tool"
     /\ UNION {m[j].ids : j \in i + 1 .. i + n} = m[i].ids
Asks(m, i) == m[i].role = "assistant" /\ m[i].ids # {}
Paired(m) ==
  /\ \A i \in DOMAIN m : Asks(m, i) => Answered(m, i)
  /\ \A i \in DOMAIN m : m[i].role = "tool" =>
       \E k \in 1 .. i - 1 : Asks(m, k) /\ i - k <= Cardinality(m[k].ids)
\* Calls follow a user message or other results.
Prompted(m) == \A i \in DOMAIN m : Asks(m, i) => i > 1 /\ m[i - 1].role \in {"user", "tool"}

(***************************************************************************)
(* sanitizeHistoryForProvider: a pass that keeps the calls that have no    *)
(* result yet.                                                             *)
(***************************************************************************)
\* flushPendingToolCalls: a placeholder for every call without a result.
Flush(a) == [out |-> a.out \o Results(a.pending), in |-> FALSE, pending |-> {}]

\* Mutant: a result that answers no pending call is kept.
KeepToolAny(a, m) == [a EXCEPT !.out = Append(@, m), !.pending = @ \ m.ids]
\* case "tool"
KeepTool(a, m) ==
  IF ~a.in \/ (a.pending # {} /\ ~(m.ids \subseteq a.pending)) THEN a
  ELSE [out |-> Append(a.out, m), in |-> TRUE, pending |-> a.pending \ m.ids]

\* case "assistant", after the flush
KeepAssistant(f, m) ==
  IF m.ids = {} THEN [f EXCEPT !.out = Append(@, m)]
  ELSE IF f.out # <<>> /\ Last(f.out).role \in {"user", "tool"}
  THEN [out |-> Append(f.out, m), in |-> TRUE, pending |-> m.ids]
  ELSE f

Keep(a, m) == CASE m.role = "tool" -> KeepTool(a, m)
                [] m.role = "assistant" -> KeepAssistant(Flush(a), m)
                [] m.role = "user" -> [Flush(a) EXCEPT !.out = Append(@, m)]

\* (The set makes TLC evaluate each prefix once.)
Kept(h) ==
  LET kept[i \in 0 .. Len(h)] ==
        IF i = 0 THEN [out |-> <<>>, in |-> FALSE, pending |-> {}]
        ELSE CHOOSE b \in {Keep(a, h[i]) : a \in {kept[i - 1]}} : TRUE
  IN kept
Sanitize(h) == Flush(Kept(h)[Len(h)]).out
=============================================================================
