----------------------------- MODULE Conversation -----------------------------
(***************************************************************************)
(* What the session store promises of one conversation, whatever files,    *)
(* caches and trees it is made of.  The agent reads one state of the       *)
(* conversation; an edit changes it and, unless the write fails, is kept;  *)
(* a switch to an older message, an eviction or a restart returns to a     *)
(* state that was kept before, or to none: never to a mixture of states.   *)
(***************************************************************************)
EXTENDS Naturals, Sequences

CONSTANTS Message, Summary, NoSummary

VARIABLES
  now,    \* the state the agent reads
  saved,  \* the state the kept edits alone lead to
  past    \* the states that were kept

Blank == [messages |-> <<>>, summary |-> NoSummary, count |-> 0, flushed |-> 0]

Init == now = Blank /\ saved = Blank /\ past = {}

LastOf(s, n) == SubSeq(s, Len(s) - n + 1, Len(s))

Edited(v, e) ==
  CASE e.kind = "add" -> [v EXCEPT !.messages = Append(@, e.arg)]
    [] e.kind = "summarize" -> [v EXCEPT !.summary = e.arg]
    [] e.kind = "replace" -> [v EXCEPT !.messages = e.arg]
    [] e.kind = "cut" -> IF Len(v.messages) > e.arg
                         THEN [v EXCEPT !.messages = LastOf(@, e.arg)] ELSE v
    [] e.kind = "compacted" -> [v EXCEPT !.count = IF @ < e.arg THEN e.arg ELSE @]
    [] e.kind = "flushed" -> [v EXCEPT !.flushed = e.arg]

\* A write that fails may still leave its edit in the file.
Edit(e) ==
  /\ now' = Edited(now, e)
  /\ \/ /\ saved' = Edited(saved, e)
        /\ past' = past \cup {saved'}
     \/ /\ saved' = saved
        /\ past' \in {past, past \cup {Edited(saved, e)}}

Return ==
  /\ now' \in past \cup {Blank}
  /\ saved' = now'
  /\ past' = past

Next ==
  \/ \E m \in Message : Edit([kind |-> "add", arg |-> m])
  \/ \E s \in Summary : Edit([kind |-> "summarize", arg |-> s])
  \/ Edit([kind |-> "replace", arg |-> now'.messages])
  \/ \E n \in 0..Len(now.messages) : Edit([kind |-> "cut", arg |-> n])
  \/ Edit([kind |-> "compacted", arg |-> now.count + 1])
  \/ Edit([kind |-> "flushed", arg |-> now'.flushed])
  \/ Return

Spec == Init /\ [][Next]_<<now, saved, past>>

=============================================================================
