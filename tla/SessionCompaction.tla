--------------------------- MODULE SessionCompaction ---------------------------
(***************************************************************************)
(* The background compaction of a conversation (pkg/agent/                 *)
(* loop_compaction.go) on top of its session store.  finalizeRun starts    *)
(* one goroutine per conversation when the history is long; the next run   *)
(* of the conversation does not wait for it.  A summary is the set of      *)
(* messages the model was given to summarise: Summary is SUBSET Message    *)
(* and NoSummary is {}.                                                    *)
(***************************************************************************)
EXTENDS SessionStore

CONSTANT MinHistory  \* a history of at most so many messages is left alone

VARIABLE compaction  \* the goroutine: where it is and what it has read

cvars == <<vars, compaction>>

NoCompaction == [at |-> "idle", kept |-> <<>>, summary |-> {}, count |-> 0]

CInit == Init /\ compaction = NoCompaction

Messages(h) == {h[i] : i \in DOMAIN h}

At(step) == compaction.at = step
Goto(step) == compaction' = [compaction EXCEPT !.at = step]

\* maybeSummarize, after a run; summarizing admits one goroutine.
MaybeSummarize ==
  /\ At("idle")
  /\ session # NoSession /\ ~writing
  /\ Len(session.view.messages) > MinHistory
  /\ Goto("flush")
  /\ UNCHANGED vars

\* maybeFlushMemoryBeforeCompaction: the provider call is between its read of
\* the counters and the mark.
ReadCompactionState ==
  /\ At("flush") /\ ~writing
  /\ \/ Goto("compact")
     \/ /\ session # NoSession /\ session.view.flushed # session.view.count
        /\ compaction' = [compaction EXCEPT !.at = "mark", !.count = session.view.count]
  /\ UNCHANGED vars

MarkFlush ==
  /\ At("mark")
  /\ MarkMemoryFlush(compaction.count)
  /\ Goto("save_flush")

SaveFlush == At("save_flush") /\ Save /\ Goto("compact")

\* compactWithSafeguard reads the history and the summary, once the Save before
\* it has ended, then calls the provider; keepStart depends on the size of the
\* messages.
ReadHistory ==
  /\ At("compact") /\ ~writing /\ pending = {}
  /\ session # NoSession
  /\ LET h == session.view.messages
     IN /\ Len(h) > MinHistory
        /\ \E start \in 1..(Len(h) - 1) :
             compaction' = [compaction EXCEPT
                              !.at = "summary",
                              !.kept = SubSeq(h, start + 1, Len(h)),
                              !.summary = session.view.summary
                                            \cup Messages(SubSeq(h, 1, start))]
  /\ UNCHANGED vars

\* The history is short by now, or the provider fails.
GiveUp ==
  /\ \/ At("mark") /\ Goto("compact")
     \/ (At("compact") \/ At("summary")) /\ compaction' = NoCompaction
  /\ UNCHANGED vars

StoreSummary == At("summary") /\ SetSummary(compaction.summary) /\ Goto("history")

\* What the history holds by now is overwritten with what was read.
StoreHistory == At("history") /\ SetHistory(compaction.kept) /\ Goto("count")

CountCompaction == At("count") /\ IncrementCompactionCount /\ Goto("save")

SaveCompaction == At("save") /\ Save /\ compaction' = NoCompaction

Compaction ==
  \/ MaybeSummarize \/ ReadCompactionState \/ MarkFlush \/ SaveFlush
  \/ ReadHistory \/ GiveUp
  \/ StoreSummary \/ StoreHistory \/ CountCompaction \/ SaveCompaction

\* Runs of the conversation add messages and save.
Conversing ==
  /\ Save \/ \E m \in Message : AddFullMessage(m)
  /\ UNCHANGED compaction

CNext ==
  \/ Compaction \/ Conversing
  \/ (PersistMeta \/ \E m \in pending : WriteMeta(m)) /\ UNCHANGED compaction
  \/ Restart /\ compaction' = NoCompaction

CSpec == CInit /\ [][CNext]_cvars

-----------------------------------------------------------------------------
(* Properties.                                                              *)

Covered == IF session = NoSession THEN {}
           ELSE Messages(session.view.messages) \cup session.view.summary

\* docs/configuration.md:41, compaction summarises the history: a message a step
\* of it takes out of the history is in the summary.
NothingForgotten == [][Compaction => Covered \subseteq Covered']_cvars

=============================================================================
