------------------------------- MODULE AgentRun -------------------------------
(***************************************************************************)
(* The runs of one session (pkg/agent): the iterations of a run between    *)
(* the model and the tools (loop.go, loop_tools.go), what they leave in    *)
(* the session history and in the run trace (pipeline_notify.go,           *)
(* loop_trace.go), the compaction of a history the model refuses, crashes, *)
(* and ResumeLastTask, which continues a run whose trace has no end        *)
(* (pipeline_resume.go).                                                   *)
(*                                                                         *)
(* "worker" runs the messages of the session one at a time; "resume" is    *)
(* the gateway's resume endpoint, which does not pass by the worker.       *)
(***************************************************************************)
EXTENDS Transcript

CONSTANTS Runs,           \* run ids, 1..n in the order they are given out
          MaxIterations,  \* AgentInstance.MaxIterations
          MaxRetries,     \* maxRetries of callLLMWithRetry
          CallIds,        \* 1..n: ids of tool calls
          MaxBatch,       \* bound on the tool calls of one response
          MinHistory,     \* a history of at most so many is not compacted
          MaxResumes,     \* bound on calls of the resume endpoint
          MaxCrashes,
          Concurrent      \* the endpoint is called, or messages come, during a run

ASSUME RunAssumption ==
    /\ \A b \in {MaxIterations, MaxRetries, MaxBatch, MinHistory, MaxResumes, MaxCrashes} : b \in Nat
    /\ Concurrent \in BOOLEAN
    /\ Runs \subseteq Nat \ {0} /\ CallIds \subseteq Nat \ {0}
    /\ IsFiniteSet(Runs) /\ IsFiniteSet(CallIds)

Slots == {"worker", "resume"}
NoRun == 0

VARIABLES
  hist,      \* the session's messages, in memory and on disk
  trace,     \* trace[r]: what the run's events say of r
  later,     \* later[r]: the runs with an event after the last of r
  slot,      \* slot[s]: the run in progress
  resumes,   \* calls of the endpoint so far
  crashes

vars == <<hist, trace, later, slot, resumes, crashes>>

Rest == <<resumes, crashes>>

MessageType == [role : {"user", "assistant", "tool"}, ids : SUBSET CallIds]

(***************************************************************************)
(* A run.                                                                  *)
(***************************************************************************)
NoSlot == [pc |-> "idle", run |-> NoRun, msgs |-> <<>>, iter |-> 0, retry |-> 0,
           pending |-> {}, kept |-> <<>>]

\* appendEvent: the run's last event is the latest of all.
Event(r, what) ==
  /\ trace' = [trace EXCEPT ![r] = [last |-> what, ended |-> @.ended \/ what = "end"]]
  /\ later' = [q \in Runs |-> IF q = r THEN {} ELSE later[q] \cup {r}]
NoEvent == UNCHANGED <<trace, later>>

AtPc(s, pc) == slot[s].pc = pc
Become(s, rec) == slot' = [slot EXCEPT ![s] = rec]
\* Whether a run may start: nothing in the code keeps the two slots apart.
Alone(s) == Concurrent \/ \A o \in Slots \ {s} : AtPc(o, "idle")

\* prepareRun: the history is read, the messages are built, recordStart.
Begin(r) ==
  /\ AtPc("worker", "idle") /\ trace[r].last = "none" /\ Alone("worker")
  /\ \A q \in Runs : q < r => trace[q].last # "none"
  /\ Become("worker", [NoSlot EXCEPT !.pc = "persist", !.run = r,
                                     !.msgs = Append(Sanitize(hist), User)])
  /\ Event(r, "start")
  /\ UNCHANGED <<hist, resumes, crashes>>

\* findLastUnfinishedRun: neither an end anywhere nor an error last.
Unfinished(r) == trace[r].last \notin {"none", "error"} /\ ~trace[r].ended
Latest(r) == Unfinished(r) /\ \A q \in later[r] : ~Unfinished(q)

Scan ==
  /\ AtPc("resume", "idle") /\ resumes < MaxResumes /\ Alone("resume")
  /\ resumes' = resumes + 1
  /\ \E r \in Runs : Latest(r) /\ Become("resume", [NoSlot EXCEPT !.pc = "found", !.run = r])
  /\ NoEvent /\ UNCHANGED <<hist, crashes>>

\* prepareRun of the resumed run, with the synthetic prompt; recordResume.
ResumeBegin ==
  /\ AtPc("resume", "found")
  /\ Become("resume", [slot["resume"] EXCEPT !.pc = "persist",
                                             !.msgs = Append(Sanitize(hist), User)])
  /\ Event(slot["resume"].run, "resume")
  /\ UNCHANGED <<hist, resumes, crashes>>

PersistUser(s) ==
  /\ AtPc(s, "persist")
  /\ hist' = Append(hist, User)
  /\ Become(s, [slot[s] EXCEPT !.pc = "next"])
  /\ NoEvent /\ UNCHANGED Rest

\* The loop ends: no iteration is left, or the run is over its wall time.
LoopEnds(s) == Become(s, [slot[s] EXCEPT !.pc = "final"]) /\ NoEvent
Request(s) ==
  /\ Become(s, [slot[s] EXCEPT !.pc = "llm", !.iter = @ + 1, !.retry = 0])
  /\ Event(slot[s].run, "request")
\* Mutant: the last iteration is one too far.
IterateOnce(s) ==
  /\ AtPc(s, "next")
  /\ (slot[s].iter <= MaxIterations /\ Request(s)) \/ LoopEnds(s)
  /\ UNCHANGED <<hist, Rest>>
\* The head of the loop.
Iterate(s) ==
  /\ AtPc(s, "next")
  /\ (slot[s].iter < MaxIterations /\ Request(s)) \/ LoopEnds(s)
  /\ UNCHANGED <<hist, Rest>>

\* A response without tool calls, or a budget that is spent.
Answer(s) ==
  /\ AtPc(s, "llm")
  /\ Become(s, [slot[s] EXCEPT !.pc = "final"])
  /\ Event(slot[s].run, "response")
  /\ UNCHANGED <<hist, Rest>>

\* absorbSteeringMessages: the response is dropped.
Steered(s) ==
  /\ AtPc(s, "llm") /\ s = "worker"
  /\ hist' = Append(hist, User)
  /\ Become(s, [slot[s] EXCEPT !.pc = "next", !.msgs = Append(@, User)])
  /\ Event(slot[s].run, "steering")
  /\ UNCHANGED Rest

\* The ids of a response are new to the transcripts at hand.
IdsOf(m) == UNION {m[i].ids : i \in DOMAIN m}
FreshIds == CallIds \ (IdsOf(hist) \cup UNION {IdsOf(slot[s].msgs) : s \in Slots})
\* Which new ids a response takes is of no importance: the smallest.
Batches == {B \in (SUBSET FreshIds) \ {{}} : /\ Cardinality(B) <= MaxBatch
                                           /\ \A c \in B, d \in FreshIds \ B : c < d}

\* Mutant: a detected loop leaves its calls without notices.
LoopUnanswered(s) ==
  /\ AtPc(s, "llm") /\ slot[s].iter > 1
  /\ \E B \in Batches :
       Become(s, [slot[s] EXCEPT !.pc = "next", !.msgs = Append(@, Assistant(B))])
  /\ Event(slot[s].run, "response")
  /\ UNCHANGED <<hist, Rest>>

\* handleToolLoop: the calls are answered by a notice and never persisted.
Loop(s) ==
  /\ AtPc(s, "llm") /\ slot[s].iter > 1
  /\ \E B \in Batches :
       Become(s, [slot[s] EXCEPT !.pc = "next",
                                 !.msgs = Append(@, Assistant(B)) \o Results(B)])
  /\ Event(slot[s].run, "response")
  /\ UNCHANGED <<hist, Rest>>

\* appendAssistantToolCallMessage
Calls(s) ==
  /\ AtPc(s, "llm")
  /\ \E B \in Batches :
       /\ hist' = Append(hist, Assistant(B))
       /\ Become(s, [slot[s] EXCEPT !.pc = "tools", !.pending = B,
                                    !.msgs = Append(@, Assistant(B))])
  /\ Event(slot[s].run, "response")
  /\ UNCHANGED Rest

\* applyToolExecutionResults, one result; the batch has run (executeToolCalls).
Apply(s) ==
  /\ AtPc(s, "tools")
  /\ LET c == CHOOSE x \in slot[s].pending : \A y \in slot[s].pending : x <= y
     IN /\ hist' = Append(hist, Result(c))
        /\ Become(s, [slot[s] EXCEPT !.pending = @ \ {c}, !.msgs = Append(@, Result(c)),
                                     !.pc = IF slot[s].pending = {c} THEN "next" ELSE @])
  /\ NoEvent /\ UNCHANGED Rest

\* Mutant: a timeout starts the iteration over and is not counted.
TimeoutUncounted(s) ==
  /\ AtPc(s, "llm") /\ slot[s].retry < MaxRetries
  /\ Become(s, [slot[s] EXCEPT !.pc = "next", !.iter = @ - 1])
  /\ NoEvent /\ UNCHANGED <<hist, Rest>>

\* callLLMWithRetry: a timeout is tried again after a pause.
Timeout(s) ==
  /\ AtPc(s, "llm") /\ slot[s].retry < MaxRetries
  /\ Become(s, [slot[s] EXCEPT !.retry = @ + 1])
  /\ NoEvent /\ UNCHANGED <<hist, Rest>>

\* handleContextWindowRetry up to the summary the model is asked for: what will
\* be kept is cut from the history read now.  Too short a history is left alone.
WindowExceeded(s) ==
  /\ AtPc(s, "llm") /\ slot[s].retry < MaxRetries
  /\ LET h == Sanitize(hist)
     IN IF Len(h) <= MinHistory
        THEN Become(s, [slot[s] EXCEPT !.retry = @ + 1])
        ELSE \E k \in 2 .. Len(h) :
               Become(s, [slot[s] EXCEPT !.pc = "compact", !.retry = @ + 1,
                                         !.kept = SubSeq(h, k, Len(h))])
  /\ NoEvent /\ UNCHANGED <<hist, Rest>>

\* The summary is there: SetHistory, and the messages are built anew.
Compacted(s) ==
  /\ AtPc(s, "compact")
  /\ hist' = slot[s].kept
  /\ Become(s, [slot[s] EXCEPT !.pc = "llm", !.msgs = Sanitize(slot[s].kept), !.kept = <<>>])
  /\ NoEvent /\ UNCHANGED Rest

\* The call, or the summary, fails: recordError.
Fail(s) ==
  /\ slot[s].pc \in {"llm", "compact"}
  /\ Become(s, NoSlot)
  /\ Event(slot[s].run, "error")
  /\ UNCHANGED <<hist, Rest>>

\* finalizeRun: the answer is persisted, then the end is traced.
Finalize(s) ==
  /\ AtPc(s, "final")
  /\ hist' = Append(hist, Assistant({}))
  /\ Become(s, [slot[s] EXCEPT !.pc = "end"])
  /\ NoEvent /\ UNCHANGED Rest

End(s) ==
  /\ AtPc(s, "end")
  /\ Become(s, NoSlot)
  /\ Event(slot[s].run, "end")
  /\ UNCHANGED <<hist, Rest>>

Crash ==
  /\ crashes < MaxCrashes
  /\ crashes' = crashes + 1
  /\ slot' = [s \in Slots |-> NoSlot]
  /\ NoEvent /\ UNCHANGED <<hist, resumes>>

-----------------------------------------------------------------------------
Init ==
  /\ hist = <<>> /\ resumes = 0 /\ crashes = 0
  /\ trace = [r \in Runs |-> [last |-> "none", ended |-> FALSE]]
  /\ later = [r \in Runs |-> {}]
  /\ slot = [s \in Slots |-> NoSlot]

Step(s) ==
  \/ PersistUser(s) \/ Iterate(s) \/ Answer(s) \/ Steered(s) \/ Loop(s) \/ Calls(s)
  \/ Apply(s) \/ Timeout(s) \/ WindowExceeded(s) \/ Compacted(s) \/ Fail(s)
  \/ Finalize(s) \/ End(s)

Next == \/ \E r \in Runs : Begin(r)
        \/ Scan \/ ResumeBegin \/ Crash
        \/ \E s \in Slots : Step(s)

Spec == Init /\ [][Next]_vars
\* A run in progress goes on: the provider answers or fails within its timeout.
FairSpec == Spec /\ WF_vars(ResumeBegin) /\ \A s \in Slots : WF_vars(Step(s))
-----------------------------------------------------------------------------
TypeOK ==
  /\ hist \in Seq(MessageType)
  /\ trace \in [Runs -> [last : {"none", "start", "resume", "request", "response",
                                 "steering", "error", "end"}, ended : BOOLEAN]]
  /\ later \in [Runs -> SUBSET Runs]
  /\ slot \in [Slots ->
       [pc : {"idle", "found", "persist", "next", "llm", "tools", "compact", "final", "end"},
        run : Runs \cup {NoRun}, msgs : Seq(MessageType), iter : 0 .. MaxIterations,
        retry : 0 .. MaxRetries, pending : SUBSET CallIds, kept : Seq(MessageType)]]
  /\ resumes \in 0 .. MaxResumes /\ crashes \in 0 .. MaxCrashes

\* Whatever a run has been through (tools, a detected loop, steering, a history
\* compacted under it, a crash before it), the messages it sends to the model
\* are a transcript a provider accepts, if runs of the session do not overlap
\* (Concurrent is FALSE).
RequestWellFormed ==
  \A s \in Slots : AtPc(s, "llm") => Paired(slot[s].msgs)

\* The session can always be continued: what sanitizeHistoryForProvider makes of
\* a history that crashes and compactions have cut anywhere is a transcript a
\* provider accepts, as long as its runs followed one another.
HistoryUsable == LET h == Sanitize(hist) IN Paired(h) /\ Prompted(h)

\* The same of every history, refuted where runs of the session overlap (Concurrent): a
\* result that answers no pending call is dropped.
OrphansDropped == Paired(Sanitize(hist))

\* Every run ends: with an answer, an error or the last of its iterations.
RunsEnd == \A s \in Slots : slot[s].pc # "idle" ~> slot[s].pc = "idle"
=============================================================================
