---------------------------- MODULE ChatIndicators ----------------------------
(***************************************************************************)
(* What a chat shows while an answer is prepared: typing, and a            *)
(* placeholder that the answer replaces (pkg/channels/manager.go,          *)
(* manager_typing.go, manager_placeholder.go, manager_dispatch.go).  One   *)
(* chat, so each of the manager's maps holds one entry, named for the      *)
(* message it came with.  The channel handles messages concurrently; its   *)
(* worker delivers one answer at a time.  A reaction is undone the way     *)
(* typing is stopped.                                                      *)
(***************************************************************************)
EXTENDS Integers, FiniteSets

CONSTANTS Messages,    \* inbound messages, numbers
          MaxAnswers   \* bound on the answers

None == 0

IndicatorsAssumption == Messages \subseteq Nat \ {None} /\ MaxAnswers \in Nat

VARIABLES
  inbound,      \* pc of BaseChannel.HandleMessage
  typing,       \* the messages whose typing indicator runs
  typingStop,   \* Manager.typingStops
  scheduled,    \* Manager.scheduled
  timer,        \* pc of the goroutine of SchedulePlaceholder
  cancelled,    \* the goroutines whose context is cancelled
  placeholder,  \* Manager.placeholders
  answer,       \* pc of preSend, and the placeholder it took
  answers,      \* the answers delivered
  edits,        \* history: edits[m], the answers that the placeholder of m became
  janitor       \* the entry that evictStaleEntries found expired

vars == <<inbound, typing, typingStop, scheduled, timer, cancelled, placeholder,
          answer, answers, edits, janitor>>
worker == <<answer, answers, edits>>

(***************************************************************************)
(* HandleMessage.                                                          *)
(***************************************************************************)
StartTyping(m) ==
  /\ inbound[m] = "none"
  /\ inbound' = [inbound EXCEPT ![m] = "typing"]
  /\ typing' = typing \cup {m}
  /\ UNCHANGED <<typingStop, scheduled, timer, cancelled, placeholder, worker, janitor>>

\* RecordTypingStop stores over what is there.
RecordTypingStop(m) ==
  /\ inbound[m] = "typing"
  /\ inbound' = [inbound EXCEPT ![m] = "recorded"]
  /\ typingStop' = m
  /\ UNCHANGED <<typing, scheduled, timer, cancelled, placeholder, worker, janitor>>

CancelScheduled ==
  /\ cancelled' = cancelled \cup ({scheduled} \ {None})
  /\ scheduled' = None

\* SchedulePlaceholder cancels the one before it, then stores its own.
Reschedule(m) ==
  /\ inbound[m] = "recorded"
  /\ inbound' = [inbound EXCEPT ![m] = "schedule"]
  /\ CancelScheduled
  /\ UNCHANGED <<typing, typingStop, timer, placeholder, worker, janitor>>

SchedulePlaceholder(m) ==
  /\ inbound[m] = "schedule"
  /\ inbound' = [inbound EXCEPT ![m] = "published"]
  /\ scheduled' = m
  /\ timer' = [timer EXCEPT ![m] = "timer"]
  /\ UNCHANGED <<typing, typingStop, cancelled, placeholder, worker, janitor>>

(***************************************************************************)
(* The goroutine of a scheduled placeholder.                               *)
(***************************************************************************)
Goto(m, pc) == timer' = [timer EXCEPT ![m] = pc]

TimerCancelled(m) ==
  /\ timer[m] = "timer" /\ m \in cancelled
  /\ Goto(m, "clean")
  /\ UNCHANGED <<inbound, typing, typingStop, scheduled, cancelled, placeholder, worker, janitor>>

\* The placeholder is sent, unless the context ends or the platform fails; it is
\* kept only if the context still lives after the send.
SendPlaceholder(m) ==
  /\ timer[m] = "timer" /\ m \notin cancelled
  /\ \E pc \in {"sent", "clean"} : Goto(m, pc)
  /\ UNCHANGED <<inbound, typing, typingStop, scheduled, cancelled, placeholder, worker, janitor>>

CheckSent(m) ==
  /\ timer[m] = "sent"
  /\ Goto(m, IF m \in cancelled THEN "clean" ELSE "keep")
  /\ UNCHANGED <<inbound, typing, typingStop, scheduled, cancelled, placeholder, worker, janitor>>

RecordPlaceholder(m) ==
  /\ timer[m] = "keep"
  /\ placeholder' = m
  /\ Goto(m, "clean")
  /\ UNCHANGED <<inbound, typing, typingStop, scheduled, cancelled, worker, janitor>>

\* The deferred clean-up loads the entry, compares the token, and deletes.
CleanLook(m) ==
  /\ timer[m] = "clean"
  /\ Goto(m, IF scheduled = m THEN "delete" ELSE "done")
  /\ UNCHANGED <<inbound, typing, typingStop, scheduled, cancelled, placeholder, worker, janitor>>

CleanDelete(m) ==
  /\ timer[m] = "delete"
  /\ scheduled' = None
  /\ Goto(m, "done")
  /\ UNCHANGED <<inbound, typing, typingStop, cancelled, placeholder, worker, janitor>>

(***************************************************************************)
(* preSend of an answer, in its order.                                     *)
(***************************************************************************)
PreSend ==
  /\ answer.pc = "idle" /\ answers < MaxAnswers
  /\ \E m \in Messages : inbound[m] = "published"
  /\ CancelScheduled
  /\ answer' = [answer EXCEPT !.pc = "typing"]
  /\ UNCHANGED <<inbound, typing, typingStop, timer, placeholder, answers, edits, janitor>>

StopTyping ==
  /\ answer.pc = "typing"
  /\ typing' = typing \ {typingStop} /\ typingStop' = None
  /\ answer' = [answer EXCEPT !.pc = "placeholder"]
  /\ UNCHANGED <<inbound, scheduled, timer, cancelled, placeholder, answers, edits, janitor>>

\* Mutant: the entry is read and not deleted.
TakeCopy ==
  /\ answer.pc = "placeholder"
  /\ answer' = [pc |-> "edit", taken |-> placeholder]
  /\ UNCHANGED <<inbound, typing, typingStop, scheduled, timer, cancelled, placeholder,
                 answers, edits, janitor>>
TakePlaceholder ==
  /\ answer.pc = "placeholder"
  /\ answer' = [pc |-> "edit", taken |-> placeholder]
  /\ placeholder' = None
  /\ UNCHANGED <<inbound, typing, typingStop, scheduled, timer, cancelled, answers, edits, janitor>>

\* The answer becomes the placeholder's text, or is sent as a message.
Edit ==
  /\ answer.pc = "edit"
  /\ \/ /\ answer.taken # None
        /\ edits' = [edits EXCEPT ![answer.taken] = @ \cup {answers + 1}]
     \/ UNCHANGED edits
  /\ answer' = [pc |-> "idle", taken |-> None]
  /\ answers' = answers + 1
  /\ UNCHANGED <<inbound, typing, typingStop, scheduled, timer, cancelled, placeholder, janitor>>

(***************************************************************************)
(* evictStaleEntries: an entry that has expired is seen, then the entry of *)
(* that moment is deleted, and the one that was seen is stopped.           *)
(***************************************************************************)
EvictLook ==
  /\ janitor = None /\ typingStop # None
  /\ janitor' = typingStop
  /\ UNCHANGED <<inbound, typing, typingStop, scheduled, timer, cancelled, placeholder, worker>>

EvictTyping ==
  /\ janitor # None
  /\ janitor' = None
  /\ typingStop' = None
  /\ typing' = IF typingStop # None THEN typing \ {janitor} ELSE typing
  /\ UNCHANGED <<inbound, scheduled, timer, cancelled, placeholder, worker>>

EvictPlaceholder ==
  /\ placeholder # None
  /\ placeholder' = None
  /\ UNCHANGED <<inbound, typing, typingStop, scheduled, timer, cancelled, worker, janitor>>
-----------------------------------------------------------------------------
Init ==
  /\ inbound = [m \in Messages |-> "none"]
  /\ typing = {} /\ typingStop = None /\ scheduled = None
  /\ timer = [m \in Messages |-> "off"]
  /\ cancelled = {} /\ placeholder = None
  /\ answer = [pc |-> "idle", taken |-> None] /\ answers = 0
  /\ edits = [m \in Messages |-> {}]
  /\ janitor = None

Inbound(m) == StartTyping(m) \/ RecordTypingStop(m) \/ Reschedule(m) \/ SchedulePlaceholder(m)
Timer(m) ==
  \/ TimerCancelled(m) \/ SendPlaceholder(m) \/ CheckSent(m) \/ RecordPlaceholder(m)
  \/ CleanLook(m) \/ CleanDelete(m)
Deliver == PreSend \/ StopTyping \/ TakePlaceholder \/ Edit
Evict == EvictLook \/ EvictTyping
Next == (\E m \in Messages : Inbound(m) \/ Timer(m)) \/ Deliver \/ Evict \/ EvictPlaceholder

Spec == Init /\ [][Next]_vars
\* The handlers of messages run on, and the janitor finds what has expired.
FairSpec == Spec /\ (\A m \in Messages : WF_vars(Inbound(m) /\ inbound[m] # "none")) /\ WF_vars(Evict)
-----------------------------------------------------------------------------
TypeOK ==
  /\ inbound \in [Messages -> {"none", "typing", "recorded", "schedule", "published"}]
  /\ typing \subseteq Messages
  /\ {typingStop, scheduled, placeholder, janitor} \subseteq Messages \cup {None}
  /\ timer \in [Messages -> {"off", "timer", "sent", "keep", "clean", "delete", "done"}]
  /\ cancelled \subseteq Messages
  /\ answer \in [pc : {"idle", "typing", "placeholder", "edit"}, taken : Messages \cup {None}]
  /\ answers \in 0 .. MaxAnswers /\ edits \in [Messages -> SUBSET (1 .. MaxAnswers)]

\* An answer that replaced a placeholder stays: no later answer of the chat edits
\* the same message, however the goroutine that sent the placeholder, the janitor
\* and the worker interleave.
AnswersStay == \A m \in Messages : Cardinality(edits[m]) <= 1

\* Refuted: "Typing stop functions: 5-minute TTL (auto-calls stop and deletes on expiry)"
\* (pkg/channels/README.md:1091): an indicator does not run for ever.
TypingExpires == \A m \in Messages : m \in typing ~> m \notin typing
=============================================================================
