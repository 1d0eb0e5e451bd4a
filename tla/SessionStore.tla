----------------------------- MODULE SessionStore -----------------------------
(***************************************************************************)
(* One conversation of the session store (pkg/session).  A session in      *)
(* memory is the replay of one branch of a tree of events, which a         *)
(* <key>.jsonl file holds in the order they were appended; <key>.meta.json *)
(* names the branch, by its leaf, and the model override.                  *)
(*                                                                         *)
(* Every edit holds sm.mu from the change in memory to the write of the    *)
(* meta file.  Save and the model overrides build the meta under the lock  *)
(* and write it after; SwitchLeaf reads the file before it takes the lock. *)
(*                                                                         *)
(* An event's id is its position in the file, 0 is no event.  Other        *)
(* conversations appear only as the eviction of this one.                  *)
(***************************************************************************)
EXTENDS Naturals, Sequences, FiniteSets, TLC

CONSTANTS
  Message, Summary, NoSummary,
  NoSession, NoMeta, NoSwitch,
  MaxEvents,   \* bound: events in the file, messages in memory
  MaxCount,    \* bound: compactions
  MaxInFlight, \* bound: calls that work outside sm.mu at a time
  MaxFaults    \* bound: appends and writes of the meta file that fail

\* What a session shows, a session, and what the meta file says of it.
Views == [messages : Seq(Message), summary : Summary \cup {NoSummary},
          count : 0..MaxCount, flushed : 0..MaxCount]
Sessions == [view : Views, leaf : 0..MaxEvents, override : BOOLEAN]
Metas == [leaf : 0..MaxEvents, override : BOOLEAN]

ASSUME SessionAssumption ==
  /\ MaxEvents \in Nat /\ MaxCount \in Nat
  /\ MaxInFlight \in Nat /\ MaxFaults \in Nat
  /\ NoSession \notin Sessions

\* Messages are interchangeable.
Symmetry == Permutations(Message)

VARIABLES
  session,  \* sm.sessions[key]
  log,      \* the events of <key>.jsonl
  intact,   \* no line of <key>.jsonl is torn
  meta,     \* <key>.meta.json
  writing,  \* an edit holds sm.mu and is about to write the meta file
  pending,  \* the metas built by Save and the overrides, not yet written
  switch,   \* the branch SwitchLeaf has replayed, not yet put in place
  faults    \* appends and meta writes that have failed

vars == <<session, log, intact, meta, writing, pending, switch, faults>>

Blank == [messages |-> <<>>, summary |-> NoSummary, count |-> 0, flushed |-> 0]
Fresh == [view |-> Blank, leaf |-> 0, override |-> FALSE]

Init ==
  /\ session = NoSession
  /\ log = <<>> /\ intact = TRUE
  /\ meta = NoMeta
  /\ writing = FALSE
  /\ pending = {}
  /\ switch = NoSwitch
  /\ faults = 0

Fault == faults < MaxFaults /\ faults' = faults + 1

-----------------------------------------------------------------------------
(* Replay.                                                                  *)

KeepLast(s, n) == SubSeq(s, Len(s) - n + 1, Len(s))

\* replayEvents, its switch: an absent payload (an empty history, a flush at
\* compaction 0) leaves the session as it was.
Replayed(v, e) ==
  CASE e.type = "message" -> [v EXCEPT !.messages = Append(@, e.message)]
    [] e.type = "summary" -> [v EXCEPT !.summary = e.summary]
    [] e.type = "history" -> IF e.history = <<>> THEN v
                             ELSE [v EXCEPT !.messages = e.history]
    [] e.type = "truncate" ->
         IF e.keep = 0 THEN [v EXCEPT !.messages = <<>>]
         ELSE IF Len(v.messages) > e.keep
              THEN [v EXCEPT !.messages = KeepLast(@, e.keep)] ELSE v
    [] e.type = "compaction" -> [v EXCEPT !.count = IF e.count > @ THEN e.count ELSE @]
    [] e.type = "flush" -> IF e.flushed = 0 THEN v ELSE [v EXCEPT !.flushed = e.flushed]

\* replayEvents along the branch of each event, collectPathIDs.
Replay[i \in Nat] ==
  IF i \in DOMAIN log THEN Replayed(Replay[log[i].parent], log[i]) ELSE Blank

\* resolveLeafID: the leaf the meta file names, or the last event.
LeafOf(hint) == IF hint \in DOMAIN log THEN hint ELSE Len(log)

\* loadSessions: no events file, or one that cannot be read, is no session.
Loaded ==
  IF log = <<>> \/ ~intact THEN NoSession
  ELSE LET leaf == LeafOf(IF meta = NoMeta THEN 0 ELSE meta.leaf)
       IN [view |-> Replay[leaf], leaf |-> leaf,
           override |-> meta # NoMeta /\ meta.override]

-----------------------------------------------------------------------------
(* Edits.                                                                   *)

InFlight == Cardinality(pending) + (IF switch = NoSwitch THEN 0 ELSE 1)

MetaOf(s) == [leaf |-> s.leaf, override |-> s.override]

\* Mutant: the leaf moves although the event is not in the file.
RecordMoved(s, view, event) ==
  /\ ~writing /\ Len(log) < MaxEvents
  /\ writing' = TRUE
  /\ session' = [s EXCEPT !.view = view, !.leaf = Len(log) + 1]
  /\ \/ log' = Append(log, event) /\ UNCHANGED <<intact, faults>>
     \/ Fault /\ UNCHANGED log /\ intact' \in {intact, FALSE}
  /\ UNCHANGED <<meta, pending, switch>>

\* persistEventAndMetaLocked, its first half: an append that fails leaves
\* nothing, part of a line or the whole line, and is not reported.  A line that lacks
\* its newline only, which the next append would join, is left out.
Record(s, view, event) ==
  /\ ~writing /\ Len(log) < MaxEvents
  /\ writing' = TRUE
  /\ \/ /\ log' = Append(log, event)
        /\ session' = [s EXCEPT !.view = view, !.leaf = Len(log) + 1]
        /\ UNCHANGED <<intact, faults>>
     \/ /\ Fault
        /\ session' = [s EXCEPT !.view = view]
        /\ \/ log' \in {log, Append(log, event)} /\ UNCHANGED intact
           \/ UNCHANGED log /\ intact' = FALSE
  /\ UNCHANGED <<meta, pending, switch>>

\* A session that is not in memory starts anew, with no parent.
AddFullMessage(m) ==
  LET s == IF session = NoSession THEN Fresh ELSE session
  IN /\ Len(s.view.messages) < MaxEvents
     /\ Record(s, [s.view EXCEPT !.messages = Append(@, m)],
               [type |-> "message", parent |-> s.leaf, message |-> m])

SetSummary(s) ==
  /\ session # NoSession
  /\ Record(session, [session.view EXCEPT !.summary = s],
            [type |-> "summary", parent |-> session.leaf, summary |-> s])

SetHistory(h) ==
  /\ session # NoSession
  /\ Record(session, [session.view EXCEPT !.messages = h],
            [type |-> "history", parent |-> session.leaf, history |-> h])

TruncateHistory(n) ==
  /\ session # NoSession
  /\ n = 0 \/ Len(session.view.messages) > n
  /\ Record(session, [session.view EXCEPT !.messages = KeepLast(@, n)],
            [type |-> "truncate", parent |-> session.leaf, keep |-> n])

IncrementCompactionCount ==
  /\ session # NoSession
  /\ LET count == session.view.count + 1
     IN /\ count <= MaxCount
        /\ Record(session, [session.view EXCEPT !.count = count],
                  [type |-> "compaction", parent |-> session.leaf, count |-> count])

MarkMemoryFlush(count) ==
  /\ session # NoSession
  /\ Record(session, [session.view EXCEPT !.flushed = count],
            [type |-> "flush", parent |-> session.leaf, flushed |-> count])

\* writeMetaFile replaces the file atomically; callers only log its error.
WriteTo(m) == \/ meta' = m /\ UNCHANGED faults
              \/ Fault /\ UNCHANGED meta

\* The second half, before sm.mu is released.
PersistMeta ==
  /\ writing
  /\ writing' = FALSE
  /\ WriteTo(MetaOf(session))
  /\ UNCHANGED <<session, log, intact, pending, switch>>

-----------------------------------------------------------------------------
(* Meta files written after sm.mu is released.                              *)

Build(s) ==
  /\ ~writing /\ InFlight < MaxInFlight
  /\ session' = s
  /\ pending' = pending \cup {MetaOf(s)}
  /\ UNCHANGED <<log, intact, meta, writing, switch, faults>>

Save == session # NoSession /\ Build(session)

SetModelOverride ==
  Build([(IF session = NoSession THEN Fresh ELSE session) EXCEPT !.override = TRUE])

ClearModelOverride ==
  session # NoSession /\ Build([session EXCEPT !.override = FALSE])

\* EffectiveModelOverride of an override that has expired.
ExpireModelOverride ==
  /\ session # NoSession /\ session.override
  /\ Build([session EXCEPT !.override = FALSE])

WriteMeta(m) ==
  /\ m \in pending
  /\ pending' = pending \ {m}
  /\ WriteTo(m)
  /\ UNCHANGED <<session, log, intact, writing, switch>>

-----------------------------------------------------------------------------
(* The tree, eviction and restarts.                                         *)

\* Mutant: an id that is not in the file is not refused.
ReadBranchUnchecked(leaf) ==
  /\ intact /\ switch = NoSwitch /\ InFlight < MaxInFlight
  /\ switch' = [leaf |-> leaf, view |-> Replay[leaf]]
  /\ UNCHANGED <<session, log, intact, meta, writing, pending, faults>>

\* SwitchLeaf, its first half: sm.mu is not held.
ReadBranch(leaf) ==
  /\ intact /\ switch = NoSwitch /\ InFlight < MaxInFlight
  /\ leaf \in DOMAIN log
  /\ switch' = [leaf |-> leaf, view |-> Replay[leaf]]
  /\ UNCHANGED <<session, log, intact, meta, writing, pending, faults>>

\* Mutant: the next message still follows the leaf that was left.
SwitchLeafBehind ==
  /\ switch # NoSwitch /\ ~writing
  /\ switch' = NoSwitch
  /\ \/ session = NoSession /\ UNCHANGED <<session, writing>>
     \/ /\ session # NoSession
        /\ session' = [session EXCEPT !.view = switch.view]
        /\ writing' = TRUE
  /\ UNCHANGED <<log, intact, meta, pending, faults>>

\* Its second half, under sm.mu: memory takes the branch as it was read.
SwitchLeaf ==
  /\ switch # NoSwitch /\ ~writing
  /\ switch' = NoSwitch
  /\ \/ session = NoSession /\ UNCHANGED <<session, writing>>
     \/ /\ session # NoSession
        /\ session' = [session EXCEPT !.view = switch.view, !.leaf = switch.leaf]
        /\ writing' = TRUE
  /\ UNCHANGED <<log, intact, meta, pending, faults>>

GetOrCreate ==
  /\ session = NoSession /\ ~writing
  /\ session' = Fresh
  /\ UNCHANGED <<log, intact, meta, writing, pending, switch, faults>>

\* pruneSessionsLocked, when another conversation is created: the session has
\* expired or is the least recently updated.  Its files stay.
Evict ==
  /\ session # NoSession /\ ~writing
  /\ session' = NoSession
  /\ UNCHANGED <<log, intact, meta, writing, pending, switch, faults>>

\* The process ends or is killed; NewSessionManager loads and prunes.
Restart ==
  /\ session' \in {Loaded, NoSession}
  /\ writing' = FALSE /\ pending' = {} /\ switch' = NoSwitch
  /\ UNCHANGED <<log, intact, meta, faults>>

-----------------------------------------------------------------------------
\* SetHistory is only called with a tail of an earlier history, never empty.
Histories ==
  UNION {LET h == Replay[i].messages IN {KeepLast(h, n) : n \in 1..Len(h)} : i \in DOMAIN log}

Next ==
  \/ \E m \in Message : AddFullMessage(m)
  \/ \E s \in Summary : SetSummary(s)
  \/ \E h \in Histories : SetHistory(h)
  \/ \E n \in 0..MaxEvents : TruncateHistory(n)
  \/ IncrementCompactionCount
  \/ \E c \in 1..MaxCount : MarkMemoryFlush(c)
  \/ PersistMeta
  \/ Save \/ SetModelOverride \/ ClearModelOverride \/ ExpireModelOverride
  \/ \E m \in pending : WriteMeta(m)
  \/ \E i \in 1..MaxEvents : ReadBranch(i)
  \/ SwitchLeaf \/ GetOrCreate \/ Evict \/ Restart

Spec == Init /\ [][Next]_vars

-----------------------------------------------------------------------------
(* Properties.                                                              *)

TypeOK ==
  /\ session \in Sessions \cup {NoSession}
  /\ Len(log) <= MaxEvents /\ intact \in BOOLEAN /\ faults \in 0..MaxFaults
  /\ meta \in Metas \cup {NoMeta}
  /\ pending \subseteq Metas
  /\ writing \in BOOLEAN /\ (writing => session # NoSession)
  /\ switch # NoSwitch => switch.leaf \in DOMAIN log /\ switch.view \in Views

\* Every leaf that memory, the meta file or a meta still to be written names is
\* in the file, and so is all of its branch, each parent before its children:
\* whatever fails, no replay is cut short by a missing or cyclic parent
\* (manager_mutations.go:163-173, tree.go:221-244).
BranchIsWhole ==
  /\ session # NoSession => session.leaf \in 0..Len(log)
  /\ meta # NoMeta => meta.leaf \in 0..Len(log)
  /\ \A m \in pending : m.leaf \in 0..Len(log)
  /\ switch # NoSwitch => switch.leaf \in 0..Len(log)
  /\ \A i \in DOMAIN log : log[i].parent \in 0..(i - 1)

\* ports/session_store.go:10, the store is the "durable conversation state
\* surface": once an edit has returned, a restart gives the session back.
Durable ==
  session # NoSession /\ ~writing /\ session.leaf # 0 => Loaded.view = session.view

C == INSTANCE Conversation WITH
       now <- IF session = NoSession THEN Blank ELSE session.view,
       saved <- IF session = NoSession THEN Blank ELSE Replay[session.leaf],
       past <- {Replay[i] : i \in DOMAIN log}

\* A switch, an eviction or a restart brings back exactly a state the
\* conversation had, and as long as no append fails memory is the replay of its
\* branch, whatever is appended while a branch is read (tree.go:114-181).
RefinesConversation == C!Spec

=============================================================================
