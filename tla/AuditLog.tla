------------------------------- MODULE AuditLog -------------------------------
(***************************************************************************)
(* The audit log of a workspace (pkg/auditlog/auditlog.go): a file that is *)
(* renamed when it would exceed its limit, under the second of the         *)
(* renaming, and the pruning of the renamed files.  Events are numbered,   *)
(* of one size; a file is the set of the events in it.                     *)
(***************************************************************************)
EXTENDS Integers, FiniteSets, FiniteSetsExt

CONSTANTS MaxLines,    \* maxBytes, in events
          MaxBackups,  \* maxBackups
          MaxEvents,   \* bound on the events
          MaxTime      \* bound on the seconds

AuditAssumption == {MaxLines, MaxBackups, MaxEvents, MaxTime} \subseteq Nat \ {0}

VARIABLES
  now,
  count,    \* events recorded
  file,     \* audit.jsonl
  backups,  \* backups[t]: the file renamed in second t, {} if there is none
  dropped,  \* history: events that could not be written
  covered   \* history: events of a backup that another took the name of

vars == <<now, count, file, backups, dropped, covered>>
Seconds == 0 .. MaxTime

\* pruneBackupsLocked: the oldest by the time of their last event.
Named(b) == {t \in Seconds : b[t] # {}}
Excess(b) == Cardinality(Named(b)) - MaxBackups
Older(b, t) == {u \in Named(b) : Max(b[u]) < Max(b[t])}
\* Mutant: the newest files go.
PrunedLast(b) ==
  [t \in Seconds |->
     IF b[t] # {} /\ Cardinality(Named(b) \ (Older(b, t) \cup {t})) < Excess(b) THEN {} ELSE b[t]]
Pruned(b) ==
  [t \in Seconds |-> IF b[t] # {} /\ Cardinality(Older(b, t)) < Excess(b) THEN {} ELSE b[t]]

\* rotateLocked
Renamed == [backups EXCEPT ![now] = file]
Full == file # {} /\ Cardinality(file) + 1 > MaxLines

Written(to, event) ==
  \/ file' = to \cup {event} /\ UNCHANGED dropped
  \/ file' = to /\ dropped' = dropped \cup {event}

\* Record, whose renaming and whose write may fail.
Record ==
  /\ count < MaxEvents /\ count' = count + 1
  /\ \/ ~Full /\ Written(file, count + 1) /\ UNCHANGED <<backups, covered>>
     \/ /\ Full /\ Written({}, count + 1)
        /\ backups' = Pruned(Renamed)
        /\ covered' = covered \cup backups[now]
     \/ Full /\ Written(file, count + 1) /\ UNCHANGED <<backups, covered>>
  /\ UNCHANGED now

Tick == now < MaxTime /\ now' = now + 1 /\ UNCHANGED <<count, file, backups, dropped, covered>>
-----------------------------------------------------------------------------
Init ==
  /\ now = 0 /\ count = 0 /\ file = {} /\ dropped = {} /\ covered = {}
  /\ backups = [t \in Seconds |-> {}]

Next == Record \/ Tick
Spec == Init /\ [][Next]_vars
-----------------------------------------------------------------------------
TypeOK ==
  /\ now \in Seconds /\ count \in 0 .. MaxEvents
  /\ {file, dropped, covered} \subseteq SUBSET (1 .. MaxEvents)
  /\ backups \in [Seconds -> SUBSET (1 .. MaxEvents)]

\* The log keeps its latest part: an event that was written is on disk, or older
\* than every event that is, or was in a file whose name the next rotation of the
\* same second took; and no more than MaxBackups old files stay.
AuditTail ==
  LET kept == file \cup UNION {backups[t] : t \in Seconds}
  IN /\ \A e \in 1 .. count : e \in kept \cup dropped \cup covered \/ \A k \in kept : e < k
     /\ Cardinality(Named(backups)) <= MaxBackups
=============================================================================
