------------------------------ MODULE JsonlStore ------------------------------
(***************************************************************************)
(* The two files of a session in the append-only store of                  *)
(* pkg/memory/jsonl.go: a line for every message, and the metadata with    *)
(* the number of lines that are skipped.  An operation holds the session's *)
(* lock; its writes are steps, and the process can crash between any two   *)
(* and in the middle of an append.                                         *)
(***************************************************************************)
EXTENDS Integers, Sequences, FiniteSets

CONSTANTS Messages,   \* names of messages, each added once
          MaxLines,   \* bound on the lines of the file
          MaxCrashes  \* bound on the crashes

Corrupt == "corrupt"

JsonlAssumption == Corrupt \notin Messages /\ {MaxLines, MaxCrashes} \subseteq Nat

VARIABLES
  lines,    \* the lines of the .jsonl file
  torn,     \* the last line is a part of one, without its newline
  meta,     \* the .meta.json file: skip and count
  op,       \* the operation that holds the lock, and what it has still to write
  must,     \* history: the messages that completed operations keep
  crashes, tears  \* the crashes, and those in the middle of an append

vars == <<lines, torn, meta, op, must, crashes, tears>>
hist == <<must, crashes, tears>>

NoOp == [kind |-> "none", data |-> <<>>]
Contents(s) == {s[i] : i \in DOMAIN s}
Valid(s) == SelectSeq(s, LAMBDA l : l # Corrupt)
Last(s, n) == SubSeq(s, IF Len(s) > n THEN Len(s) - n + 1 ELSE 1, Len(s))

\* readMessages of GetHistory: the lines after the skipped ones, without those
\* that do not parse.
GetHistory == Valid(SubSeq(lines, meta.skip + 1, Len(lines)))

Fresh == Messages \ (Contents(lines) \cup must \cup Contents(op.data))

(***************************************************************************)
(* AddMessage and AddFullMessage.                                          *)
(***************************************************************************)
\* The append; behind a torn line it makes one line with it, which does not parse.
Add(m) ==
  /\ op = NoOp /\ m \in Fresh /\ Len(lines) < MaxLines
  /\ lines' = IF torn THEN lines ELSE Append(lines, m)
  /\ torn' = FALSE
  /\ op' = [kind |-> "add", data |-> <<m>>]
  /\ UNCHANGED <<meta, hist>>

\* The update of the metadata, and the return.
AddMeta ==
  /\ op.kind = "add"
  /\ meta' = [meta EXCEPT !.count = @ + 1]
  /\ must' = must \cup Contents(op.data)
  /\ op' = NoOp
  /\ UNCHANGED <<lines, torn, crashes, tears>>

(***************************************************************************)
(* TruncateHistory counts the lines again, those that do not parse too.    *)
(***************************************************************************)
Truncate(keepLast) ==
  LET n == Len(lines)
      skip == IF keepLast <= 0 THEN n
              ELSE IF keepLast < n - meta.skip THEN n - keepLast ELSE meta.skip
  IN /\ op = NoOp
     /\ meta' = [count |-> n, skip |-> skip]
     /\ must' = must \cap Contents(Last(GetHistory, keepLast))
     /\ UNCHANGED <<lines, torn, op, crashes, tears>>

(***************************************************************************)
(* SetHistory and Compact write the metadata and then the file.            *)
(***************************************************************************)
\* Mutant: the metadata goes on to skip the lines that the file has no more.
RewritingStale(history) ==
  /\ op = NoOp
  /\ op' = [kind |-> "rewrite", data |-> history]
  /\ UNCHANGED <<lines, torn, meta, hist>>
Rewriting(history) ==
  /\ op = NoOp
  /\ meta' = [count |-> Len(history), skip |-> 0]
  /\ op' = [kind |-> "rewrite", data |-> history]
  /\ UNCHANGED <<lines, torn, hist>>

SetHistory(history) == Rewriting(history)
Compact == meta.skip > 0 /\ Rewriting(GetHistory)

\* rewriteJSONL replaces the file at once.
Rewrite ==
  /\ op.kind = "rewrite"
  /\ lines' = op.data /\ torn' = FALSE
  /\ must' = Contents(op.data)
  /\ op' = NoOp
  /\ UNCHANGED <<meta, crashes, tears>>

(***************************************************************************)
(* A crash, and one in the middle of an append.                            *)
(***************************************************************************)
Crash ==
  /\ crashes < MaxCrashes /\ op # NoOp
  /\ crashes' = crashes + 1 /\ op' = NoOp
  /\ UNCHANGED <<lines, torn, meta, must, tears>>

Tear ==
  /\ crashes < MaxCrashes /\ op = NoOp /\ Len(lines) < MaxLines
  /\ lines' = IF torn THEN lines ELSE Append(lines, Corrupt)
  /\ torn' = TRUE
  /\ crashes' = crashes + 1 /\ tears' = tears + 1
  /\ UNCHANGED <<meta, op, must>>
-----------------------------------------------------------------------------
Init ==
  /\ lines = <<>> /\ torn = FALSE
  /\ meta = [skip |-> 0, count |-> 0]
  /\ op = NoOp /\ must = {} /\ crashes = 0 /\ tears = 0

Next ==
  \/ \E m \in Messages : Add(m)
  \/ AddMeta \/ Rewrite \/ Compact \/ Crash \/ Tear
  \/ \E n \in 0 .. 2 : Truncate(n)
  \/ \E m \in Fresh : SetHistory(<<m>>) \/ SetHistory(Last(GetHistory, 1) \o <<m>>)

Spec == Init /\ [][Next]_vars
-----------------------------------------------------------------------------
TypeOK ==
  /\ lines \in Seq(Messages \cup {Corrupt}) /\ Len(lines) <= MaxLines
  /\ torn \in BOOLEAN
  /\ meta \in [skip : Nat, count : Nat]
  /\ op \in [kind : {"none", "add", "rewrite"}, data : Seq(Messages)]
  /\ must \subseteq Messages /\ crashes \in 0 .. MaxCrashes /\ tears \in 0 .. crashes

\* "returning 'too many' messages rather than losing data" (jsonl.go:386): whatever
\* the crashes, a message that a completed operation keeps is returned, but for two
\* of each torn append: it takes the line after it along, and a place when the
\* history is truncated.
KeptAreReturned == Cardinality(must \ Contents(GetHistory)) <= 2 * tears
=============================================================================
