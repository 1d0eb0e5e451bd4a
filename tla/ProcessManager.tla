---------------------------- MODULE ProcessManager ----------------------------
(***************************************************************************)
(* Managed commands of the exec tool (pkg/tools/shell_managed.go) and the  *)
(* process tool that polls, kills and removes their sessions               *)
(* (shell_session.go, shell_session_ops.go).  Output is a sequence of      *)
(* chunks, numbered as the command writes them.                            *)
(***************************************************************************)
EXTENDS Integers, Sequences, FiniteSets

CONSTANTS Ids,            \* sessions, 1..n in the order of nextID
          MaxChunks,      \* bound on the chunks a command writes
          MaxPending,     \* maxPendingChars
          MaxSessions,    \* maxSessions
          Pollers,        \* who polls: calls of "exec" with yield_ms, calls of "tool"
          PolicyTimeout   \* tools.policy.timeout_ms is set

ProcessAssumption ==
    /\ IsFiniteSet(Ids) /\ Ids = 1 .. Cardinality(Ids)
    /\ MaxChunks \in Nat /\ {MaxPending, MaxSessions} \subseteq Nat \ {0}
    /\ Pollers \subseteq {"exec", "tool"} /\ PolicyTimeout \in BOOLEAN

NoId == 0

VARIABLES
  sess,      \* the sessions and their commands
  reg,       \* ProcessManager.sessions
  ended,     \* ids in the order of UpdatedAt, for those that have ended
  exec,      \* exec[i]: the call of the exec tool that started i
  poll,      \* polls in progress
  removing,  \* Clear and Remove between their two locks
  killing,   \* Kill after its unlock
  given      \* history: how many polls took each chunk of a session

vars == <<sess, reg, ended, exec, poll, removing, killing, given>>
Calls == <<exec, poll, removing, killing, given>>

NoSession == [status |-> "none", alive |-> FALSE, ctx |-> "live", kill |-> FALSE,
              watch |-> "off", written |-> 0, read |-> 0, closed |-> FALSE,
              pending |-> {}, cut |-> {}, notify |-> FALSE]
Terminal(i) == sess[i].status \notin {"none", "running"}
Chunks == 1 .. MaxChunks

(***************************************************************************)
(* pruneTerminalSessionsLocked: the oldest ended sessions go, while there  *)
(* are too many sessions.                                                  *)
(***************************************************************************)
Victims(in, keep) == {i \in in : i # keep /\ Terminal(i)}
Pruned(in, keep) ==
  LET excess == Cardinality(in) - MaxSessions
      age(i) == IF Terminal(i) THEN CHOOSE k \in DOMAIN ended : ended[k] = i ELSE 0
      old == {i \in Victims(in, keep) :
                Cardinality({j \in Victims(in, keep) : age(j) < age(i)}) < excess}
  IN in \ old

(***************************************************************************)
(* executeManaged                                                          *)
(***************************************************************************)
\* A call in the background returns at once, one with yield_ms polls first.  When
\* a call returns under a policy with a time limit, its context ends.
CtxAfter(ctx) == IF PolicyTimeout /\ ctx = "live" THEN "cancelled" ELSE ctx

Start(i) ==
  /\ sess[i].status = "none" /\ \A j \in Ids : j < i => sess[j].status # "none"
  /\ reg' = Pruned(reg \cup {i}, i)
  /\ \E how \in {"returned"} \cup {"yield" : p \in Pollers \cap {"exec"}} :
       /\ exec' = [exec EXCEPT ![i] = how]
       /\ sess' = [sess EXCEPT ![i] =
                     [NoSession EXCEPT !.status = "running", !.alive = TRUE, !.watch = "wait",
                                       !.ctx = IF how = "yield" THEN @ ELSE CtxAfter(@)]]
  /\ UNCHANGED <<ended, poll, removing, killing, given>>

Yield(i) ==
  /\ exec[i] = "yield" /\ poll["exec"].pc = "idle"
  /\ exec' = [exec EXCEPT ![i] = "polling"]
  /\ poll' = [poll EXCEPT !["exec"] = [pc |-> "drain", id |-> i, wait |-> TRUE]]
  /\ UNCHANGED <<sess, reg, ended, removing, killing, given>>

Return(i) ==
  /\ exec[i] = "polling" /\ poll["exec"].pc = "idle"
  /\ exec' = [exec EXCEPT ![i] = "returned"]
  /\ sess' = [sess EXCEPT ![i].ctx = CtxAfter(@)]
  /\ UNCHANGED <<reg, ended, poll, removing, killing, given>>

(***************************************************************************)
(* The command and watchManagedCommand.                                    *)
(***************************************************************************)
Others == <<reg, ended, Calls>>

Write(i) ==
  /\ sess[i].alive /\ sess[i].written < MaxChunks
  /\ sess' = [sess EXCEPT ![i].written = @ + 1]
  /\ UNCHANGED Others

\* The command ends by itself.
Ends(i) ==
  /\ sess[i].alive
  /\ sess' = [sess EXCEPT ![i].alive = FALSE]
  /\ UNCHANGED Others

Deadline(i) ==
  /\ sess[i].alive /\ sess[i].ctx = "live"
  /\ sess' = [sess EXCEPT ![i].ctx = "deadline"]
  /\ UNCHANGED Others

\* The goroutine that waits for the context terminates the process tree.
Terminate(i) ==
  /\ sess[i].alive /\ sess[i].ctx # "live"
  /\ sess' = [sess EXCEPT ![i].alive = FALSE]
  /\ UNCHANGED Others

\* appendWithCap: the last MaxPending are kept.
Latest(S) == {c \in S : Cardinality({d \in S : d > c}) < MaxPending}

\* streamManagedOutput and AppendOutput of one chunk.
Read(i) ==
  /\ sess[i].read < sess[i].written /\ ~sess[i].closed
  /\ LET all == sess[i].pending \cup {sess[i].read + 1}
     IN sess' = [sess EXCEPT ![i].read = @ + 1, ![i].pending = Latest(all),
                             ![i].cut = @ \cup (all \ Latest(all)), ![i].notify = TRUE]
  /\ UNCHANGED Others

\* cmd.Wait returns: it has closed the pipes, whatever is left in them.
WaitReturns(i) ==
  /\ sess[i].watch = "wait" /\ ~sess[i].alive
  /\ sess' = [sess EXCEPT ![i].watch = "mark", ![i].closed = TRUE]
  /\ UNCHANGED Others

\* MarkExited, its first critical section.
MarkExited(i) ==
  /\ sess[i].watch = "mark"
  /\ \E status \in (IF sess[i].ctx = "deadline" THEN {"timeout"}
                    ELSE IF sess[i].kill THEN {"killed"} ELSE {"failed", "completed"}) :
       sess' = [sess EXCEPT ![i].watch = "prune", ![i].status = status, ![i].notify = TRUE,
                            ![i].ctx = IF @ = "live" THEN "cancelled" ELSE @]
  /\ ended' = Append(ended, i)
  /\ UNCHANGED <<reg, Calls>>

\* Mutant: only StartSession prunes.
PruneLater(i) ==
  /\ sess[i].watch = "prune"
  /\ sess' = [sess EXCEPT ![i].watch = "done"]
  /\ UNCHANGED Others

Prune(i) ==
  /\ sess[i].watch = "prune"
  /\ reg' = Pruned(reg, i)
  /\ sess' = [sess EXCEPT ![i].watch = "done"]
  /\ UNCHANGED <<ended, Calls>>

(***************************************************************************)
(* The process tool.                                                       *)
(***************************************************************************)
Poll(i) ==
  /\ i \in reg /\ "tool" \in Pollers /\ poll["tool"].pc = "idle"
  /\ \E wait \in BOOLEAN : poll' = [poll EXCEPT !["tool"] = [pc |-> "drain", id |-> i, wait |-> wait]]
  /\ UNCHANGED <<sess, reg, ended, exec, removing, killing, given>>

NoPoll == [pc |-> "idle", id |-> NoId, wait |-> FALSE]

Taken(i) == [given EXCEPT ![i] = [c \in Chunks |-> @[c] + IF c \in sess[i].pending THEN 1 ELSE 0]]

\* Mutant: the pending output is read and not cleared.
DrainKept(p) ==
  /\ poll[p].pc = "drain"
  /\ LET i == poll[p].id
         done == sess[i].pending # {} \/ Terminal(i) \/ ~poll[p].wait
     IN /\ given' = Taken(i)
        /\ poll' = [poll EXCEPT ![p] = IF done THEN NoPoll ELSE [@ EXCEPT !.pc = "wait"]]
  /\ UNCHANGED <<sess, reg, ended, exec, removing, killing>>
\* drainPending, and the checks after it.
Drain(p) ==
  /\ poll[p].pc = "drain"
  /\ LET i == poll[p].id
         done == sess[i].pending # {} \/ Terminal(i) \/ ~poll[p].wait
     IN /\ given' = Taken(i)
        /\ sess' = [sess EXCEPT ![i].pending = {}]
        /\ poll' = [poll EXCEPT ![p] = IF done THEN NoPoll ELSE [@ EXCEPT !.pc = "wait"]]
  /\ UNCHANGED <<reg, ended, exec, removing, killing>>

\* The select: a notification, or the timeout.
Wake(p) ==
  /\ poll[p].pc = "wait"
  /\ \/ /\ sess[poll[p].id].notify
        /\ sess' = [sess EXCEPT ![poll[p].id].notify = FALSE]
        /\ poll' = [poll EXCEPT ![p].pc = "drain"]
     \/ poll' = [poll EXCEPT ![p] = NoPoll] /\ UNCHANGED sess
  /\ UNCHANGED <<reg, ended, exec, removing, killing, given>>

\* Kill up to its unlock; the context and the process tree come after it.
Kill(i) ==
  /\ i \in reg /\ sess[i].status = "running" /\ i \notin killing
  /\ sess' = [sess EXCEPT ![i].kill = TRUE]
  /\ killing' = killing \cup {i}
  /\ UNCHANGED <<reg, ended, exec, poll, removing, given>>

\* Mutant: the context is left to the deadline.
KillMarked(i) == i \in killing /\ killing' = killing \ {i} /\ UNCHANGED <<sess, reg, ended, exec, poll, removing, given>>
KillTree(i) ==
  /\ i \in killing
  /\ killing' = killing \ {i}
  /\ sess' = [sess EXCEPT ![i].ctx = IF @ = "live" THEN "cancelled" ELSE @, ![i].alive = FALSE]
  /\ UNCHANGED <<reg, ended, exec, poll, removing, given>>

\* Clear, or Remove of a session that has ended: the status is read under one
\* lock, the session deleted under another.
RemoveLook(i) ==
  /\ i \in reg \ removing /\ Terminal(i)
  /\ removing' = removing \cup {i}
  /\ UNCHANGED <<sess, reg, ended, exec, poll, killing, given>>

RemoveDelete(i) ==
  /\ i \in removing
  /\ removing' = removing \ {i} /\ reg' = reg \ {i}
  /\ UNCHANGED <<sess, ended, exec, poll, killing, given>>
-----------------------------------------------------------------------------
Init ==
  /\ sess = [i \in Ids |-> NoSession]
  /\ reg = {} /\ ended = <<>>
  /\ exec = [i \in Ids |-> "none"]
  /\ poll = [p \in Pollers |-> NoPoll]
  /\ removing = {} /\ killing = {}
  /\ given = [i \in Ids |-> [c \in Chunks |-> 0]]

Watch(i) == Terminate(i) \/ WaitReturns(i) \/ MarkExited(i) \/ Prune(i)
Polling(p) == Drain(p) \/ Wake(p)

Next ==
  \/ \E i \in Ids :
       \/ Start(i) \/ Yield(i) \/ Return(i) \/ Write(i) \/ Ends(i) \/ Deadline(i)
       \/ Read(i) \/ Watch(i) \/ Poll(i) \/ Kill(i) \/ KillTree(i)
       \/ RemoveLook(i) \/ RemoveDelete(i)
  \/ \E p \in Pollers : Polling(p)

Spec == Init /\ [][Next]_vars
\* The goroutines of the manager run; a command need not end by itself.
FairSpec ==
  /\ Spec
  /\ \A i \in Ids : WF_vars(Watch(i)) /\ WF_vars(KillTree(i))
-----------------------------------------------------------------------------
TypeOK ==
  /\ sess \in [Ids ->
       [status : {"none", "running", "completed", "failed", "killed", "timeout"},
        alive : BOOLEAN, ctx : {"live", "cancelled", "deadline"}, kill : BOOLEAN,
        watch : {"off", "wait", "mark", "prune", "done"}, written : 0 .. MaxChunks,
        read : 0 .. MaxChunks, closed : BOOLEAN, pending : SUBSET Chunks,
        cut : SUBSET Chunks, notify : BOOLEAN]]
  /\ reg \subseteq Ids /\ removing \subseteq Ids /\ killing \subseteq Ids
  /\ ended \in Seq(Ids)
  /\ exec \in [Ids -> {"none", "yield", "polling", "returned"}]
  /\ poll \in [Pollers -> [pc : {"idle", "drain", "wait"}, id : Ids \cup {NoId}, wait : BOOLEAN]]
  /\ given \in [Ids -> [Chunks -> Nat]]

\* What was read of a command is pending, was cut by the cap, or went to exactly
\* one poll: two polls of a session, one of the exec call and one of the process
\* tool, never share a chunk and lose none between them.
OutputOnce ==
  \A i \in Ids : \A c \in 1 .. sess[i].read :
    LET places == {w \in {"pending", "cut"} : c \in sess[i][w]}
    IN given[i][c] + Cardinality(places) = 1

\* A session leaves the manager only after its command has ended, whichever of
\* Clear, Remove and the pruning of another session takes it, and when; and the
\* manager holds more than MaxSessions sessions only while all of them run, but
\* one that was the last to end, and those whose end is being recorded.
Retention ==
  /\ \A i \in Ids : sess[i].status = "running" => i \in reg
  /\ Cardinality(reg) > MaxSessions =>
       Cardinality({i \in reg : Terminal(i) /\ sess[i].watch = "done"}) <= 1

\* A session that is killed ends.
KillEnds == \A i \in Ids : sess[i].kill ~> Terminal(i)
=============================================================================
