------------------------------- MODULE ToolBatch -------------------------------
(***************************************************************************)
(* ExecuteToolCalls (pkg/tools/toolcall_executor.go): the calls of one     *)
(* response run in their order, those that may run in parallel in batches  *)
(* of at most MaxConcurrency; each passes by the emergency stop, plan mode *)
(* and the tool policy (toolcall_policy.go) first, as far as the caller    *)
(* gives them: the agent loop gives none of the three.  Hooks are left out.*)
(***************************************************************************)
EXTENDS Integers, Sequences, FiniteSets

CONSTANTS Calls,           \* sequence of the names of the tools called
          Safe,            \* tools whose instance may run in parallel
          ReadOnly,        \* tools that only read
          Serial, Forced,  \* tools with the overrides serial_only and parallel_read_only
          Modes,           \* "all", "read_only_only" or another word: parallel_tools_mode
          MaxConcurrency,  \* Parallel.MaxConcurrency
          Frozen,          \* tools that the emergency stop may freeze
          Restricted,      \* plan mode's restricted tools
          Denied,          \* tools the policy denies, or does not list as allowed
          FailClosed,      \* Estop.FailClosed
          Confirmed        \* tools the policy wants confirmed on a resume

\* A limit of 0 is no limit; ExecuteToolCalls returns at once for no calls.
BatchAssumption == Calls \in Seq(STRING) \ {<<>>} /\ MaxConcurrency \in Nat

Index == DOMAIN Calls
EstopStates == {"off", "frozen", "killed", "unreadable"}

VARIABLES
  opts,    \* the options of the batch: mode, plan mode, resume
  estop,   \* the emergency stop of the file
  pos,     \* the next call of the loop
  batch,   \* parallelBatch
  jobs,    \* the calls handed to the batch's workers and not begun
  active,  \* calls between their checks and their results
  done     \* done[i]: what became of call i

vars == <<opts, estop, pos, batch, jobs, active, done>>

\* shouldParallelize
Parallel(i) ==
  LET tool == Calls[i] IN
  /\ MaxConcurrency # 1 /\ tool \in Safe /\ tool \notin Serial
  /\ \/ opts.mode = "all" \/ tool \in Forced
     \/ opts.mode = "read_only_only" /\ tool \in ReadOnly

(***************************************************************************)
(* The checks of runOne, in their order: the first that denies decides.    *)
(***************************************************************************)
\* evaluateEstop
Stopped(tool) ==
  \/ estop = "killed"
  \/ estop = "frozen" /\ tool \in Frozen
  \/ estop = "unreadable" /\ FailClosed
\* Options of the executor that executeToolCalls (loop_tools.go:188-214) leaves unset.
\* evaluateToolPolicy, with a confirmation of mode "resume_only"
PolicyDenies(tool) == tool \in Denied \/ (opts.resume /\ tool \in Confirmed)
Allowed(tool) ==
  /\ ~Stopped(tool)
  /\ ~(opts.plan /\ tool \in Restricted)
  /\ ~PolicyDenies(tool)

\* runOne up to the tool: a call that is denied has its result at once.
Begin(i) ==
  IF Allowed(Calls[i])
  THEN active' = active \cup {i} /\ UNCHANGED done
  ELSE done' = [done EXCEPT ![i] = "denied"] /\ UNCHANGED active

(***************************************************************************)
(* The loop over the calls.                                                *)
(***************************************************************************)
Flushing == jobs # {} \/ active # {}
Todo == pos \in Index /\ ~Flushing

Collect ==
  /\ Todo /\ Parallel(pos)
  /\ batch' = batch \cup {pos} /\ pos' = pos + 1
  /\ UNCHANGED <<opts, estop, jobs, active, done>>

\* flushParallelBatch: before a call that runs alone, and at the end.
Flush ==
  /\ batch # {} /\ ~Flushing
  /\ pos \notin Index \/ ~Parallel(pos)
  /\ jobs' = batch /\ batch' = {}
  /\ UNCHANGED <<opts, estop, pos, active, done>>

Workers == IF MaxConcurrency = 0 THEN Cardinality(Index) ELSE MaxConcurrency

\* A worker takes the next call of the batch.
RunParallel ==
  /\ jobs # {} /\ Cardinality(active) < Workers
  /\ LET i == CHOOSE x \in jobs : \A y \in jobs : x <= y
     IN jobs' = jobs \ {i} /\ Begin(i)
  /\ UNCHANGED <<opts, estop, pos, batch>>

\* Mutant: a call that runs alone does not wait for the batch before it.
RunAloneNow ==
  /\ Todo /\ ~Parallel(pos)
  /\ Begin(pos) /\ pos' = pos + 1
  /\ UNCHANGED <<opts, estop, batch, jobs>>
RunAlone ==
  /\ Todo /\ ~Parallel(pos) /\ batch = {}
  /\ Begin(pos) /\ pos' = pos + 1
  /\ UNCHANGED <<opts, estop, batch, jobs>>

Finish(i) ==
  /\ i \in active
  /\ active' = active \ {i}
  /\ done' = [done EXCEPT ![i] = "ran"]
  /\ UNCHANGED <<opts, estop, pos, batch, jobs>>

\* An operator writes or removes estop.json.
Estop ==
  /\ estop' \in EstopStates \ {estop}
  /\ UNCHANGED <<opts, pos, batch, jobs, active, done>>
-----------------------------------------------------------------------------
Init ==
  /\ opts \in [mode : Modes, plan : BOOLEAN, resume : BOOLEAN]
  /\ estop = "off" /\ pos = 1 /\ batch = {} /\ jobs = {} /\ active = {}
  /\ done = [i \in Index |-> "none"]

Step == Collect \/ Flush \/ RunParallel \/ RunAlone \/ \E i \in Index : Finish(i)
Next == Step \/ Estop

Spec == Init /\ [][Next]_vars
\* Tools return, by themselves or by the policy's time limit.
FairSpec == Spec /\ WF_vars(Step)
-----------------------------------------------------------------------------
TypeOK ==
  /\ opts \in [mode : Modes, plan : BOOLEAN, resume : BOOLEAN]
  /\ estop \in EstopStates /\ pos \in 1 .. Len(Calls) + 1
  /\ {batch, jobs, active} \subseteq SUBSET Index
  /\ done \in [Index -> {"none", "ran", "denied"}]

\* A call that may not run in parallel runs when all calls before it have their
\* results and none after it has begun; the others never exceed the limit.
OneAtATime ==
  /\ MaxConcurrency > 0 => Cardinality(active) <= MaxConcurrency
  /\ \A i \in active :
       ~Parallel(i) => /\ active = {i} /\ \A j \in Index : (done[j] = "none") = (j >= i)

\* The batch ends with a result for every call.
AllDone == \A i \in Index : done[i] # "none"
BatchEnds == <>[]AllDone
=============================================================================
