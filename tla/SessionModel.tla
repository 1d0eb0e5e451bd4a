----------------------------- MODULE SessionModel -----------------------------
(***************************************************************************)
(* The model of a session: the override that users and the automatic       *)
(* downgrade set (pkg/session/model_override.go,                           *)
(* pkg/agent/loop_model_downgrade.go), and the calls of the session's runs *)
(* that fall back or fail (pkg/agent/loop.go).  A call of the fallback     *)
(* chain is one step here: the used model and whether others were tried    *)
(* before it.                                                              *)
(***************************************************************************)
EXTENDS Integers, Sequences, FiniteSets

CONSTANTS Models,         \* sequence: the candidates' models, the primary first
          Threshold, Window, TTL,  \* SessionModelAutoDowngradeConfig
          MaxRetries,     \* maxRetries of callLLMWithRetry
          MaxTime         \* bound on the time

NoModel == "none"
Never == -1
Names == {Models[i] : i \in DOMAIN Models}
Primary == Models[1]

SessionModelAssumption ==
    /\ Models \in Seq(STRING) \ {<<>>} /\ NoModel \notin Names
    /\ {Window, TTL, MaxRetries, MaxTime} \subseteq Nat
    /\ Threshold \in Nat \ {0}

VARIABLES
  now,
  override,  \* ModelOverride and its expiry
  streak,    \* modelAutoDowngradeMap
  run,       \* the session's run, between and in its calls
  falls      \* history: the counted fallbacks since the last answer of the run's
             \* own model, the last Threshold of them

vars == <<now, override, streak, run, falls>>

NoOverride == [model |-> NoModel, until |-> Never]
NoStreak == [target |-> NoModel, count |-> 0, at |-> Never]
NoCall == [pc |-> "idle", model |-> NoModel, retry |-> 0, target |-> NoModel,
           answered |-> FALSE]

\* EffectiveModelOverride, which clears an override that has expired.
InForce == override.model # NoModel /\ (override.until = Never \/ now <= override.until)
Effective == override' = IF InForce THEN override ELSE NoOverride

Calling(m, retry) == [NoCall EXCEPT !.pc = "call", !.model = m, !.retry = retry]
Called(m) == [NoCall EXCEPT !.model = m]

\* resolveModelForRun: the first call of a run.
BeginRun ==
  /\ run.pc = "idle"
  /\ run' = Calling(IF InForce THEN override.model ELSE Primary, 0)
  /\ Effective
  /\ UNCHANGED <<now, streak, falls>>

\* The next iteration keeps the model.
NextCall ==
  /\ run.pc = "idle" /\ run.model # NoModel
  /\ run' = Calling(run.model, 0)
  /\ UNCHANGED <<now, override, streak, falls>>

\* Mutant: the limit of the retries is off by one.
FailsOnceMore ==
  /\ run.pc = "call"
  /\ run' = Called(run.model) \/ (run.retry <= MaxRetries /\ run' = Calling(run.model, run.retry + 1))
  /\ UNCHANGED <<now, override, streak, falls>>
\* callLLMWithRetry: the call fails for good, or after a timeout is made again.
Fails ==
  /\ run.pc = "call"
  /\ run' = Called(run.model) \/ (run.retry < MaxRetries /\ run' = Calling(run.model, run.retry + 1))
  /\ UNCHANGED <<now, override, streak, falls>>

\* handleContextWindowRetry: the first candidate of another model is the target.
Others(m) == {i \in DOMAIN Models : Models[i] # m}
WindowExceeded ==
  /\ run.pc = "call" /\ run.retry < MaxRetries /\ Others(run.model) # {}
  /\ run' = [run EXCEPT !.pc = "check",
               !.target = Models[CHOOSE i \in Others(run.model) : \A j \in Others(run.model) : i <= j]]
  /\ UNCHANGED <<now, override, streak, falls>>

\* afterLLMCall: the run's own model has answered.
Answers ==
  /\ run.pc = "call"
  /\ run' = Called(run.model)
  /\ falls' = <<>> /\ streak' = NoStreak
  /\ UNCHANGED <<now, override>>

\* performLLMCall: only a run on the agent's own model goes through the chain.
FallsBack ==
  /\ run.pc = "call" /\ run.model = Primary
  /\ \E m \in Names \ {Primary} :
       run' = [run EXCEPT !.pc = "check", !.target = m, !.answered = TRUE]
  /\ UNCHANGED <<now, override, streak, falls>>

\* After an answer the iteration goes on; else the call is made again, unless the
\* compaction has failed.
Proceed(m) ==
  \/ run' = Called(m)
  \/ ~run.answered /\ run' = Calling(m, run.retry + 1)

(***************************************************************************)
(* maybeAutoDowngradeSessionModel: three critical sections.                *)
(***************************************************************************)
Check ==
  /\ run.pc = "check"
  /\ IF InForce THEN Proceed(run.model) ELSE run' = [run EXCEPT !.pc = "count"]
  /\ Effective
  /\ UNCHANGED <<now, streak, falls>>

\* Mutant: the age of the last fallback is not looked at.
ExtendedAlways ==
  LET kept == IF streak.target = run.target THEN streak ELSE NoStreak
  IN [target |-> run.target, count |-> kept.count + 1, at |-> now]
Extended ==
  LET kept == IF streak.target = run.target /\ now - streak.at <= Window THEN streak ELSE NoStreak
  IN [target |-> run.target, count |-> kept.count + 1, at |-> now]

Count ==
  /\ run.pc = "count"
  /\ LET all == Append(falls, [to |-> run.target, at |-> now])
     IN falls' = IF Len(all) > Threshold THEN Tail(all) ELSE all
  /\ IF Extended.count >= Threshold
     THEN streak' = NoStreak /\ run' = [run EXCEPT !.pc = "set"]
     ELSE streak' = Extended /\ Proceed(run.model)
  /\ UNCHANGED <<now, override>>

\* SetModelOverride, which has no error but for a missing key.
Downgrade ==
  /\ run.pc = "set"
  /\ override' = [model |-> run.target, until |-> now + TTL]
  /\ Proceed(run.target)
  /\ UNCHANGED <<now, streak, falls>>

\* SetModelOverride and ClearModelOverride by the user.
UserOverride ==
  /\ \E m \in Names \cup {NoModel} : override' = [model |-> m, until |-> Never]
  /\ UNCHANGED <<now, streak, run, falls>>

\* SessionModelHandler: a request may set an override with an end, and reads it back.
ApiSet ==
  /\ \E m \in Names \cup {NoModel}, until \in {Never, now + TTL} :
       override' = [model |-> m, until |-> IF m = NoModel THEN Never ELSE until]
  /\ UNCHANGED <<now, streak, run, falls>>
ApiRead == Effective /\ UNCHANGED <<now, streak, run, falls>>

Tick == now < MaxTime /\ now' = now + 1 /\ UNCHANGED <<override, streak, run, falls>>
-----------------------------------------------------------------------------
Init ==
  /\ now = 0 /\ override = NoOverride /\ streak = NoStreak /\ run = NoCall /\ falls = <<>>

Step == Fails \/ WindowExceeded \/ Answers \/ FallsBack \/ Check \/ Count \/ Downgrade
Next == Tick \/ BeginRun \/ NextCall \/ UserOverride \/ ApiSet \/ ApiRead \/ Step

Spec == Init /\ [][Next]_vars
\* A call ends, by its answer or its timeout.
FairSpec == Spec /\ WF_vars(Step)
-----------------------------------------------------------------------------
TypeOK ==
  /\ now \in 0 .. MaxTime
  /\ override \in [model : Names \cup {NoModel}, until : Nat \cup {Never}]
  /\ streak \in [target : Names \cup {NoModel}, count : 0 .. Threshold - 1, at : Nat \cup {Never}]
  /\ run \in [pc : {"idle", "call", "check", "count", "set"}, model : Names \cup {NoModel},
              retry : 0 .. MaxRetries, target : Names \cup {NoModel}, answered : BOOLEAN]
  /\ falls \in Seq([to : Names, at : 0 .. MaxTime]) /\ Len(falls) <= Threshold

\* A session is moved to another model only after Threshold triggers in a row for
\* that model, each within Window of the one before: an answer of the run's own
\* model, a trigger for another model or a long pause starts the count over.
DowngradeEarned ==
  run.pc = "set" =>
    /\ Len(falls) = Threshold
    /\ \A i \in DOMAIN falls : falls[i].to = run.target
    /\ \A i \in 1 .. Threshold - 1 : falls[i + 1].at - falls[i].at <= Window

\* Every call of a run ends, however often it is made again or moved.
CallEnds == run.pc # "idle" ~> run.pc = "idle"
=============================================================================
