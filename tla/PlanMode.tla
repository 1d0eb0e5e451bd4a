------------------------------- MODULE PlanMode -------------------------------
(***************************************************************************)
(* The plan mode of one session (pkg/agent/loop_commands.go,               *)
(* pipeline_permissions.go, pipeline_resume.go and resolvePlanMode of      *)
(* run_pipeline_impl.go).  While it is on, a request is saved for /approve *)
(* and the model is asked to plan only, by a text before the request       *)
(* (pipeline_helpers.go): the agent loop never gives the mode to the       *)
(* executor of its tools, which would refuse the restricted ones.          *)
(* /approve executes the task without that text.  The messages of a        *)
(* session are handled one at a time, as its bucket does, and a run that   *)
(* was cut is resumed between them; the saves are best effort, and the     *)
(* process may crash between any two steps.                                *)
(***************************************************************************)
EXTENDS Naturals

CONSTANTS Requests,      \* texts of the user
          DefaultPlans,  \* settings of default_mode: TRUE for "plan"
          GroupPlans,    \* settings of default_mode_group
          PeerKinds,     \* of the chat: "direct" or "group"
          MaxFailures    \* bound on the saves that fail

PlanAssumption == DefaultPlans \cup GroupPlans \subseteq BOOLEAN /\ MaxFailures \in Nat

VARIABLES
  cfg,      \* enabled, default_mode, default_mode_group; and the peer kind of the chat
  file,     \* permission.json
  turn,     \* the run at hand; history: what was told when it began, and lag
  wish,     \* history: what the user was told of mode and pending task
  lag,      \* history: the latest save failed, and file is behind wish
  failures,
  cut       \* a crash cut the latest run: its trace has no end

vars == <<cfg, file, turn, wish, lag, failures, cut>>

NoTask == "none"
NoFile == [mode |-> "none", task |-> NoTask]
Running == [mode |-> "run", task |-> NoTask]
Planning(t) == [mode |-> "plan", task |-> t]
Idle == [pc |-> "idle", task |-> NoTask, prompted |-> FALSE, approved |-> FALSE, resumed |-> FALSE,
         acted |-> FALSE, enabled |-> FALSE, told |-> NoFile, lag |-> FALSE]

\* loadSessionPermissionStateWithDefault
Loaded(default) == IF file # NoFile THEN file ELSE [mode |-> default, task |-> NoTask]
Mode(plan) == IF plan THEN "plan" ELSE "run"
\* loadPlanPermissionContext, and resolvePlanMode, which minds the peer.
ForCommand == Loaded(Mode(cfg.default))
ForMessage == Loaded(Mode(IF cfg.peer = "group" THEN cfg.group ELSE cfg.default))

\* saveSessionPermissionState, whose errors are logged.
Save(state) ==
  \/ file' = state /\ lag' = FALSE /\ UNCHANGED failures
  \/ failures < MaxFailures /\ failures' = failures + 1 /\ lag' = TRUE /\ UNCHANGED file

Run(t) == [Idle EXCEPT !.pc = "run", !.task = t, !.enabled = cfg.enabled,
                      !.told = wish, !.lag = lag]

\* A message that is no command; media alone may leave it blank.  In plan mode the
\* model is asked to plan, and to call no restricted tool.
Message(t) ==
  LET plan == cfg.enabled /\ ForMessage.mode = "plan" IN
  /\ turn = Idle
  /\ turn' = [Run(t) EXCEPT !.prompted = plan]
  /\ IF plan /\ t # NoTask THEN wish' = Planning(t) /\ Save(Planning(t))
     ELSE UNCHANGED <<file, wish, lag, failures>>
  /\ UNCHANGED <<cfg, cut>>

\* handlePlanCommand: a task that waits stays, unless another is given.
Plan(t) ==
  /\ turn = Idle /\ cfg.enabled
  /\ LET pending == IF t # NoTask THEN t ELSE ForCommand.task
     IN wish' = Planning(pending) /\ Save(Planning(pending))
  /\ UNCHANGED <<cfg, turn, cut>>

\* handleApproveCommand forgets the task, then executes it.
Approved == IF ForCommand.task = NoTask THEN Idle ELSE [Run(ForCommand.task) EXCEPT !.approved = TRUE]
\* Mutant: the task is to be forgotten after its run, which a crash may end.
ApproveKeeping ==
  /\ turn = Idle /\ cfg.enabled /\ ForCommand.mode = "plan"
  /\ wish' = Running
  /\ turn' = Approved
  /\ UNCHANGED <<cfg, file, lag, failures, cut>>
Approve ==
  /\ turn = Idle /\ cfg.enabled /\ ForCommand.mode = "plan"
  /\ wish' = Running /\ Save(Running)
  /\ turn' = Approved
  /\ UNCHANGED <<cfg, cut>>

Cancel ==
  /\ turn = Idle /\ cfg.enabled
  /\ wish' = Running /\ Save(Running)
  /\ UNCHANGED <<cfg, turn, cut>>

\* executeToolCalls, for a tool of restricted_tools: the options it gives to the
\* executor leave plan mode out.
Act ==
  /\ turn.pc = "run" /\ ~turn.acted
  /\ turn' = [turn EXCEPT !.acted = TRUE]
  /\ UNCHANGED <<cfg, file, wish, lag, failures, cut>>

\* The run ends, or the process does.
Done ==
  /\ turn.pc = "run"
  /\ turn' = Idle
  /\ cut' \in {cut, TRUE}
  /\ UNCHANGED <<cfg, file, wish, lag, failures>>

\* ResumeLastTask: the run goes on without a mode.
Resume ==
  /\ turn = Idle /\ cut
  /\ turn' = [Run(NoTask) EXCEPT !.resumed = TRUE]
  /\ cut' = FALSE
  /\ UNCHANGED <<cfg, file, wish, lag, failures>>

\* A reload of the configuration.
Toggle ==
  /\ cfg' = [cfg EXCEPT !.enabled = ~@]
  /\ UNCHANGED <<file, turn, wish, lag, failures, cut>>
-----------------------------------------------------------------------------
Init ==
  /\ cfg \in [enabled : BOOLEAN, default : DefaultPlans, group : GroupPlans, peer : PeerKinds]
  /\ file = NoFile /\ turn = Idle /\ wish = NoFile /\ lag = FALSE /\ failures = 0
  /\ cut = FALSE

Next ==
  \/ \E t \in Requests \cup {NoTask} : Message(t) \/ Plan(t)
  \/ Approve \/ Cancel \/ Act \/ Done \/ Resume \/ Toggle

Spec == Init /\ [][Next]_vars
-----------------------------------------------------------------------------
States == [mode : {"none", "run", "plan"}, task : Requests \cup {NoTask}]
TypeOK ==
  /\ cfg \in [enabled : BOOLEAN, default : BOOLEAN, group : BOOLEAN, peer : PeerKinds]
  /\ file \in States /\ wish \in States /\ lag \in BOOLEAN /\ failures \in 0 .. MaxFailures
  /\ cut \in BOOLEAN
  /\ turn \in [pc : {"idle", "run"}, task : Requests \cup {NoTask}, prompted : BOOLEAN,
               approved : BOOLEAN, resumed : BOOLEAN, acted : BOOLEAN, enabled : BOOLEAN,
               told : States, lag : BOOLEAN]

\* While the saves succeed, what /approve executes is the task that the latest /plan or
\* request left for it, and no task twice; every other request that came in plan mode
\* is run with the order to plan only, unless plan mode is disabled, but for a run
\* that is resumed; and a task waits only in plan mode.
ApprovedOnly ==
  /\ turn.pc = "run" /\ ~turn.lag =>
       IF turn.approved THEN turn.told = Planning(turn.task) /\ ~turn.prompted
       ELSE turn.prompted \/ turn.resumed \/ turn.told.mode # "plan" \/ ~turn.enabled
  /\ file.task # NoTask => file.mode = "plan"

\* Refuted: restricted tools are denied while in plan mode (config_tools.go:213-230).
ToolsDenied == turn.acted => ~turn.prompted
\* Refuted: a run that is resumed keeps the mode of its session.
ResumedAsPlanned ==
  turn.resumed /\ turn.enabled /\ ~turn.lag /\ turn.told.mode = "plan" => turn.prompted

\* After /approve the session is not in plan mode.  This is not so in a group whose
\* default is plan, where the command looks at the other default.
ApproveEnds == cfg.enabled /\ ForCommand.mode = "run" => ForMessage.mode = "run"
=============================================================================
