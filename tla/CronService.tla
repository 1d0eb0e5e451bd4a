----------------------------- MODULE CronService -----------------------------
(***************************************************************************)
(* The cron service (pkg/cron) with the handler that runs its jobs         *)
(* (CronTool.ExecuteJob, pkg/tools/cron.go).  One goroutine, runLoop,      *)
(* collects the due jobs and runs them one after the other; conversations  *)
(* add, remove, enable and disable jobs meanwhile, each under cs.mu; every *)
(* change is saved to jobs.json, from which a new process starts.          *)
(*                                                                         *)
(* Times are relative to now: a record holds the ticks left until its next *)
(* run, 0 once that is due, and Tick takes one from every copy of a record.*)
(* A record without a next run has nil there; the model keeps apart why.   *)
(* Jobs that are due together run in any order.  The tool adds a job and   *)
(* then its command within the second that passes before it can be due:    *)
(* Add is one step.                                                        *)
(***************************************************************************)
EXTENDS Naturals, Sequences

CONSTANTS
  Job,           \* job identities
  Kind,          \* [Job -> {"at", "every", "cron"}]
  Interval,      \* ticks of every interval, most ticks between cron times
  RunId, NoRun, NoJob,
  NoTime,        \* no next run: none was asked for, or it was taken or is past
  NoTick,        \* no next run: computeNextRun could not tell one
  HistoryLimit,  \* defaultRunHistoryLimit
  SaveMayFail    \* writing jobs.json can fail

ASSUME CronAssumption ==
  /\ Kind \in [Job -> {"at", "every", "cron"}]
  /\ Interval \in Nat \ {0}
  /\ HistoryLimit \in Nat \ {0}
  /\ NoRun \notin RunId /\ NoJob \notin Job
  /\ NoTime \notin Nat /\ NoTick \notin Nat /\ NoTick # NoTime
  /\ SaveMayFail \in BOOLEAN

VARIABLES
  jobs,     \* cs.store.Jobs: a function on the jobs that exist
  file,     \* jobs.json
  service,  \* the process is down, has loaded the store, has started, stopped
  loop      \* runLoop: collected jobs, and the job and run in its hands

vars == <<jobs, file, service, loop>>

Up == service # "down"
NoJobs == [j \in {} |-> 0]
NoLoop == [at |-> "none", due |-> {}, job |-> NoJob, run |-> NoRun, copy |-> NoJob]
IdleLoop == [NoLoop EXCEPT !.at = "idle"]

Init ==
  /\ jobs = NoJobs /\ file = NoJobs
  /\ service = "down"
  /\ loop = NoLoop

\* saveStoreUnsafe: the file is replaced atomically or the error is logged.
Save == file' = jobs' \/ (SaveMayFail /\ UNCHANGED file)

-----------------------------------------------------------------------------
(* Records.                                                                 *)

Time == 0..Interval \cup {NoTime, NoTick}

\* computeNextRun: an "at" time in the past has no next run, nor has a cron
\* expression that gronx finds no tick for, or whose time zone does not load any
\* more: AddJob looks at its syntax, and at the zone that once.  It refuses an
\* interval that is not given.
NextTimes(j, rec) ==
  CASE Kind[j] = "at" -> {IF rec.left > 0 THEN rec.left ELSE NoTime}
    [] Kind[j] = "every" -> {Interval}
    [] Kind[j] = "cron" -> 1..Interval \cup {NoTick}

\* Mutant: the history is never cut.
RecordedUncut(rec, status) ==
  [rec EXCEPT !.history = Append(@, [run |-> rec.run, status |-> status]),
              !.running = FALSE, !.run = NoRun]

\* The run in progress ends: one more record, the oldest one dropped.
Recorded(rec, status) ==
  LET h == Append(rec.history, [run |-> rec.run, status |-> status])
  IN [rec EXCEPT !.history = IF Len(h) > HistoryLimit THEN Tail(h) ELSE h,
                 !.running = FALSE, !.run = NoRun]

\* Mutant: stale running states are kept.
ClearedNever(rec) == rec

\* clearStaleRunningStatesUnsafe: a run the last process left is aborted.
Cleared(rec) == IF rec.running THEN Recorded(rec, "aborted") ELSE rec

Without(j) == [i \in DOMAIN jobs \ {j} |-> jobs[i]]

Fresh(r) ==
  \A s \in {jobs, file} : \A j \in DOMAIN s :
    /\ s[j].run # r
    /\ \A i \in DOMAIN s[j].history : s[j].history[i].run # r

-----------------------------------------------------------------------------
(* The process.                                                             *)

\* NewCronService: the store is loaded.
New ==
  /\ service = "down"
  /\ service' = "loaded"
  /\ jobs' = file
  /\ UNCHANGED <<file, loop>>

\* Start: load, clear stale runs, recompute every enabled job, save.
Start ==
  /\ service = "loaded"
  /\ \E next \in [DOMAIN file -> Time] :
       /\ \A j \in DOMAIN file :
            next[j] \in IF file[j].enabled THEN NextTimes(j, file[j])
                                           ELSE {file[j].next}
       /\ jobs' = [j \in DOMAIN file |-> [Cleared(file[j]) EXCEPT !.next = next[j]]]
  /\ \/ /\ file' = jobs'
        /\ service' = "started"
        /\ loop' = IdleLoop
     \/ /\ SaveMayFail
        /\ UNCHANGED <<file, service, loop>>

\* Stop does not wait for the run in progress.
Stop ==
  /\ service = "started"
  /\ service' = "stopped"
  /\ UNCHANGED <<jobs, file, loop>>

\* The process ends or is killed: runs in progress die with it.
Exit ==
  /\ Up
  /\ service' = "down"
  /\ jobs' = NoJobs
  /\ loop' = NoLoop
  /\ UNCHANGED file

Tick ==
  LET Later(t) == IF t \in Nat \ {0} THEN t - 1 ELSE t
      Aged(rec) == [rec EXCEPT !.next = Later(@), !.left = Later(@)]
      AgedAll(s) == [j \in DOMAIN s |-> Aged(s[j])]
  IN /\ jobs' = AgedAll(jobs)
     /\ file' = AgedAll(file)
     /\ loop' = IF loop.at = "begun" THEN [loop EXCEPT !.copy = Aged(@)] ELSE loop
     /\ UNCHANGED service

-----------------------------------------------------------------------------
(* Conversations, through the cron tool.                                    *)

\* A new job has a new identity.
Add(j) ==
  /\ Up
  /\ j \notin DOMAIN jobs \cup DOMAIN file \cup loop.due /\ loop.job # j
  /\ \E left \in IF Kind[j] = "at" THEN 1..Interval ELSE {0} :
       LET rec == [enabled |-> TRUE, next |-> NoTime, left |-> left,
                   running |-> FALSE, run |-> NoRun, history |-> <<>>]
       IN \E t \in NextTimes(j, rec) :
            jobs' = [i \in DOMAIN jobs \cup {j} |->
                       IF i = j THEN [rec EXCEPT !.next = t] ELSE jobs[i]]
  /\ Save
  /\ UNCHANGED <<service, loop>>

Remove(j) ==
  /\ Up
  /\ j \in DOMAIN jobs
  /\ jobs' = Without(j)
  /\ Save
  /\ UNCHANGED <<service, loop>>

\* Mutant: enabling a job leaves its next run as it was.
EnableOnly(j) ==
  /\ Up
  /\ j \in DOMAIN jobs
  /\ jobs' = [jobs EXCEPT ![j].enabled = TRUE]
  /\ Save
  /\ UNCHANGED <<service, loop>>

\* EnableJob(true), also of an enabled job.
Enable(j) ==
  /\ Up
  /\ j \in DOMAIN jobs
  /\ \E t \in NextTimes(j, jobs[j]) :
       jobs' = [jobs EXCEPT ![j].enabled = TRUE, ![j].next = t]
  /\ Save
  /\ UNCHANGED <<service, loop>>

Disable(j) ==
  /\ Up
  /\ j \in DOMAIN jobs
  /\ jobs' = [jobs EXCEPT ![j].enabled = FALSE, ![j].next = NoTime]
  /\ Save
  /\ UNCHANGED <<service, loop>>

-----------------------------------------------------------------------------
(* runLoop.                                                                 *)

Due(j) == jobs[j].enabled /\ ~jobs[j].running /\ jobs[j].next = 0

\* checkJobs, its first half: the due jobs lose their next run.
CheckJobs ==
  /\ loop.at = "idle" /\ loop.due = {}
  /\ service = "started"
  /\ LET due == {j \in DOMAIN jobs : Due(j)}
     IN /\ due # {}
        /\ jobs' = [j \in DOMAIN jobs |->
                      IF j \in due THEN [jobs[j] EXCEPT !.next = NoTime] ELSE jobs[j]]
        /\ loop' = [loop EXCEPT !.due = due]
  /\ Save
  /\ UNCHANGED service

\* The loop sees the closed stop channel only between two checks.
LoopExit ==
  /\ loop.at = "idle" /\ loop.due = {}
  /\ service = "stopped"
  /\ loop' = NoLoop
  /\ UNCHANGED <<jobs, file, service>>

\* beginJobRunUnsafe of a job that is gone or already marked running.
SkipRun(j) ==
  /\ loop.at = "idle" /\ j \in loop.due
  /\ j \in DOMAIN jobs => jobs[j].running
  /\ loop' = [loop EXCEPT !.due = @ \ {j}]
  /\ UNCHANGED <<jobs, file, service>>

\* Mutant: the running state is not saved before the run.
BeginRunUnsaved(j) ==
  /\ loop.at = "idle" /\ j \in loop.due
  /\ j \in DOMAIN jobs /\ ~jobs[j].running
  /\ \E r \in RunId :
       /\ Fresh(r)
       /\ jobs' = [jobs EXCEPT ![j].running = TRUE, ![j].run = r]
       /\ loop' = [at |-> "begun", due |-> loop.due \ {j}, job |-> j, run |-> r,
                   copy |-> jobs'[j]]
  /\ UNCHANGED <<file, service>>

\* beginJobRunUnsafe looks neither at Enabled nor at cs.running; the handler
\* gets a copy of the record.
BeginRun(j) ==
  /\ loop.at = "idle" /\ j \in loop.due
  /\ j \in DOMAIN jobs /\ ~jobs[j].running
  /\ \E r \in RunId :
       /\ Fresh(r)
       /\ jobs' = [jobs EXCEPT ![j].running = TRUE, ![j].run = r]
       /\ loop' = [at |-> "begun", due |-> loop.due \ {j}, job |-> j, run |-> r,
                   copy |-> jobs'[j]]
  /\ Save
  /\ UNCHANGED service

\* ExecuteJob stores the session of the run with UpdateJob: the whole record is
\* overwritten with the copy, unless the job is gone.
PersistContext ==
  /\ loop.at = "begun"
  /\ loop' = [loop EXCEPT !.at = "handler", !.copy = NoJob]
  /\ IF loop.job \in DOMAIN jobs
     THEN jobs' = [jobs EXCEPT ![loop.job] = loop.copy] /\ Save
     ELSE UNCHANGED <<jobs, file>>
  /\ UNCHANGED service

\* Mutant: the next run is computed before the run, not after it.
FinishRunUnscheduled ==
  /\ loop.at = "handler"
  /\ loop.job \in DOMAIN jobs
  /\ \E s \in {"ok", "error"} :
       jobs' = IF Kind[loop.job] = "at" THEN Without(loop.job)
               ELSE [jobs EXCEPT ![loop.job] = Recorded(@, s)]
  /\ loop' = [IdleLoop EXCEPT !.due = loop.due]
  /\ Save
  /\ UNCHANGED service

\* finishJobRunUnsafe: a one-time job is deleted, an enabled one gets its next
\* run counted from now.
FinishRun ==
  /\ loop.at = "handler"
  /\ loop' = [IdleLoop EXCEPT !.due = loop.due]
  /\ LET j == loop.job
     IN \/ /\ j \notin DOMAIN jobs
           /\ UNCHANGED <<jobs, file>>
        \/ /\ j \in DOMAIN jobs
           /\ Kind[j] = "at"
           /\ jobs' = Without(j)
           /\ Save
        \/ /\ j \in DOMAIN jobs
           /\ Kind[j] # "at"
           /\ \E s \in {"ok", "error"},
                 t \in IF jobs[j].enabled THEN NextTimes(j, jobs[j]) ELSE {NoTime} :
                jobs' = [jobs EXCEPT ![j] = [Recorded(@, s) EXCEPT !.next = t]]
           /\ Save
  /\ UNCHANGED service

-----------------------------------------------------------------------------
Conversation == \E j \in Job : Add(j) \/ Remove(j) \/ Enable(j) \/ Disable(j)
RunLoop == \/ CheckJobs \/ LoopExit \/ PersistContext \/ FinishRun
           \/ \E j \in Job : SkipRun(j) \/ BeginRun(j)

Next == New \/ Start \/ Stop \/ Exit \/ Tick \/ Conversation \/ RunLoop

Spec == Init /\ [][Next]_vars

\* The clock advances and the goroutine is scheduled; a handler ends because
\* its provider calls time out and its iterations are bounded.
FairSpec == Spec /\ WF_vars(Tick) /\ WF_vars(RunLoop)

-----------------------------------------------------------------------------
(* Properties.                                                              *)

Records == [enabled : BOOLEAN, next : Time, left : 0..Interval, running : BOOLEAN,
            run : RunId \cup {NoRun},
            history : Seq([run : RunId, status : {"ok", "error", "aborted"}])]

StoreOK(s) ==
  /\ DOMAIN s \subseteq Job
  /\ \A j \in DOMAIN s : /\ s[j] \in Records
                         /\ Len(s[j].history) <= HistoryLimit

TypeOK ==
  /\ StoreOK(jobs) /\ StoreOK(file)
  /\ service \in {"down", "loaded", "started", "stopped"}
  /\ loop.at \in {"none", "idle", "begun", "handler"}
  /\ loop.due \subseteq Job
  /\ loop.job \in Job \cup {NoJob} /\ loop.run \in RunId \cup {NoRun}
  /\ loop.at = "begun" => loop.copy \in Records

InHandler(j) == loop.at \in {"begun", "handler"} /\ loop.job = j

\* A job marked running is one the loop runs now, under that run id: after a
\* restart or a stale write no job stays marked for ever, which would keep it
\* from running again (service.go:192, service_runner.go:32).
NoStuckRunning ==
  service \in {"started", "stopped"} =>
    \A j \in DOMAIN jobs :
      jobs[j].running => InHandler(j) /\ jobs[j].run = loop.run

Scheduled(j) ==
  jobs[j].next \notin {NoTime, NoTick} \/ j \in loop.due \/ InHandler(j)

Lapsed(j) == Kind[j] = "cron" /\ jobs[j].next = NoTick

\* Whatever conversations do around its runs, an enabled recurring job has a
\* next run, or is about to run, or is running and gets one at the end; only a cron
\* expression for which no time could be told when it was last asked for has none
\* (service_runner.go:126-142, service_store.go:130-153, service_schedule.go:29-48).
RecurringScheduled ==
  service = "started" =>
    \A j \in DOMAIN jobs : jobs[j].enabled /\ Kind[j] # "at" => Scheduled(j) \/ Lapsed(j)

\* tools/cron.go:121, a one-time reminder triggers some seconds from now: one
\* that has not run and is enabled is still going to run.
ReminderScheduled ==
  service = "started" =>
    \A j \in DOMAIN jobs : jobs[j].enabled /\ Kind[j] = "at" => Scheduled(j)

\* Refuted: a cron job that was accepted and is enabled is scheduled.
CronScheduled ==
  service = "started" =>
    \A j \in DOMAIN jobs : jobs[j].enabled /\ Kind[j] = "cron" => Scheduled(j)

\* Refuted: tools/cron.go:369-374, a job the tool reports as disabled stays disabled
\* until it is enabled again.
StaysDisabled ==
  [][\A j \in DOMAIN jobs \cap DOMAIN jobs' :
       service # "loaded" /\ ~jobs[j].enabled /\ jobs'[j].enabled => Enable(j)]_vars

\* When conversations leave the jobs alone and the service stays up, an enabled
\* recurring job runs again and again, unless its cron expression lapses: nothing
\* starves it.
KeepsRunning ==
  <>[][~Conversation]_vars =>
    \A j \in Job :
      (service = "started" /\ j \in DOMAIN jobs /\ jobs[j].enabled /\ Kind[j] # "at")
        ~> (InHandler(j) \/ service # "started" \/ j \notin DOMAIN jobs
            \/ ~jobs[j].enabled \/ Lapsed(j))

-----------------------------------------------------------------------------
(* The run in progress is the one the loop holds or, once the process is    *)
(* gone, the one jobs.json still marks as running.                          *)

CurrentRun(j) ==
  IF j \notin DOMAIN file THEN NoRun
  ELSE IF InHandler(j) THEN loop.run ELSE file[j].run

RL == INSTANCE RunLedger WITH
        ledger <- [j \in Job |-> IF j \in DOMAIN file THEN file[j].history ELSE <<>>],
        current <- [j \in Job |-> CurrentRun(j)]

\* jobs.json records every run that begins exactly once, across restarts.
RefinesRunLedger == RL!Spec

=============================================================================
