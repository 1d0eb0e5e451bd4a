-------------------------- MODULE CronService_proofs --------------------------
(***************************************************************************)
(* For any jobs, intervals, run ids and history limit, with any writes of  *)
(* jobs.json failing: no job stays marked as running, and no enabled       *)
(* recurring job is left without a next run.  With every write succeeding, *)
(* jobs.json is the RunLedger: the second half of the module.              *)
(*                                                                         *)
(* Neither invariant is inductive alone.  A finished run is recorded with  *)
(* the id in the record, so a record marked as running must hold a run id, *)
(* in memory and in jobs.json; the handler overwrites the record with its  *)
(* copy, so the copy must hold the run of the loop (Held); and Start       *)
(* clears what it loads, so no run may be in progress before it            *)
(* (NoLoopYet).                                                            *)
(***************************************************************************)
EXTENDS CronService, TLAPS

\* A store whose running jobs have a run id.
Store(s) ==
  /\ StoreOK(s)
  /\ \A j \in DOMAIN s : s[j].running => s[j].run \in RunId

LoopType ==
  /\ loop \in [at : {"none", "idle", "begun", "handler"}, due : SUBSET Job,
               job : Job \cup {NoJob}, run : RunId \cup {NoRun},
               copy : Records \cup {NoJob}]
  /\ loop.at = "begun" => /\ loop.copy \in Records
                          /\ Len(loop.copy.history) <= HistoryLimit
  /\ loop.at \in {"begun", "handler"} => loop.job \in Job /\ loop.run \in RunId

ServiceType == service \in {"down", "loaded", "started", "stopped"}

NoLoopYet == service \in {"down", "loaded"} => loop = NoLoop

\* The run of the loop is the one in the record, and in the copy.
Held ==
  /\ loop.at = "begun" => loop.copy.running /\ loop.copy.run = loop.run
  /\ \A j \in DOMAIN jobs :
       InHandler(j) => jobs[j].running /\ jobs[j].run = loop.run

\* Time t leaves job j scheduled, or lapsed.
Settled(j, t) == t \notin {NoTime, NoTick} \/ (Kind[j] = "cron" /\ t = NoTick)

Inv ==
  /\ Store(jobs) /\ Store(file)
  /\ LoopType /\ ServiceType /\ NoLoopYet
  /\ Held /\ NoStuckRunning /\ RecurringScheduled

-----------------------------------------------------------------------------
(* Records and stores.                                                      *)

\* A history that is one entry too long loses its oldest one.
LEMMA CutHistory ==
  ASSUME NEW H, NEW h \in Seq(H), Len(h) <= HistoryLimit + 1,
         NEW k, k = IF Len(h) > HistoryLimit THEN Tail(h) ELSE h
  PROVE  k \in Seq(H) /\ Len(k) <= HistoryLimit
<1>1. HistoryLimit \in Nat \ {0} /\ Len(h) \in Nat
  BY CronAssumption
<1>2. CASE Len(h) > HistoryLimit
  <2>1. h # <<>>
    BY <1>1, <1>2
  <2>2. Tail(h) \in Seq(H) /\ Len(Tail(h)) = Len(h) - 1
    BY <2>1
  <2> QED BY <1>1, <1>2, <2>2
<1>3. CASE ~(Len(h) > HistoryLimit)
  BY <1>1, <1>3
<1> QED BY <1>2, <1>3

\* What the end of a run leaves of its record (service_runner.go:82-106).
LEMMA RecordedType ==
  ASSUME NEW rec \in Records, Len(rec.history) <= HistoryLimit,
         rec.run \in RunId, NEW st \in {"ok", "error", "aborted"}
  PROVE  /\ Recorded(rec, st) \in Records
         /\ Len(Recorded(rec, st).history) <= HistoryLimit
         /\ ~Recorded(rec, st).running
         /\ Recorded(rec, st).enabled = rec.enabled
         /\ Recorded(rec, st).next = rec.next
<1> DEFINE H == [run : RunId, status : {"ok", "error", "aborted"}]
<1>1. PICK e : e = [run |-> rec.run, status |-> st]
  OBVIOUS
<1>2. rec.history \in Seq(H) /\ e \in H
  BY <1>1 DEF Records
<1>3. PICK h : h = Append(rec.history, e)
  OBVIOUS
<1>4. h \in Seq(H) /\ Len(h) = Len(rec.history) + 1 /\ Len(rec.history) \in Nat
  <2> HIDE DEF H
  <2> QED BY <1>2, <1>3
<1>5. PICK k : k = IF Len(h) > HistoryLimit THEN Tail(h) ELSE h
  OBVIOUS
<1>6. k \in Seq(H) /\ Len(k) <= HistoryLimit
  <2>1. Len(h) <= HistoryLimit + 1
    BY <1>4, CronAssumption
  <2> HIDE DEF H
  <2> QED BY <1>4, <1>5, <2>1, CutHistory
<1>7. Recorded(rec, st) = [rec EXCEPT !.history = k, !.running = FALSE, !.run = NoRun]
  BY <1>1, <1>3, <1>5 DEF Recorded
<1> QED BY <1>6, <1>7 DEF Records

\* Every next run is a time of its own (service_schedule.go:13-57).
LEMMA NextTimesType ==
  ASSUME NEW j \in Job, NEW rec \in Records, NEW t \in NextTimes(j, rec)
  PROVE  t \in Time /\ (Kind[j] # "at" => Settled(j, t))
<1>1. Kind[j] \in {"at", "every", "cron"} /\ Interval \in Nat \ {0} /\ NoTime \notin Nat
     /\ NoTick \notin Nat /\ NoTick # NoTime
  BY CronAssumption
<1>2. rec.left \in 0..Interval
  BY DEF Records
<1>3. CASE Kind[j] = "at"
  BY <1>1, <1>2, <1>3 DEF NextTimes, Time
<1>4. CASE Kind[j] = "every"
  BY <1>1, <1>4 DEF NextTimes, Time, Settled
<1>5. CASE Kind[j] = "cron"
  BY <1>1, <1>5 DEF NextTimes, Time, Settled
<1> QED BY <1>1, <1>3, <1>4, <1>5

\* A save, made or failed, leaves a good file (service_store.go:42-48).
LEMMA SaveKeeps ==
  ASSUME Store(file), Store(jobs)', Save
  PROVE  Store(file)'
BY DEF Save, Store, StoreOK

LEMMA ChangedRecord ==
  ASSUME Store(jobs), NEW j \in DOMAIN jobs, NEW rec \in Records,
         Len(rec.history) <= HistoryLimit, rec.running => rec.run \in RunId,
         jobs' = [jobs EXCEPT ![j] = rec]
  PROVE  Store(jobs)'
BY DEF Store, StoreOK

LEMMA RemovedRecord ==
  ASSUME Store(jobs), NEW j, jobs' = Without(j)
  PROVE  Store(jobs)'
BY DEF Store, StoreOK, Without

-----------------------------------------------------------------------------
(* The process.                                                             *)

LEMMA FrameLoop ==
  ASSUME LoopType, ServiceType, NoLoopYet, UNCHANGED <<service, loop>>
  PROVE  LoopType' /\ ServiceType' /\ NoLoopYet'
BY DEF LoopType, ServiceType, NoLoopYet, InHandler

LEMMA InitInv == Init => Inv
<1> SUFFICES ASSUME Init PROVE Inv
  OBVIOUS
<1>1. DOMAIN jobs = {} /\ DOMAIN file = {}
  BY DEF Init, NoJobs
<1>2. Store(jobs) /\ Store(file)
  BY <1>1 DEF Store, StoreOK
<1>3. LoopType
  BY CronAssumption DEF Init, NoLoop, LoopType
<1>4. Held
  BY <1>1 DEF Init, NoLoop, Held
<1> QED
  BY <1>1, <1>2, <1>3, <1>4
     DEF Inv, Init, ServiceType, NoLoopYet, NoStuckRunning, RecurringScheduled

LEMMA NewStep == Inv /\ New => Inv'
<1> SUFFICES ASSUME Inv, New PROVE Inv'
  OBVIOUS
<1>1. Store(jobs)' /\ Store(file)'
  BY DEF Inv, New, Store, StoreOK
<1>2. loop = NoLoop /\ loop' = loop /\ service' = "loaded"
  BY DEF Inv, New, NoLoopYet
<1>3. LoopType' /\ NoLoopYet' /\ ServiceType'
  BY <1>2 DEF Inv, LoopType, NoLoopYet, ServiceType
<1>4. Held'
  BY <1>2 DEF Held, InHandler, NoLoop
<1> QED BY <1>1, <1>2, <1>3, <1>4 DEF Inv, NoStuckRunning, RecurringScheduled

\* Start finds no run in progress: what jobs.json marks as running is cleared,
\* and every enabled job gets a next run.
LEMMA StartStep == Inv /\ Start => Inv'
<1> SUFFICES ASSUME Inv, Start PROVE Inv'
  OBVIOUS
<1>1. PICK next \in [DOMAIN file -> Time] :
        /\ \A j \in DOMAIN file :
             next[j] \in IF file[j].enabled THEN NextTimes(j, file[j]) ELSE {file[j].next}
        /\ jobs' = [j \in DOMAIN file |-> [Cleared(file[j]) EXCEPT !.next = next[j]]]
  BY DEF Start
<1>2. /\ DOMAIN file \subseteq Job
      /\ \A j \in DOMAIN file : /\ file[j] \in Records
                                /\ Len(file[j].history) <= HistoryLimit
                                /\ file[j].running => file[j].run \in RunId
  BY DEF Inv, Store, StoreOK
<1>3. service = "loaded" /\ loop = NoLoop
  BY DEF Start, Inv, NoLoopYet
<1>4. ASSUME NEW j \in DOMAIN file
      PROVE  /\ Cleared(file[j]) \in Records
             /\ Len(Cleared(file[j]).history) <= HistoryLimit
             /\ ~Cleared(file[j]).running
             /\ Cleared(file[j]).enabled = file[j].enabled
  BY <1>2, RecordedType DEF Cleared, Records
<1>5. DOMAIN jobs' = DOMAIN file
  BY <1>1
<1>6. ASSUME NEW j \in DOMAIN file
      PROVE  /\ jobs'[j] \in Records
             /\ Len(jobs'[j].history) <= HistoryLimit
             /\ ~jobs'[j].running
             /\ jobs'[j].enabled => jobs'[j].next = next[j] /\ next[j] \in NextTimes(j, file[j])
  <2>1. jobs'[j] = [Cleared(file[j]) EXCEPT !.next = next[j]] /\ next[j] \in Time
    BY <1>1
  <2> QED BY <2>1, <1>1, <1>4 DEF Records
<1>7. Store(jobs)'
  BY <1>2, <1>5, <1>6 DEF Store, StoreOK
<1>8. \A j \in DOMAIN jobs' :
        jobs'[j].enabled /\ Kind[j] # "at" => Settled(j, jobs'[j].next)
  BY <1>2, <1>5, <1>6, NextTimesType
<1>9. CASE file' = jobs' /\ service' = "started" /\ loop' = IdleLoop
  <2>1. Store(file)'
    BY <1>7, <1>9 DEF Store, StoreOK
  <2>2. LoopType'
    BY <1>9, CronAssumption DEF LoopType, IdleLoop, NoLoop
  <2>3. Held'
    BY <1>9 DEF Held, InHandler, IdleLoop, NoLoop
  <2>4. NoStuckRunning'
    BY <1>5, <1>6 DEF NoStuckRunning
  <2>5. RecurringScheduled'
    BY <1>8 DEF RecurringScheduled, Scheduled, Lapsed, Settled
  <2>6. ServiceType' /\ NoLoopYet'
    BY <1>9 DEF ServiceType, NoLoopYet
  <2> QED BY <1>7, <2>1, <2>2, <2>3, <2>4, <2>5, <2>6 DEF Inv
<1>10. CASE UNCHANGED <<file, service, loop>>
  <2>1. Store(file)'
    BY <1>10 DEF Inv, Store, StoreOK
  <2>2. LoopType' /\ ServiceType' /\ NoLoopYet'
    BY <1>10, FrameLoop DEF Inv
  <2>3. Held'
    BY <1>3, <1>10 DEF Held, InHandler, NoLoop
  <2> QED BY <1>3, <1>7, <1>10, <2>1, <2>2, <2>3 DEF Inv, NoStuckRunning, RecurringScheduled
<1> QED BY <1>9, <1>10 DEF Start

LEMMA StopStep == Inv /\ Stop => Inv'
<1> SUFFICES ASSUME Inv, Stop PROVE Inv'
  OBVIOUS
<1>1. Store(jobs)' /\ Store(file)'
  BY DEF Inv, Stop, Store, StoreOK
<1>2. LoopType' /\ Held'
  BY DEF Inv, Stop, LoopType, Held, InHandler
<1>3. NoStuckRunning'
  BY DEF Inv, Stop, NoStuckRunning, InHandler
<1> QED BY <1>1, <1>2, <1>3 DEF Inv, Stop, ServiceType, NoLoopYet, RecurringScheduled

LEMMA ExitStep == Inv /\ Exit => Inv'
<1> SUFFICES ASSUME Inv, Exit PROVE Inv'
  OBVIOUS
<1>1. service' = "down" /\ DOMAIN jobs' = {} /\ file' = file /\ loop' = NoLoop
  BY DEF Exit, NoJobs
<1>2. Store(jobs)' /\ Store(file)'
  BY <1>1 DEF Inv, Store, StoreOK
<1>3. LoopType' /\ Held'
  BY <1>1, CronAssumption DEF LoopType, Held, NoLoop
<1> QED BY <1>1, <1>2, <1>3 DEF Inv, ServiceType, NoLoopYet, NoStuckRunning, RecurringScheduled

\* Time passes for every copy of a record alike.
LEMMA TickStep == Inv /\ Tick => Inv'
<1> SUFFICES ASSUME Inv, Tick PROVE Inv'
  OBVIOUS
<1> DEFINE Later(t) == IF t \in Nat \ {0} THEN t - 1 ELSE t
           Aged(rec) == [rec EXCEPT !.next = Later(@), !.left = Later(@)]
<1>1. Interval \in Nat /\ NoTime \notin Nat /\ NoTick \notin Nat
  BY CronAssumption
<1>2. \A t \in Time : Later(t) \in Time /\ (\A j \in Job : Settled(j, t) => Settled(j, Later(t)))
  BY <1>1 DEF Time, Settled
<1>3. \A t \in 0..Interval : Later(t) \in 0..Interval
  BY <1>1
<1>4. ASSUME NEW rec \in Records
      PROVE  /\ Aged(rec) \in Records
             /\ Aged(rec).history = rec.history /\ Aged(rec).running = rec.running
             /\ Aged(rec).run = rec.run /\ Aged(rec).enabled = rec.enabled
             /\ \A j \in Job : Settled(j, rec.next) => Settled(j, Aged(rec).next)
  <2>1. rec.next \in Time /\ rec.left \in 0..Interval
    BY DEF Records
  <2>2. Later(rec.next) \in Time /\ Later(rec.left) \in 0..Interval
    BY <2>1, <1>2, <1>3
  <2>3. Aged(rec) = [rec EXCEPT !.next = Later(rec.next), !.left = Later(rec.left)]
    OBVIOUS
  <2>4. \A j \in Job : Settled(j, rec.next) => Settled(j, Later(rec.next))
    BY <2>1, <1>2
  <2> HIDE DEF Aged, Later
  <2> QED BY <2>2, <2>3, <2>4 DEF Records
<1>5. /\ jobs' = [j \in DOMAIN jobs |-> Aged(jobs[j])]
      /\ file' = [j \in DOMAIN file |-> Aged(file[j])]
      /\ loop' = IF loop.at = "begun" THEN [loop EXCEPT !.copy = Aged(@)] ELSE loop
      /\ service' = service
  BY DEF Tick
<1> HIDE DEF Aged, Later
<1>6. Store(jobs)'
  BY <1>4, <1>5 DEF Inv, Store, StoreOK
<1>7. Store(file)'
  BY <1>4, <1>5 DEF Inv, Store, StoreOK
<1>8. /\ loop'.at = loop.at /\ loop'.due = loop.due
      /\ loop'.job = loop.job /\ loop'.run = loop.run
      /\ loop.at = "begun" => loop'.copy = Aged(loop.copy)
      /\ loop.at # "begun" => loop' = loop
  BY <1>5 DEF Inv, LoopType
<1>9. LoopType'
  <2>1. CASE loop.at = "begun"
    <3>1. loop' = [loop EXCEPT !.copy = Aged(loop.copy)]
      BY <1>5, <2>1
    <3>2. loop.copy \in Records /\ Aged(loop.copy) \in Records
      BY <2>1, <1>4 DEF Inv, LoopType
    <3>3. Aged(loop.copy).history = loop.copy.history
      BY <3>2, <1>4
    <3> QED BY <2>1, <3>1, <3>2, <3>3, <1>8 DEF Inv, LoopType
  <2>2. CASE loop.at # "begun"
    BY <2>2, <1>8 DEF Inv, LoopType
  <2> QED BY <2>1, <2>2
<1>10. Held'
  <2>1. loop.at = "begun" => loop'.copy.running /\ loop'.copy.run = loop'.run
    BY <1>4, <1>8 DEF Inv, LoopType, Held
  <2>2. \A j \in DOMAIN jobs : jobs'[j].running = jobs[j].running /\ jobs'[j].run = jobs[j].run
    BY <1>4, <1>5 DEF Inv, Store, StoreOK
  <2> QED BY <2>1, <2>2, <1>5, <1>8 DEF Inv, Held, InHandler
<1>11. NoStuckRunning'
  <2>1. \A j \in DOMAIN jobs : jobs'[j].running = jobs[j].running /\ jobs'[j].run = jobs[j].run
    BY <1>4, <1>5 DEF Inv, Store, StoreOK
  <2> QED BY <2>1, <1>5, <1>8 DEF Inv, NoStuckRunning, InHandler
<1>12. RecurringScheduled'
  <2>1. \A j \in DOMAIN jobs : /\ jobs'[j].enabled = jobs[j].enabled
                               /\ Settled(j, jobs[j].next) => Settled(j, jobs'[j].next)
    BY <1>4, <1>5 DEF Inv, Store, StoreOK
  <2> QED BY <2>1, <1>5, <1>8 DEF Inv, RecurringScheduled, Scheduled, Lapsed, Settled, InHandler
<1>13. NoLoopYet' /\ ServiceType'
  BY <1>5, <1>8 DEF Inv, NoLoopYet, ServiceType, NoLoop
<1> QED BY <1>6, <1>7, <1>9, <1>10, <1>11, <1>12, <1>13 DEF Inv

-----------------------------------------------------------------------------
(* Conversations.                                                           *)

\* An operation of the tool leaves the run of every record alone, or makes a
\* record that does not run, and schedules what it enables.
LEMMA ConversationStep ==
  ASSUME Inv, UNCHANGED <<service, loop>>, Store(jobs)', Save,
         \A j \in DOMAIN jobs' :
           \/ /\ j \in DOMAIN jobs
              /\ jobs'[j].running = jobs[j].running /\ jobs'[j].run = jobs[j].run
           \/ ~jobs'[j].running /\ ~InHandler(j),
         \A j \in DOMAIN jobs' :
           jobs'[j].enabled /\ Kind[j] # "at" =>
             \/ Settled(j, jobs'[j].next)
             \/ j \in DOMAIN jobs /\ jobs[j].enabled /\ ~Settled(j, jobs[j].next)
  PROVE  Inv'
<1>1. Store(file)'
  BY SaveKeeps DEF Inv
<1>2. LoopType' /\ ServiceType' /\ NoLoopYet'
  BY FrameLoop DEF Inv
<1>3. Held'
  BY DEF Inv, Held, InHandler
<1>4. NoStuckRunning'
  BY DEF Inv, NoStuckRunning, InHandler
<1>5. RecurringScheduled'
  BY DEF Inv, RecurringScheduled, Scheduled, Lapsed, Settled, InHandler
<1> QED BY <1>1, <1>2, <1>3, <1>4, <1>5 DEF Inv

LEMMA AddStep == ASSUME Inv, NEW j \in Job, Add(j) PROVE Inv'
<1> DEFINE Added(left) == [enabled |-> TRUE, next |-> NoTime, left |-> left,
                           running |-> FALSE, run |-> NoRun, history |-> <<>>]
<1>1. PICK left \in IF Kind[j] = "at" THEN 1..Interval ELSE {0} :
        \E t \in NextTimes(j, Added(left)) :
          jobs' = [i \in DOMAIN jobs \cup {j} |->
                     IF i = j THEN [Added(left) EXCEPT !.next = t] ELSE jobs[i]]
  BY DEF Add
<1>2. PICK rec : rec = Added(left)
  OBVIOUS
<1>3. PICK t \in NextTimes(j, rec) :
        jobs' = [i \in DOMAIN jobs \cup {j} |->
                   IF i = j THEN [rec EXCEPT !.next = t] ELSE jobs[i]]
  <2> HIDE DEF Added
  <2> QED BY <1>1, <1>2
<1>4. Interval \in Nat \ {0} /\ HistoryLimit \in Nat \ {0}
  BY CronAssumption
<1>5. rec \in Records
  <2>1. left \in 0..Interval
    BY <1>1, <1>4
  <2> QED BY <1>2, <2>1 DEF Records, Time
<1>6. t \in Time /\ (Kind[j] # "at" => Settled(j, t))
  BY <1>3, <1>5, NextTimesType
<1>7. PICK new : new = [rec EXCEPT !.next = t]
  OBVIOUS
<1>8. new \in Records /\ ~new.running /\ new.next = t /\ Len(new.history) <= HistoryLimit
  <2>1. new.history = <<>> /\ ~new.running /\ new.next = t
    BY <1>2, <1>7
  <2>2. Len(new.history) <= HistoryLimit
    BY <2>1, <1>4
  <2> QED BY <1>5, <1>6, <1>7, <2>1, <2>2 DEF Records
<1>9. /\ DOMAIN jobs' = DOMAIN jobs \cup {j}
      /\ jobs'[j] = new
      /\ \A i \in DOMAIN jobs : i # j => jobs'[i] = jobs[i]
  BY <1>3, <1>7
<1>10. j \notin DOMAIN jobs /\ loop.job # j /\ UNCHANGED <<service, loop>> /\ Save
  BY DEF Add
<1>11. Store(jobs)'
  BY <1>8, <1>9 DEF Inv, Store, StoreOK
<1>12. \A i \in DOMAIN jobs' :
         \/ /\ i \in DOMAIN jobs
            /\ jobs'[i].running = jobs[i].running /\ jobs'[i].run = jobs[i].run
         \/ ~jobs'[i].running /\ ~InHandler(i)
  BY <1>8, <1>9, <1>10 DEF InHandler
<1>13. \A i \in DOMAIN jobs' :
         jobs'[i].enabled /\ Kind[i] # "at" =>
           \/ Settled(i, jobs'[i].next)
           \/ i \in DOMAIN jobs /\ jobs[i].enabled /\ ~Settled(i, jobs[i].next)
  BY <1>6, <1>8, <1>9, <1>10
<1> QED BY <1>10, <1>11, <1>12, <1>13, ConversationStep

LEMMA RemoveStep == ASSUME Inv, NEW j \in Job, Remove(j) PROVE Inv'
<1>1. jobs' = Without(j) /\ UNCHANGED <<service, loop>> /\ Save
  BY DEF Remove
<1>2. /\ DOMAIN jobs' = DOMAIN jobs \ {j}
      /\ \A i \in DOMAIN jobs' : i \in DOMAIN jobs /\ jobs'[i] = jobs[i]
  BY <1>1 DEF Without
<1>3. Store(jobs)'
  BY <1>1, RemovedRecord DEF Inv
<1> QED BY <1>1, <1>2, <1>3, ConversationStep

LEMMA EnableStep == ASSUME Inv, NEW j \in Job, Enable(j) PROVE Inv'
<1>1. PICK t \in NextTimes(j, jobs[j]) :
        jobs' = [jobs EXCEPT ![j].enabled = TRUE, ![j].next = t]
  BY DEF Enable
<1>2. j \in DOMAIN jobs /\ UNCHANGED <<service, loop>> /\ Save
  BY DEF Enable
<1>3. /\ jobs[j] \in Records /\ Len(jobs[j].history) <= HistoryLimit
      /\ jobs[j].running => jobs[j].run \in RunId
  BY <1>2 DEF Inv, Store, StoreOK
<1>4. t \in Time /\ (Kind[j] # "at" => Settled(j, t))
  BY <1>1, <1>3, NextTimesType
<1>5. PICK new : new = [jobs[j] EXCEPT !.enabled = TRUE, !.next = t]
  OBVIOUS
<1>6. /\ new \in Records /\ new.next = t /\ new.history = jobs[j].history
      /\ new.running = jobs[j].running /\ new.run = jobs[j].run
  BY <1>3, <1>4, <1>5 DEF Records
<1>7. jobs' = [jobs EXCEPT ![j] = new]
  BY <1>1, <1>2, <1>5
<1>8. Store(jobs)'
  BY <1>2, <1>3, <1>6, <1>7, ChangedRecord DEF Inv
<1>9. \A i \in DOMAIN jobs' :
        /\ i \in DOMAIN jobs
        /\ jobs'[i].running = jobs[i].running /\ jobs'[i].run = jobs[i].run
  BY <1>6, <1>7
<1>10. \A i \in DOMAIN jobs' :
         jobs'[i].enabled /\ Kind[i] # "at" =>
           \/ Settled(i, jobs'[i].next)
           \/ i \in DOMAIN jobs /\ jobs[i].enabled /\ ~Settled(i, jobs[i].next)
  BY <1>4, <1>6, <1>7
<1> QED BY <1>2, <1>8, <1>9, <1>10, ConversationStep

LEMMA DisableStep == ASSUME Inv, NEW j \in Job, Disable(j) PROVE Inv'
<1>1. jobs' = [jobs EXCEPT ![j].enabled = FALSE, ![j].next = NoTime]
  BY DEF Disable
<1>2. j \in DOMAIN jobs /\ UNCHANGED <<service, loop>> /\ Save
  BY DEF Disable
<1>3. /\ jobs[j] \in Records /\ Len(jobs[j].history) <= HistoryLimit
      /\ jobs[j].running => jobs[j].run \in RunId
  BY <1>2 DEF Inv, Store, StoreOK
<1>4. PICK new : new = [jobs[j] EXCEPT !.enabled = FALSE, !.next = NoTime]
  OBVIOUS
<1>5. /\ new \in Records /\ ~new.enabled /\ new.history = jobs[j].history
      /\ new.running = jobs[j].running /\ new.run = jobs[j].run
  BY <1>3, <1>4 DEF Records, Time
<1>6. jobs' = [jobs EXCEPT ![j] = new]
  BY <1>1, <1>2, <1>4
<1>7. Store(jobs)'
  BY <1>2, <1>3, <1>5, <1>6, ChangedRecord DEF Inv
<1>8. \A i \in DOMAIN jobs' :
        /\ i \in DOMAIN jobs
        /\ jobs'[i].running = jobs[i].running /\ jobs'[i].run = jobs[i].run
  BY <1>5, <1>6
<1>9. \A i \in DOMAIN jobs' :
        jobs'[i].enabled /\ Kind[i] # "at" =>
          \/ Settled(i, jobs'[i].next)
          \/ i \in DOMAIN jobs /\ jobs[i].enabled /\ ~Settled(i, jobs[i].next)
  BY <1>5, <1>6
<1> QED BY <1>2, <1>7, <1>8, <1>9, ConversationStep

-----------------------------------------------------------------------------
(* runLoop.                                                                 *)

LEMMA CheckJobsStep == Inv /\ CheckJobs => Inv'
<1> SUFFICES ASSUME Inv, CheckJobs PROVE Inv'
  OBVIOUS
<1> DEFINE due == {j \in DOMAIN jobs : Due(j)}
<1>1. /\ jobs' = [j \in DOMAIN jobs |->
                    IF j \in due THEN [jobs[j] EXCEPT !.next = NoTime] ELSE jobs[j]]
      /\ loop' = [loop EXCEPT !.due = due]
      /\ loop.at = "idle" /\ loop.due = {}
      /\ service = "started" /\ service' = service /\ Save
  BY DEF CheckJobs
<1>2. due \subseteq Job
  BY DEF Inv, Store, StoreOK
<1>3. DOMAIN jobs' = DOMAIN jobs
  BY <1>1
<1>4. ASSUME NEW j \in DOMAIN jobs
      PROVE  /\ jobs'[j] \in Records /\ jobs'[j].history = jobs[j].history
             /\ jobs'[j].running = jobs[j].running /\ jobs'[j].run = jobs[j].run
             /\ jobs'[j].enabled = jobs[j].enabled
             /\ j \notin due => jobs'[j] = jobs[j]
  <2>1. jobs[j] \in Records
    BY DEF Inv, Store, StoreOK
  <2>2. jobs'[j] = IF j \in due THEN [jobs[j] EXCEPT !.next = NoTime] ELSE jobs[j]
    BY <1>1
  <2> HIDE DEF due
  <2> QED BY <2>1, <2>2 DEF Records, Time
<1> HIDE DEF due
<1>5. Store(jobs)'
  BY <1>3, <1>4 DEF Inv, Store, StoreOK
<1>6. Store(file)'
  BY <1>1, <1>5, SaveKeeps DEF Inv
<1>7. /\ loop'.at = "idle" /\ loop'.due = due
      /\ loop'.job = loop.job /\ loop'.run = loop.run /\ loop'.copy = loop.copy
  BY <1>1 DEF Inv, LoopType
<1>8. LoopType'
  BY <1>1, <1>2 DEF Inv, LoopType
<1>9. Held' /\ NoStuckRunning'
  BY <1>1, <1>3, <1>4, <1>7 DEF Inv, Held, NoStuckRunning, InHandler
<1>10. RecurringScheduled'
  BY <1>1, <1>3, <1>4, <1>7 DEF Inv, RecurringScheduled, Scheduled, Lapsed, Settled, InHandler
<1> QED BY <1>1, <1>5, <1>6, <1>8, <1>9, <1>10 DEF Inv, ServiceType, NoLoopYet

LEMMA LoopExitStep == Inv /\ LoopExit => Inv'
<1> SUFFICES ASSUME Inv, LoopExit PROVE Inv'
  OBVIOUS
<1>1. /\ loop.at = "idle" /\ service = "stopped" /\ loop' = NoLoop
      /\ UNCHANGED <<jobs, file, service>>
  BY DEF LoopExit
<1>2. LoopType' /\ Held'
  BY <1>1, CronAssumption DEF LoopType, Held, InHandler, NoLoop
<1>3. NoStuckRunning'
  BY <1>1 DEF Inv, NoStuckRunning, InHandler
<1> QED
  BY <1>1, <1>2, <1>3
     DEF Inv, Store, StoreOK, ServiceType, NoLoopYet, RecurringScheduled

\* The job is gone: a job marked running is the one in the handler, and here
\* the loop is between two runs.
LEMMA SkipRunStep == ASSUME Inv, NEW j \in Job, SkipRun(j) PROVE Inv'
<1>1. /\ loop.at = "idle" /\ loop' = [loop EXCEPT !.due = @ \ {j}]
      /\ j \in DOMAIN jobs => jobs[j].running
      /\ UNCHANGED <<jobs, file, service>>
  BY DEF SkipRun
<1>2. /\ loop'.at = "idle" /\ loop'.due = loop.due \ {j}
      /\ loop'.job = loop.job /\ loop'.run = loop.run /\ loop'.copy = loop.copy
  BY <1>1 DEF Inv, LoopType
<1>3. service = "started" => j \notin DOMAIN jobs
  BY <1>1 DEF Inv, NoStuckRunning, InHandler
<1>4. LoopType'
  BY <1>1 DEF Inv, LoopType
<1>5. Held' /\ NoStuckRunning'
  BY <1>1, <1>2 DEF Inv, Held, NoStuckRunning, InHandler
<1>6. RecurringScheduled'
  BY <1>1, <1>2, <1>3 DEF Inv, RecurringScheduled, Scheduled, Lapsed, Settled, InHandler
<1>7. NoLoopYet'
  BY <1>1 DEF Inv, NoLoopYet, NoLoop
<1> QED BY <1>1, <1>4, <1>5, <1>6, <1>7 DEF Inv, Store, StoreOK, ServiceType

LEMMA BeginRunStep == ASSUME Inv, NEW j \in Job, BeginRun(j) PROVE Inv'
<1>1. PICK r \in RunId :
        /\ jobs' = [jobs EXCEPT ![j].running = TRUE, ![j].run = r]
        /\ loop' = [at |-> "begun", due |-> loop.due \ {j}, job |-> j, run |-> r,
                    copy |-> jobs'[j]]
  BY DEF BeginRun
<1>2. loop.at = "idle" /\ j \in DOMAIN jobs /\ Save /\ service' = service
  BY DEF BeginRun
<1>3. jobs[j] \in Records /\ Len(jobs[j].history) <= HistoryLimit
  BY <1>2 DEF Inv, Store, StoreOK
<1>4. PICK new : new = [jobs[j] EXCEPT !.running = TRUE, !.run = r]
  OBVIOUS
<1>5. /\ new \in Records /\ new.running /\ new.run = r
      /\ new.history = jobs[j].history /\ new.enabled = jobs[j].enabled
  BY <1>3, <1>4 DEF Records
<1>6. jobs' = [jobs EXCEPT ![j] = new]
  BY <1>1, <1>2, <1>4
<1>7. Store(jobs)'
  BY <1>2, <1>3, <1>5, <1>6, ChangedRecord DEF Inv
<1>8. Store(file)'
  BY <1>2, <1>7, SaveKeeps DEF Inv
<1>9. jobs'[j] = new
  BY <1>2, <1>6
<1>10. service \notin {"down", "loaded"}
  BY <1>2 DEF Inv, NoLoopYet, NoLoop
<1>11. LoopType'
  <2>1. loop' = [at |-> "begun", due |-> loop.due \ {j}, job |-> j, run |-> r, copy |-> new]
    BY <1>1, <1>9
  <2> QED BY <2>1, <1>3, <1>5 DEF Inv, LoopType
<1>12. loop'.at = "begun" /\ loop'.job = j /\ loop'.run = r /\ loop'.copy = new
       /\ loop'.due = loop.due \ {j}
  BY <1>1, <1>9
<1>13. Held'
  BY <1>5, <1>9, <1>12 DEF Held, InHandler
<1>14. NoStuckRunning'
  BY <1>2, <1>5, <1>6, <1>9, <1>12 DEF Inv, NoStuckRunning, InHandler
<1>15. RecurringScheduled'
  BY <1>2, <1>6, <1>12 DEF Inv, RecurringScheduled, Scheduled, Lapsed, Settled, InHandler
<1> QED
  BY <1>2, <1>7, <1>8, <1>10, <1>11, <1>13, <1>14, <1>15 DEF Inv, ServiceType, NoLoopYet

\* The stale copy that is written back holds the same run.
LEMMA PersistContextStep == Inv /\ PersistContext => Inv'
<1> SUFFICES ASSUME Inv, PersistContext PROVE Inv'
  OBVIOUS
<1>1. /\ loop.at = "begun" /\ service' = service
      /\ loop' = [loop EXCEPT !.at = "handler", !.copy = NoJob]
  BY DEF PersistContext
<1>2. /\ loop'.at = "handler" /\ loop'.due = loop.due
      /\ loop'.job = loop.job /\ loop'.run = loop.run
  BY <1>1 DEF Inv, LoopType
<1>3. LoopType'
  BY <1>1 DEF Inv, LoopType
<1>4. service \notin {"down", "loaded"}
  BY <1>1 DEF Inv, NoLoopYet, NoLoop
<1>5. CASE loop.job \in DOMAIN jobs
  <2>1. jobs' = [jobs EXCEPT ![loop.job] = loop.copy] /\ Save
    BY <1>5 DEF PersistContext
  <2>2. /\ loop.copy \in Records /\ Len(loop.copy.history) <= HistoryLimit
        /\ loop.copy.running /\ loop.copy.run = loop.run /\ loop.run \in RunId
    BY <1>1 DEF Inv, LoopType, Held
  <2>3. Store(jobs)'
    BY <1>5, <2>1, <2>2, ChangedRecord DEF Inv
  <2>4. Store(file)'
    BY <2>1, <2>3, SaveKeeps DEF Inv
  <2>5. Held'
    BY <1>2, <1>5, <2>1, <2>2 DEF Held, InHandler
  <2>6. NoStuckRunning'
    BY <1>1, <1>2, <1>5, <2>1, <2>2 DEF Inv, NoStuckRunning, InHandler
  <2>7. RecurringScheduled'
    BY <1>1, <1>2, <1>5, <2>1 DEF Inv, RecurringScheduled, Scheduled, Lapsed, Settled, InHandler
  <2> QED BY <1>1, <1>3, <1>4, <2>3, <2>4, <2>5, <2>6, <2>7 DEF Inv, ServiceType, NoLoopYet
<1>6. CASE loop.job \notin DOMAIN jobs
  <2>1. UNCHANGED <<jobs, file>>
    BY <1>6 DEF PersistContext
  <2>2. Store(jobs)' /\ Store(file)'
    BY <2>1 DEF Inv, Store, StoreOK
  <2>3. Held' /\ NoStuckRunning'
    BY <1>1, <1>2, <1>6, <2>1 DEF Inv, Held, NoStuckRunning, InHandler
  <2>4. RecurringScheduled'
    BY <1>1, <1>2, <1>6, <2>1 DEF Inv, RecurringScheduled, Scheduled, Lapsed, Settled, InHandler
  <2> QED BY <1>1, <1>3, <1>4, <2>2, <2>3, <2>4 DEF Inv, ServiceType, NoLoopYet
<1> QED BY <1>5, <1>6

\* The run ends in its own record, which then has a next run.
LEMMA FinishRunStep == Inv /\ FinishRun => Inv'
<1> SUFFICES ASSUME Inv, FinishRun PROVE Inv'
  OBVIOUS
<1>1. /\ loop.at = "handler" /\ service' = service
      /\ loop' = [IdleLoop EXCEPT !.due = loop.due]
  BY DEF FinishRun
<1>2. loop'.at = "idle" /\ loop'.due = loop.due
  BY <1>1 DEF IdleLoop, NoLoop
<1>3. LoopType'
  BY <1>1, CronAssumption DEF Inv, LoopType, IdleLoop, NoLoop
<1>4. service \notin {"down", "loaded"}
  BY <1>1 DEF Inv, NoLoopYet, NoLoop
<1>5. Held'
  BY <1>2 DEF Held, InHandler
<1>6. \A i \in DOMAIN jobs : i # loop.job => ~jobs[i].running
  BY <1>4 DEF Inv, ServiceType, NoStuckRunning, InHandler
<1>7. service = "started" =>
        \A i \in DOMAIN jobs :
          i # loop.job /\ jobs[i].enabled /\ Kind[i] # "at"
            => Settled(i, jobs[i].next) \/ i \in loop.due
  BY DEF Inv, RecurringScheduled, Scheduled, Lapsed, Settled, InHandler
<1>8. SUFFICES /\ Store(jobs)' /\ Store(file)'
               /\ \A i \in DOMAIN jobs' :
                    \/ i \in DOMAIN jobs /\ i # loop.job /\ jobs'[i] = jobs[i]
                    \/ /\ ~jobs'[i].running
                       /\ jobs'[i].enabled /\ Kind[i] # "at" => Settled(i, jobs'[i].next)
  <2>1. NoStuckRunning'
    BY <1>6, <1>8 DEF NoStuckRunning
  <2>2. RecurringScheduled'
    BY <1>1, <1>2, <1>7, <1>8 DEF RecurringScheduled, Scheduled, Lapsed, Settled
  <2> QED BY <1>1, <1>3, <1>4, <1>5, <1>8, <2>1, <2>2 DEF Inv, ServiceType, NoLoopYet
<1>9. CASE loop.job \notin DOMAIN jobs
  <2>1. UNCHANGED <<jobs, file>>
    BY <1>9 DEF FinishRun
  <2> QED BY <1>9, <2>1 DEF Inv, Store, StoreOK
<1>10. CASE loop.job \in DOMAIN jobs /\ Kind[loop.job] = "at"
  <2>1. jobs' = Without(loop.job) /\ Save
    BY <1>10 DEF FinishRun
  <2>2. Store(jobs)'
    BY <2>1, RemovedRecord DEF Inv
  <2>3. Store(file)'
    BY <2>1, <2>2, SaveKeeps DEF Inv
  <2> QED BY <2>1, <2>2, <2>3 DEF Without
<1>11. CASE loop.job \in DOMAIN jobs /\ Kind[loop.job] # "at"
  <2>1. PICK st \in {"ok", "error"},
             t \in IF jobs[loop.job].enabled THEN NextTimes(loop.job, jobs[loop.job])
                                             ELSE {NoTime} :
          jobs' = [jobs EXCEPT ![loop.job] = [Recorded(@, st) EXCEPT !.next = t]]
    BY <1>11 DEF FinishRun
  <2>2. Save
    BY <1>11 DEF FinishRun
  <2>3. /\ jobs[loop.job] \in Records /\ Len(jobs[loop.job].history) <= HistoryLimit
        /\ loop.job \in Job
    BY <1>11 DEF Inv, Store, StoreOK
  <2>4. jobs[loop.job].run \in RunId
    BY <1>1, <1>11 DEF Inv, LoopType, Held, InHandler
  <2>5. PICK rec : rec = Recorded(jobs[loop.job], st)
    OBVIOUS
  <2>6. /\ rec \in Records /\ Len(rec.history) <= HistoryLimit
        /\ ~rec.running /\ rec.enabled = jobs[loop.job].enabled
    BY <2>3, <2>4, <2>5, RecordedType
  <2>7. t \in Time /\ (rec.enabled => Settled(loop.job, t))
    BY <1>11, <2>1, <2>3, <2>6, NextTimesType DEF Time
  <2>8. PICK new : new = [rec EXCEPT !.next = t]
    OBVIOUS
  <2>9. /\ new \in Records /\ Len(new.history) <= HistoryLimit
        /\ ~new.running /\ (new.enabled => Settled(loop.job, new.next))
    BY <2>6, <2>7, <2>8 DEF Records
  <2>10. jobs' = [jobs EXCEPT ![loop.job] = new]
    BY <2>1, <2>5, <2>8
  <2>11. Store(jobs)'
    BY <1>11, <2>9, <2>10, ChangedRecord DEF Inv
  <2>12. Store(file)'
    BY <2>2, <2>11, SaveKeeps DEF Inv
  <2> QED BY <1>11, <2>9, <2>10, <2>11, <2>12
<1> QED BY <1>9, <1>10, <1>11

-----------------------------------------------------------------------------
(* The theorems.                                                            *)

LEMMA Stutter == Inv /\ UNCHANGED vars => Inv'
BY DEF Inv, vars, Store, StoreOK, LoopType, ServiceType, NoLoopYet, Held,
       NoStuckRunning, RecurringScheduled, Scheduled, Lapsed, Settled, InHandler

LEMMA StepInv == Inv /\ [Next]_vars => Inv'
<1> SUFFICES ASSUME Inv, [Next]_vars PROVE Inv'
  OBVIOUS
<1>1. CASE New \/ Start \/ Stop \/ Exit \/ Tick
  BY <1>1, NewStep, StartStep, StopStep, ExitStep, TickStep
<1>2. CASE Conversation
  BY <1>2, AddStep, RemoveStep, EnableStep, DisableStep DEF Conversation
<1>3. CASE RunLoop
  BY <1>3, CheckJobsStep, LoopExitStep, SkipRunStep, BeginRunStep, PersistContextStep,
     FinishRunStep DEF RunLoop
<1>4. CASE UNCHANGED vars
  BY <1>4, Stutter
<1> QED BY <1>1, <1>2, <1>3, <1>4 DEF Next

\* The inductive invariant: stores, the state of the loop, and its run.
THEOREM Invariant == Spec => []Inv
<1>1. Init => Inv
  BY InitInv
<1>2. Inv /\ [Next]_vars => Inv'
  BY StepInv
<1> QED BY <1>1, <1>2, PTL DEF Spec

\* After restarts, stale writes and failed saves, no job stays marked as
\* running unless the loop runs it (service_runner.go:32).
THEOREM NeverStuck == Spec => []NoStuckRunning
<1>1. Inv => NoStuckRunning
  BY DEF Inv
<1> QED BY <1>1, Invariant, PTL

\* No enabled recurring job is left without a next run
\* (service_runner.go:126-142).
THEOREM AlwaysScheduled == Spec => []RecurringScheduled
<1>1. Inv => RecurringScheduled
  BY DEF Inv
<1> QED BY <1>1, Invariant, PTL

\* Every variable keeps its type and the histories stay within their limit.
THEOREM TypeCorrect == Spec => []TypeOK
<1>1. Inv => TypeOK
  BY DEF Inv, TypeOK, Store, LoopType, ServiceType
<1> QED BY <1>1, Invariant, PTL

-----------------------------------------------------------------------------
(* RunLedger, where jobs.json can be written.  A begun run that is not      *)
(* saved is forgotten by a crash, so the refinement needs every save to     *)
(* succeed: then the file is what the running process holds, and it marks   *)
(* at most one job as running.                                              *)

Saved ==
  /\ Up => file = jobs
  /\ \A i, j \in DOMAIN file : file[i].running /\ file[j].running => i = j
  /\ \A j \in DOMAIN file : ~file[j].running => file[j].run = NoRun
  /\ loop.at = "begun" /\ loop.job \in DOMAIN jobs =>
       loop.copy.history = jobs[loop.job].history

\* What jobs.json tells of a job.
HistoryOf(j) == IF j \in DOMAIN file THEN file[j].history ELSE <<>>
RunOf(j) == IF j \in DOMAIN file THEN file[j].run ELSE NoRun
SameView(j) == HistoryOf(j)' = HistoryOf(j) /\ RunOf(j)' = RunOf(j)

\* The run in the hands of the loop is the one jobs.json marks.
LEMMA CurrentInFile == Inv /\ Saved => \A j \in Job : CurrentRun(j) = RunOf(j)
<1> SUFFICES ASSUME Inv, Saved, NEW j \in Job, j \in DOMAIN file, InHandler(j)
             PROVE  loop.run = file[j].run
  BY DEF CurrentRun, RunOf
<1>1. Up
  BY DEF Inv, NoLoopYet, NoLoop, InHandler, Up
<1> QED BY <1>1 DEF Inv, Saved, Held

LEMMA ViewStutters ==
  ASSUME \A j \in Job : CurrentRun(j) = RunOf(j),
         \A j \in Job : CurrentRun(j)' = RunOf(j)',
         \A j \in Job : SameView(j)
  PROVE  UNCHANGED RL!vars
<1>1. \A j \in Job : CurrentRun(j)' = CurrentRun(j)
  BY DEF SameView
<1>2. \A j \in Job : HistoryOf(j)' = HistoryOf(j)
  BY DEF SameView
<1>3. [j \in Job |-> CurrentRun(j)]' = [j \in Job |-> CurrentRun(j)]
  BY <1>1
<1>4. [j \in Job |-> IF j \in DOMAIN file THEN file[j].history ELSE <<>>]'
        = [j \in Job |-> IF j \in DOMAIN file THEN file[j].history ELSE <<>>]
  BY <1>2 DEF HistoryOf
<1> QED BY <1>3, <1>4 DEF RL!vars

\* A run begins, ends with a record, or is forgotten with its job.
ViewBegins(j) ==
  \E r \in RunId :
    /\ RunOf(j) = NoRun
    /\ \A i \in DOMAIN HistoryOf(j) : HistoryOf(j)[i].run # r
    /\ HistoryOf(j)' = HistoryOf(j) /\ RunOf(j)' = r

ViewEnds(j) ==
  \E s \in {"ok", "error", "aborted"} :
    /\ RunOf(j) # NoRun
    /\ HistoryOf(j)' = RL!Record(HistoryOf(j), RunOf(j), s) /\ RunOf(j)' = NoRun

ViewForgets(j) == HistoryOf(j)' = <<>> /\ RunOf(j)' = NoRun

ViewStep ==
  \/ \A j \in Job : SameView(j)
  \/ \E j \in Job : /\ ViewBegins(j) \/ ViewEnds(j) \/ ViewForgets(j)
                    /\ \A i \in Job \ {j} : SameView(i)

\* A step of what the file tells is a step of the ledger.
LEMMA ViewImplements ==
  ASSUME \A j \in Job : CurrentRun(j) = RunOf(j),
         \A j \in Job : CurrentRun(j)' = RunOf(j)',
         ViewStep
  PROVE  [RL!Next]_(RL!vars)
<1>1. CASE \A j \in Job : SameView(j)
  BY <1>1, ViewStutters
<1>2. ASSUME NEW j \in Job, \A i \in Job \ {j} : SameView(i),
             ViewBegins(j) \/ ViewEnds(j) \/ ViewForgets(j)
      PROVE  RL!Next
  <2> DEFINE led == [i \in Job |-> IF i \in DOMAIN file THEN file[i].history ELSE <<>>]
             cur == [i \in Job |-> CurrentRun(i)]
  <2>1. /\ led[j] = HistoryOf(j) /\ cur[j] = RunOf(j)
        /\ led = [i \in Job |-> HistoryOf(i)] /\ cur = [i \in Job |-> RunOf(i)]
    BY DEF HistoryOf
  <2>2. /\ led' = [i \in Job |-> HistoryOf(i)'] /\ cur' = [i \in Job |-> RunOf(i)']
    BY DEF HistoryOf
  <2>3. /\ led' = [led EXCEPT ![j] = HistoryOf(j)']
        /\ cur' = [cur EXCEPT ![j] = RunOf(j)']
    <3>1. \A i \in Job \ {j} : HistoryOf(i)' = HistoryOf(i) /\ RunOf(i)' = RunOf(i)
      BY <1>2 DEF SameView
    <3> HIDE DEF led, cur
    <3> QED BY <2>1, <2>2, <3>1
  <2>4. CASE ViewBegins(j)
    <3>1. PICK r \in RunId :
            /\ cur[j] = NoRun /\ \A i \in DOMAIN led[j] : led[j][i].run # r
            /\ HistoryOf(j)' = led[j] /\ RunOf(j)' = r
      BY <2>1, <2>4 DEF ViewBegins
    <3>2. led' = led /\ cur' = [cur EXCEPT ![j] = r]
      BY <2>3, <3>1
    <3>3. RL!Begin(j, r)
      BY <3>1, <3>2 DEF RL!Begin
    <3> QED BY <3>3 DEF RL!Next
  <2>5. CASE ViewEnds(j)
    <3>1. PICK s \in {"ok", "error", "aborted"} :
            /\ cur[j] # NoRun
            /\ HistoryOf(j)' = RL!Record(led[j], cur[j], s) /\ RunOf(j)' = NoRun
      BY <2>1, <2>5 DEF ViewEnds
    <3>2. /\ led' = [led EXCEPT ![j] = RL!Record(@, cur[j], s)]
          /\ cur' = [cur EXCEPT ![j] = NoRun]
      BY <2>3, <3>1
    <3>3. RL!End(j, s)
      BY <3>1, <3>2 DEF RL!End
    <3> QED BY <3>3 DEF RL!Next, RL!Outcome
  <2>6. CASE ViewForgets(j)
    <3>1. led' = [led EXCEPT ![j] = <<>>] /\ cur' = [cur EXCEPT ![j] = NoRun]
      BY <2>3, <2>6 DEF ViewForgets
    <3>2. RL!Forget(j)
      BY <3>1 DEF RL!Forget
    <3> QED BY <3>2 DEF RL!Next
  <2> QED BY <1>2, <2>4, <2>5, <2>6
<1> QED BY <1>1, <1>2 DEF ViewStep

-----------------------------------------------------------------------------
(* Every step, in the file.                                                 *)

LEMMA InitSaved == Init => Saved
BY DEF Init, Saved, Up, NoJobs, NoLoop

\* Nothing is written, and the running process goes on with what it holds.
LEMMA UnwrittenStep ==
  ASSUME Saved, file' = file, Up' => file' = jobs',
         loop'.at = "begun" => loop' = loop /\ jobs' = jobs
  PROVE  Saved' /\ ViewStep
BY DEF Saved, ViewStep, SameView, HistoryOf, RunOf

\* A save that changes neither the run nor the history of any record.
LEMMA QuietStep ==
  ASSUME Saved, Up, file' = jobs', DOMAIN jobs' = DOMAIN jobs,
         \A j \in DOMAIN jobs :
           /\ jobs'[j].running = jobs[j].running /\ jobs'[j].run = jobs[j].run
           /\ jobs'[j].history = jobs[j].history,
         loop'.at = "begun" => /\ loop.at = "begun" /\ loop'.job = loop.job
                               /\ loop'.copy.history = loop.copy.history
  PROVE  Saved' /\ ViewStep
<1>1. file = jobs
  BY DEF Saved
<1>2. Saved'
  BY <1>1 DEF Saved
<1>3. \A j \in Job : SameView(j)
  BY <1>1 DEF SameView, HistoryOf, RunOf
<1> QED BY <1>2, <1>3 DEF ViewStep

\* A record that does not run, with no history, appears.
LEMMA AddView ==
  ASSUME ~SaveMayFail, Inv, Saved, NEW j \in Job, Add(j)
  PROVE  Saved' /\ ViewStep
<1> DEFINE Added(left) == [enabled |-> TRUE, next |-> NoTime, left |-> left,
                           running |-> FALSE, run |-> NoRun, history |-> <<>>]
<1>1. \E left, t :
        jobs' = [i \in DOMAIN jobs \cup {j} |->
                   IF i = j THEN [Added(left) EXCEPT !.next = t] ELSE jobs[i]]
  <2>1. PICK left \in IF Kind[j] = "at" THEN 1..Interval ELSE {0} :
          \E t \in NextTimes(j, Added(left)) :
            jobs' = [i \in DOMAIN jobs \cup {j} |->
                       IF i = j THEN [Added(left) EXCEPT !.next = t] ELSE jobs[i]]
    BY DEF Add
  <2> HIDE DEF Added
  <2>2. PICK time \in NextTimes(j, Added(left)) :
          jobs' = [i \in DOMAIN jobs \cup {j} |->
                     IF i = j THEN [Added(left) EXCEPT !.next = time] ELSE jobs[i]]
    BY <2>1
  <2>3. \E t : jobs' = [i \in DOMAIN jobs \cup {j} |->
                          IF i = j THEN [Added(left) EXCEPT !.next = t] ELSE jobs[i]]
    BY <2>2, Zenon
  <2> QED BY <2>3, Zenon
<1>2. /\ Up /\ file = jobs /\ file' = jobs' /\ loop' = loop
      /\ j \notin DOMAIN jobs /\ loop.job # j
  BY DEF Add, Save, Saved
<1>3. /\ DOMAIN jobs' = DOMAIN jobs \cup {j}
      /\ ~jobs'[j].running /\ jobs'[j].run = NoRun /\ jobs'[j].history = <<>>
      /\ \A i \in DOMAIN jobs : jobs'[i] = jobs[i]
  BY <1>1, <1>2
<1>4. Saved'
  BY <1>2, <1>3 DEF Saved
<1>5. \A i \in Job : SameView(i)
  BY <1>2, <1>3 DEF SameView, HistoryOf, RunOf
<1> QED BY <1>4, <1>5 DEF ViewStep

\* The job goes, with its run and its history.
LEMMA WithoutView ==
  ASSUME Saved, Up, NEW j \in Job, jobs' = Without(j), file' = jobs',
         loop'.at = "begun" => loop' = loop
  PROVE  Saved' /\ ViewStep
<1>1. file = jobs
  BY DEF Saved
<1>2. /\ DOMAIN jobs' = DOMAIN jobs \ {j}
      /\ \A i \in DOMAIN jobs' : i \in DOMAIN jobs /\ jobs'[i] = jobs[i]
  BY DEF Without
<1>3. Saved'
  BY <1>1, <1>2 DEF Saved
<1>4. ViewForgets(j) /\ \A i \in Job \ {j} : SameView(i)
  BY <1>1, <1>2 DEF ViewForgets, SameView, HistoryOf, RunOf
<1> QED BY <1>3, <1>4 DEF ViewStep

LEMMA ConversationView ==
  ASSUME ~SaveMayFail, Inv, Saved, Conversation
  PROVE  Saved' /\ ViewStep
<1>1. PICK j \in Job : Add(j) \/ Remove(j) \/ Enable(j) \/ Disable(j)
  BY DEF Conversation
<1>2. CASE Remove(j)
  BY <1>2, WithoutView DEF Remove, Save
<1>3. CASE Enable(j)
  <2>1. PICK t : jobs' = [jobs EXCEPT ![j].enabled = TRUE, ![j].next = t]
    BY <1>3 DEF Enable
  <2>2. j \in DOMAIN jobs /\ Up /\ file' = jobs' /\ loop' = loop /\ jobs[j] \in Records
    BY <1>3 DEF Enable, Save, Inv, Store, StoreOK
  <2> QED BY <2>1, <2>2, QuietStep DEF Records
<1>4. CASE Disable(j)
  <2>1. jobs' = [jobs EXCEPT ![j].enabled = FALSE, ![j].next = NoTime]
    BY <1>4 DEF Disable
  <2>2. j \in DOMAIN jobs /\ Up /\ file' = jobs' /\ loop' = loop /\ jobs[j] \in Records
    BY <1>4 DEF Disable, Save, Inv, Store, StoreOK
  <2> QED BY <2>1, <2>2, QuietStep DEF Records
<1> QED BY <1>1, <1>2, <1>3, <1>4, AddView

\* The end of a run is one record more in the ledger.
LEMMA RecordedView ==
  ASSUME NEW rec \in Records, NEW s, NEW t
  PROVE  LET new == [Recorded(rec, s) EXCEPT !.next = t]
         IN /\ new.history = RL!Record(rec.history, rec.run, s)
            /\ new.run = NoRun /\ ~new.running
BY DEF Recorded, RL!Record, Records

\* A start ends at most one run, as aborted.
LEMMA StartView ==
  ASSUME ~SaveMayFail, Inv, Saved, Start
  PROVE  Saved' /\ ViewStep
<1>1. PICK next \in [DOMAIN file -> Time] :
        jobs' = [j \in DOMAIN file |-> [Cleared(file[j]) EXCEPT !.next = next[j]]]
  BY DEF Start
<1>2. file' = jobs' /\ loop'.at = "idle" /\ DOMAIN jobs' = DOMAIN file
  BY <1>1 DEF Start, IdleLoop, NoLoop
<1>3. \A j \in DOMAIN file : /\ j \in Job /\ file[j] \in Records
                             /\ file[j].running => file[j].run \in RunId
  BY DEF Inv, Store, StoreOK
<1>4. ASSUME NEW j \in DOMAIN file, file[j].running
      PROVE  /\ jobs'[j].history = RL!Record(file[j].history, file[j].run, "aborted")
             /\ jobs'[j].run = NoRun /\ ~jobs'[j].running
  <2>1. jobs'[j] = [Recorded(file[j], "aborted") EXCEPT !.next = next[j]]
    BY <1>1, <1>4 DEF Cleared
  <2>2. file[j] \in Records
    BY <1>3
  <2> QED BY <2>1, <2>2, RecordedView
<1>5. ASSUME NEW j \in DOMAIN file, ~file[j].running
      PROVE  /\ jobs'[j].history = file[j].history
             /\ jobs'[j].run = file[j].run /\ ~jobs'[j].running
  BY <1>1, <1>3, <1>5 DEF Cleared, Records
<1>6. Saved'
  BY <1>2, <1>4, <1>5 DEF Saved
<1>7. \A j \in Job : j \in DOMAIN file => file[j].running \/ SameView(j)
  BY <1>2, <1>5 DEF SameView, HistoryOf, RunOf
<1>8. \A j \in Job : j \notin DOMAIN file => SameView(j)
  BY <1>2 DEF SameView, HistoryOf, RunOf
<1>9. CASE \E j \in DOMAIN file : file[j].running
  <2>1. PICK j \in DOMAIN file : file[j].running
    BY <1>9
  <2>2. ViewEnds(j)
    BY <1>2, <1>3, <1>4, <2>1, CronAssumption DEF ViewEnds, HistoryOf, RunOf
  <2>3. \A i \in Job \ {j} : SameView(i)
    BY <1>7, <1>8, <2>1 DEF Saved
  <2> QED BY <1>3, <1>6, <2>1, <2>2, <2>3 DEF ViewStep
<1>10. CASE \A j \in DOMAIN file : ~file[j].running
  BY <1>6, <1>7, <1>8, <1>10 DEF ViewStep
<1> QED BY <1>9, <1>10

\* Time changes no run and no history.
LEMMA TickView ==
  ASSUME Inv, Saved, Tick
  PROVE  Saved' /\ ViewStep
<1> DEFINE Later(t) == IF t \in Nat \ {0} THEN t - 1 ELSE t
           Aged(rec) == [rec EXCEPT !.next = Later(@), !.left = Later(@)]
<1>1. \A rec \in Records : /\ Aged(rec).history = rec.history
                           /\ Aged(rec).running = rec.running
                           /\ Aged(rec).run = rec.run
  BY DEF Records
<1>2. /\ jobs' = [j \in DOMAIN jobs |-> Aged(jobs[j])]
      /\ file' = [j \in DOMAIN file |-> Aged(file[j])]
      /\ loop' = IF loop.at = "begun" THEN [loop EXCEPT !.copy = Aged(@)] ELSE loop
      /\ service' = service
  BY DEF Tick
<1> HIDE DEF Aged
<1>3. /\ \A j \in DOMAIN jobs : jobs[j] \in Records
      /\ \A j \in DOMAIN file : file[j] \in Records
      /\ loop.at = "begun" => loop.copy \in Records
  BY DEF Inv, Store, StoreOK, LoopType
<1>4. /\ loop'.at = loop.at /\ loop'.job = loop.job
      /\ loop.at = "begun" => loop'.copy = Aged(loop.copy)
  BY <1>2 DEF Inv, LoopType
<1>5. Saved'
  <2>1. Up' => file' = jobs'
    BY <1>2 DEF Saved, Up
  <2>2. \A j \in DOMAIN file : file'[j].running = file[j].running /\ file'[j].run = file[j].run
    BY <1>1, <1>2, <1>3
  <2>3. \A i, j \in DOMAIN file' : file'[i].running /\ file'[j].running => i = j
    BY <1>2, <2>2 DEF Saved
  <2>4. \A j \in DOMAIN file' : ~file'[j].running => file'[j].run = NoRun
    BY <1>2, <2>2 DEF Saved
  <2>5. loop'.at = "begun" /\ loop'.job \in DOMAIN jobs' =>
          loop'.copy.history = jobs'[loop'.job].history
    BY <1>1, <1>2, <1>3, <1>4 DEF Saved
  <2> QED BY <2>1, <2>3, <2>4, <2>5 DEF Saved
<1>6. \A j \in Job : SameView(j)
  BY <1>1, <1>2, <1>3 DEF SameView, HistoryOf, RunOf
<1> QED BY <1>5, <1>6 DEF ViewStep

LEMMA ProcessView ==
  ASSUME Inv, Saved, New \/ Stop \/ Exit
  PROVE  Saved' /\ ViewStep
<1>1. CASE New
  <2>1. file' = file /\ jobs' = file /\ loop' = NoLoop
    BY <1>1 DEF New, Inv, NoLoopYet
  <2> QED BY <2>1, UnwrittenStep DEF NoLoop
<1>2. CASE Stop
  BY <1>2, UnwrittenStep DEF Stop, Saved, Up
<1>3. CASE Exit
  BY <1>3, UnwrittenStep DEF Exit, Up, NoLoop
<1> QED BY <1>1, <1>2, <1>3

LEMMA CheckJobsView ==
  ASSUME ~SaveMayFail, Inv, Saved, CheckJobs
  PROVE  Saved' /\ ViewStep
<1> DEFINE due == {j \in DOMAIN jobs : Due(j)}
<1>1. /\ jobs' = [j \in DOMAIN jobs |->
                    IF j \in due THEN [jobs[j] EXCEPT !.next = NoTime] ELSE jobs[j]]
      /\ loop' = [loop EXCEPT !.due = due]
      /\ loop.at = "idle" /\ Up /\ file' = jobs'
  BY DEF CheckJobs, Save, Up
<1>2. loop'.at = "idle"
  BY <1>1 DEF Inv, LoopType
<1> HIDE DEF due
<1>3. \A j \in DOMAIN jobs : jobs[j] \in Records
  BY DEF Inv, Store, StoreOK
<1> QED BY <1>1, <1>2, <1>3, QuietStep DEF Records

\* The loop holds no other run, so no record is marked as running.
LEMMA BeginRunView ==
  ASSUME ~SaveMayFail, Inv, Saved, NEW j \in Job, BeginRun(j)
  PROVE  Saved' /\ ViewStep
<1>1. PICK r \in RunId :
        /\ Fresh(r)
        /\ jobs' = [jobs EXCEPT ![j].running = TRUE, ![j].run = r]
        /\ loop' = [at |-> "begun", due |-> loop.due \ {j}, job |-> j, run |-> r,
                    copy |-> jobs'[j]]
  BY DEF BeginRun
<1>2. /\ loop.at = "idle" /\ j \in DOMAIN jobs /\ ~jobs[j].running
      /\ file' = jobs' /\ service \in {"started", "stopped"}
  BY DEF BeginRun, Save, Inv, NoLoopYet, NoLoop, ServiceType
<1>3. file = jobs /\ jobs[j] \in Records /\ jobs[j].run = NoRun
  BY <1>2 DEF Saved, Up, Inv, Store, StoreOK
<1>4. /\ DOMAIN jobs' = DOMAIN jobs
      /\ jobs'[j].running /\ jobs'[j].run = r /\ jobs'[j].history = jobs[j].history
      /\ \A i \in DOMAIN jobs : i # j => jobs'[i] = jobs[i]
  BY <1>1, <1>2, <1>3 DEF Records
<1>5. \A i \in DOMAIN jobs : ~jobs[i].running
  BY <1>2 DEF Inv, NoStuckRunning, InHandler
<1>6. Saved'
  BY <1>1, <1>2, <1>3, <1>4, <1>5 DEF Saved
<1>7. ViewBegins(j)
  BY <1>1, <1>2, <1>3, <1>4 DEF ViewBegins, HistoryOf, RunOf, Fresh
<1>8. \A i \in Job \ {j} : SameView(i)
  BY <1>2, <1>3, <1>4 DEF SameView, HistoryOf, RunOf
<1> QED BY <1>6, <1>7, <1>8 DEF ViewStep

\* The copy that is written back has the run and the history of the record.
LEMMA PersistContextView ==
  ASSUME ~SaveMayFail, Inv, Saved, PersistContext
  PROVE  Saved' /\ ViewStep
<1>1. loop.at = "begun" /\ loop' = [loop EXCEPT !.at = "handler", !.copy = NoJob]
  BY DEF PersistContext
<1>2. loop'.at = "handler" /\ Up
  BY <1>1 DEF Inv, LoopType, NoLoopYet, NoLoop, Up
<1>3. CASE loop.job \in DOMAIN jobs
  <2>1. jobs' = [jobs EXCEPT ![loop.job] = loop.copy] /\ file' = jobs'
    BY <1>3 DEF PersistContext, Save
  <2>2. /\ loop.copy.running = jobs[loop.job].running
        /\ loop.copy.run = jobs[loop.job].run
        /\ loop.copy.history = jobs[loop.job].history
    <3>1. jobs[loop.job].running /\ jobs[loop.job].run = loop.run
      BY <1>1, <1>3 DEF Inv, Held, InHandler
    <3>2. loop.copy.running /\ loop.copy.run = loop.run /\ loop.copy \in Records
      BY <1>1 DEF Inv, Held, LoopType
    <3>3. jobs[loop.job] \in Records
      BY <1>3 DEF Inv, Store, StoreOK
    <3> QED BY <1>1, <1>3, <3>1, <3>2, <3>3 DEF Saved, Records
  <2> QED BY <1>2, <1>3, <2>1, <2>2, QuietStep
<1>4. CASE loop.job \notin DOMAIN jobs
  BY <1>2, <1>4, UnwrittenStep DEF PersistContext, Saved, Up
<1> QED BY <1>3, <1>4

\* The run ends with a record, or is forgotten with the job of a reminder.
LEMMA FinishRunView ==
  ASSUME ~SaveMayFail, Inv, Saved, FinishRun
  PROVE  Saved' /\ ViewStep
<1>1. loop.at = "handler" /\ loop'.at = "idle" /\ service' = service
  BY DEF FinishRun, IdleLoop, NoLoop
<1>2. Up /\ loop.job \in Job /\ file = jobs
  BY <1>1 DEF Inv, LoopType, NoLoopYet, NoLoop, Up, Saved
<1>j. PICK j \in Job : j = loop.job
  BY <1>2
<1>3. CASE j \notin DOMAIN jobs
  BY <1>1, <1>2, <1>j, <1>3, UnwrittenStep DEF FinishRun
<1>4. CASE j \in DOMAIN jobs /\ Kind[j] = "at"
  <2>1. jobs' = Without(j) /\ file' = jobs'
    BY <1>j, <1>4 DEF FinishRun, Save
  <2> QED BY <1>1, <1>2, <2>1, WithoutView
<1>5. CASE j \in DOMAIN jobs /\ Kind[j] # "at"
  <2>1. PICK s \in {"ok", "error"},
             t \in IF jobs[j].enabled THEN NextTimes(j, jobs[j]) ELSE {NoTime} :
          jobs' = [jobs EXCEPT ![j] = [Recorded(@, s) EXCEPT !.next = t]]
    BY <1>j, <1>5 DEF FinishRun
  <2>2. file' = jobs' /\ jobs[j] \in Records
    BY <1>j, <1>5 DEF FinishRun, Save, Inv, Store, StoreOK
  <2>3. jobs[j].running /\ jobs[j].run \in RunId
    BY <1>1, <1>j, <1>5 DEF Inv, Held, InHandler, LoopType
  <2>4. PICK new : new = [Recorded(jobs[j], s) EXCEPT !.next = t]
    OBVIOUS
  <2>5. /\ new.history = RL!Record(jobs[j].history, jobs[j].run, s)
        /\ new.run = NoRun /\ ~new.running
    BY <2>2, <2>4, RecordedView
  <2>6. jobs' = [jobs EXCEPT ![j] = new]
    BY <2>1, <2>4
  <2>7. Saved'
    BY <1>1, <1>2, <1>5, <2>2, <2>5, <2>6 DEF Saved
  <2>8. ViewEnds(j)
    <3>1. RunOf(j) = jobs[j].run /\ HistoryOf(j) = jobs[j].history
      BY <1>2, <1>5 DEF RunOf, HistoryOf
    <3>2. RunOf(j)' = new.run /\ HistoryOf(j)' = new.history
      BY <1>5, <2>2, <2>6 DEF RunOf, HistoryOf
    <3>3. jobs[j].run # NoRun
      BY <2>3, CronAssumption
    <3> QED BY <2>5, <3>1, <3>2, <3>3 DEF ViewEnds
  <2>9. \A i \in Job \ {j} : SameView(i)
    BY <1>2, <1>5, <2>2, <2>6 DEF SameView, HistoryOf, RunOf
  <2> QED BY <1>2, <2>7, <2>8, <2>9 DEF ViewStep
<1> QED BY <1>3, <1>4, <1>5

LEMMA RunLoopView ==
  ASSUME ~SaveMayFail, Inv, Saved, RunLoop
  PROVE  Saved' /\ ViewStep
<1>1. CASE CheckJobs \/ PersistContext \/ FinishRun
  BY <1>1, CheckJobsView, PersistContextView, FinishRunView
<1>2. CASE LoopExit
  BY <1>2, UnwrittenStep DEF LoopExit, NoLoop, Saved, Up
<1>3. ASSUME NEW j \in Job, SkipRun(j)
      PROVE  Saved' /\ ViewStep
  <2>1. loop'.at = "idle"
    BY <1>3 DEF SkipRun, Inv, LoopType
  <2> QED BY <1>3, <2>1, UnwrittenStep DEF SkipRun, Saved, Up
<1> QED BY <1>1, <1>2, <1>3, BeginRunView DEF RunLoop

\* One step of the service keeps the file as the process holds it, and is at
\* most one step of the ledger.
LEMMA LedgerStep ==
  ASSUME ~SaveMayFail
  PROVE  Inv /\ Saved /\ [Next]_vars => Saved' /\ [RL!Next]_(RL!vars)
<1> SUFFICES ASSUME Inv, Saved, [Next]_vars
             PROVE  Saved' /\ [RL!Next]_(RL!vars)
  OBVIOUS
<1>1. Saved' /\ ViewStep
  <2>1. CASE UNCHANGED vars
    BY <2>1, UnwrittenStep DEF vars, Saved, Up
  <2>2. CASE Next
    BY <2>2, ProcessView, StartView, TickView, ConversationView, RunLoopView DEF Next
  <2> QED BY <2>1, <2>2
<1>2. \A j \in Job : CurrentRun(j) = RunOf(j)
  BY CurrentInFile
<1>3. \A j \in Job : CurrentRun(j)' = RunOf(j)'
  <2>1. Inv'
    BY StepInv
  <2>2. (Inv /\ Saved => \A j \in Job : CurrentRun(j) = RunOf(j))'
    BY CurrentInFile, PTL
  <2> QED BY <1>1, <2>1, <2>2
<1> QED BY <1>1, <1>2, <1>3, ViewImplements

\* While jobs.json can be written, every run that begins is recorded exactly
\* once, across restarts, until its job is removed (service_store.go:107-128,
\* service_runner.go:30-142).
THEOREM ImplementsRunLedger == ASSUME ~SaveMayFail PROVE Spec => RefinesRunLedger
<1>1. Init => Inv /\ Saved /\ RL!Init
  <2>1. Init => RL!Init
    BY DEF Init, NoJobs, RL!Init, CurrentRun
  <2> QED BY <2>1, InitInv, InitSaved
<1>2. Inv /\ Saved /\ [Next]_vars => Inv' /\ Saved' /\ [RL!Next]_(RL!vars)
  BY StepInv, LedgerStep
<1> QED BY <1>1, <1>2, PTL DEF Spec, RefinesRunLedger, RL!Spec

=============================================================================
