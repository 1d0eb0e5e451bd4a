---------------------------- MODULE InboundQueue ----------------------------
(***************************************************************************)
(* The inbound half of the gateway: channel adapters publish messages on   *)
(* the MessageBus (pkg/bus/bus.go), AgentLoop.Run (pkg/agent/loop.go)      *)
(* routes each one to the bucket of its conversation, and one worker per   *)
(* bucket runs the messages of that bucket under a global semaphore.       *)
(* "/steer" messages bypass the queue while their bucket is active.  The   *)
(* session a run works on is resolved by resolveInboundSessionKey, which,  *)
(* unlike getBucketKey, follows the reply context of a quoted answer.      *)
(* Scheduled jobs run sessions directly, without a bucket.                 *)
(*                                                                         *)
(* fate and acc are history variables: fate says where a message is, acc   *)
(* numbers the messages in the order bus.inbound took them.  MaxIter is    *)
(* AgentInstance.MaxIterations.                                            *)
(***************************************************************************)
EXTENDS Naturals, Sequences, FiniteSets

CONSTANTS
  Msg,            \* inbound messages, each published at most once
  Key,            \* conversation keys: what getBucketKey returns
  Bucket,         \* [Msg -> Key]
  Steering,       \* the messages "/steer <text>" with a non-empty body
  Job,            \* direct runs of cron and heartbeat, each at most once
  JobSession,     \* [Job -> Key]
  Quote,          \* [Msg -> Msg \cup Job \cup {NoQuote}]: the answer quoted
  NoQuote, NoMsg,
  InboundCap, SessionCap, SteerCap, OutboundCap, MaxConcurrency, MaxIter,
  QueueModes      \* values of cfg.Gateway.InboundQueue.Enabled

ASSUME InboundQueueAssumption ==
  /\ Bucket \in [Msg -> Key]
  /\ Steering \subseteq Msg
  /\ JobSession \in [Job -> Key]
  /\ Quote \in [Msg -> Msg \cup Job \cup {NoQuote}]
  /\ Msg \cap Job = {}
  /\ IsFiniteSet(Msg) /\ IsFiniteSet(Key)
  /\ NoMsg \notin Msg
  /\ NoQuote \notin Msg \cup Job
  /\ InboundCap \in Nat /\ SessionCap \in Nat /\ SteerCap \in Nat
  /\ OutboundCap \in Nat \ {0}
  /\ MaxConcurrency \in Nat \ {0}
  /\ MaxIter \in Nat \ {0}
  /\ QueueModes \subseteq BOOLEAN

VARIABLES
  inbound,   \* bus.inbound, oldest first
  closing,   \* progress of MessageBus.Close
  ctxDone,   \* the gateway context is cancelled
  running,   \* al.running
  queue,     \* cfg.Gateway.InboundQueue.Enabled when the process started
  disp,      \* the goroutine of Run: its place and the message it holds
  ch, steer, active,  \* the bucket of each key
  worker,    \* place of the worker of each bucket
  wmsg,      \* the message the worker runs
  iter,      \* LLM iterations of its run
  sem,       \* tokens in globalSem
  job,       \* direct runs
  session,   \* session each run resolved
  answer,    \* what became of the answer of each run
  fate, acc

vars == <<inbound, closing, ctxDone, running, queue, disp, ch, steer, active, worker,
          wmsg, iter, sem, job, session, answer, fate, acc>>

Source == Msg \cup Job

Fates == {"new", "select", "rejected", "inbound", "drained", "disp", "ch",
          "steer", "run", "done", "absorbed", "discarded"}

DispPlaces == {"consume", "route", "steer", "send", "inline", "returned"}

\* none: no bucket yet; taken .. release: inside the body of the worker loop.
WorkerPlaces == {"none", "idle", "taken", "sem", "run", "reply", "release",
                 "deactivate", "exited"}

Init ==
  /\ inbound = <<>>
  /\ closing = "open"
  /\ ctxDone = FALSE
  /\ running = TRUE
  /\ queue \in QueueModes
  /\ disp = [at |-> "consume", msg |-> NoMsg]
  /\ ch = [k \in Key |-> <<>>]
  /\ steer = [k \in Key |-> <<>>]
  /\ active = [k \in Key |-> FALSE]
  /\ worker = [k \in Key |-> "none"]
  /\ wmsg = [k \in Key |-> NoMsg]
  /\ iter = [k \in Key |-> 0]
  /\ sem = 0
  /\ job = [j \in Job |-> "idle"]
  /\ session = [s \in Source |-> NoQuote]
  /\ answer = [s \in Source |-> "none"]
  /\ fate = [m \in Msg |-> "new"]
  /\ acc = [m \in Msg |-> 0]

-----------------------------------------------------------------------------
(* MessageBus.  closed is set, done is closed, the buffers are drained:     *)
(* three steps of Close that publishers and consumers interleave with.      *)

Closed == closing # "open"
DoneClosed == closing \in {"draining", "drained"}

busUnchanged == UNCHANGED <<inbound, closing>>
loopUnchanged == UNCHANGED <<disp, ch, steer, active, worker, wmsg, iter, sem>>
runUnchanged == UNCHANGED <<job, session, answer>>

NumAccepted == Cardinality({m \in Msg : acc[m] # 0})

\* A user can quote an answer only once the platform shows it.
PublishCheck(m) ==
  /\ fate[m] = "new"
  /\ Quote[m] # NoQuote => answer[Quote[m]] = "shown"
  /\ fate' = [fate EXCEPT ![m] = IF Closed \/ ctxDone THEN "rejected"
                                                      ELSE "select"]
  /\ UNCHANGED <<ctxDone, running, queue, acc>>
  /\ busUnchanged /\ loopUnchanged /\ runUnchanged

\* The select picks any ready case, so a send may win after done is closed.
PublishSend(m) ==
  /\ fate[m] = "select"
  /\ Len(inbound) < InboundCap
  /\ inbound' = Append(inbound, m)
  /\ fate' = [fate EXCEPT ![m] = "inbound"]
  /\ acc' = [acc EXCEPT ![m] = NumAccepted + 1]
  /\ UNCHANGED <<closing, ctxDone, running, queue>>
  /\ loopUnchanged /\ runUnchanged

PublishGiveUp(m) ==
  /\ fate[m] = "select"
  /\ DoneClosed \/ ctxDone
  /\ fate' = [fate EXCEPT ![m] = "rejected"]
  /\ UNCHANGED <<ctxDone, running, queue, acc>>
  /\ busUnchanged /\ loopUnchanged /\ runUnchanged

CloseFlag ==
  /\ ctxDone
  /\ closing = "open"
  /\ closing' = "flagged"
  /\ UNCHANGED <<inbound, ctxDone, running, queue, fate, acc>>
  /\ loopUnchanged /\ runUnchanged

CloseDone ==
  /\ closing = "flagged"
  /\ closing' = "draining"
  /\ UNCHANGED <<inbound, ctxDone, running, queue, fate, acc>>
  /\ loopUnchanged /\ runUnchanged

\* One receive of the drain loop, or its default case; outbound drains last.
CloseDrain ==
  /\ closing = "draining"
  /\ IF inbound = <<>>
     THEN /\ closing' = "drained"
          /\ answer' = [s \in Source |-> IF answer[s] = "queued" THEN "lost"
                                                                 ELSE answer[s]]
          /\ UNCHANGED <<inbound, fate>>
     ELSE /\ inbound' = Tail(inbound)
          /\ fate' = [fate EXCEPT ![Head(inbound)] = "drained"]
          /\ UNCHANGED <<closing, answer>>
  /\ UNCHANGED <<ctxDone, running, queue, acc, job, session>>
  /\ loopUnchanged

\* shutdownGateway: cancel, then Close, and AgentLoop.Stop at the end.
Cancel ==
  /\ ~ctxDone
  /\ ctxDone' = TRUE
  /\ UNCHANGED <<running, queue, fate, acc>>
  /\ busUnchanged /\ loopUnchanged /\ runUnchanged

Stop ==
  /\ running
  /\ closing = "drained"
  /\ running' = FALSE
  /\ UNCHANGED <<ctxDone, queue, fate, acc>>
  /\ busUnchanged /\ loopUnchanged /\ runUnchanged

-----------------------------------------------------------------------------
(* Reply contexts and answers.                                              *)

\* resolveInboundSessionKey: the session of the quoted answer, if it is
\* bound, else the conversation key.
ResolveSession(m) ==
  IF Quote[m] # NoQuote /\ answer[Quote[m]] = "shown"
  THEN session[Quote[m]]
  ELSE Bucket[m]

\* PublishOutbound of the answer of s: blocks while bus.outbound is full, is
\* refused at shutdown.  That the bus may close between its look at closed and its
\* select, which then may still queue the answer, is left out.
QueuedAnswers == {r \in Source : answer[r] = "queued"}

Answer(s) ==
  \/ /\ ~Closed /\ ~ctxDone
     /\ Cardinality(QueuedAnswers) < OutboundCap
     /\ answer' = [answer EXCEPT ![s] = "queued"]
  \/ /\ Closed \/ ctxDone
     /\ answer' = [answer EXCEPT ![s] = "lost"]

\* The channel manager sends a queued answer and binds its reply context.
Deliver(s) ==
  /\ answer[s] = "queued"
  /\ answer' = [answer EXCEPT ![s] = "shown"]
  /\ UNCHANGED <<ctxDone, running, queue, fate, acc, job, session>>
  /\ busUnchanged /\ loopUnchanged

\* Cron and heartbeat call ProcessSessionMessage on their own goroutine.
JobBegin(j) ==
  /\ job[j] = "idle"
  /\ job' = [job EXCEPT ![j] = "run"]
  /\ session' = [session EXCEPT ![j] = JobSession[j]]
  /\ UNCHANGED <<ctxDone, running, queue, fate, acc, answer>>
  /\ busUnchanged /\ loopUnchanged

\* The result is published under a five second timeout, or there is no update.
JobEnd(j) ==
  /\ job[j] = "run"
  /\ job' = [job EXCEPT ![j] = "done"]
  /\ \/ Answer(j)
     \/ \E a \in {"lost", "silent"} : answer' = [answer EXCEPT ![j] = a]
  /\ UNCHANGED <<ctxDone, running, queue, fate, acc, session>>
  /\ busUnchanged /\ loopUnchanged

-----------------------------------------------------------------------------
(* The goroutine of AgentLoop.Run.                                          *)

Take(m, place) ==
  /\ inbound' = Tail(inbound)
  /\ disp' = [at |-> place, msg |-> m]

\* ConsumeInbound, then the first half of enqueue: the bucket and its worker
\* are created under bucketsMu.
DispConsume ==
  /\ queue
  /\ disp.at = "consume" /\ running
  /\ inbound # <<>>
  /\ LET m == Head(inbound)
         k == Bucket[m]
     IN /\ Take(m, "route")
        /\ fate' = [fate EXCEPT ![m] = "disp"]
        /\ worker' = [worker EXCEPT ![k] = IF @ = "none" THEN "idle" ELSE @]
  /\ UNCHANGED <<closing, ctxDone, running, queue, acc, ch, steer, active, wmsg, iter, sem>>
  /\ runUnchanged

DispReturn ==
  /\ disp.at = "consume"
  /\ ~running \/ ctxDone \/ DoneClosed
  /\ disp' = [disp EXCEPT !.at = "returned"]
  /\ UNCHANGED <<ctxDone, running, queue, fate, acc, ch, steer, active, worker, wmsg, iter, sem>>
  /\ busUnchanged /\ runUnchanged

\* Mutant: any message for an active bucket is taken for steering.
DispRouteAll ==
  /\ disp.at = "route"
  /\ disp' = [disp EXCEPT !.at = IF active[Bucket[disp.msg]] THEN "steer" ELSE "send"]
  /\ UNCHANGED <<ctxDone, running, queue, fate, acc, ch, steer, active, worker, wmsg, iter, sem>>
  /\ busUnchanged /\ runUnchanged

\* b.active is loaded, and extractSteeringContent decides.
DispRoute ==
  /\ disp.at = "route"
  /\ disp' = [disp EXCEPT !.at =
                IF active[Bucket[disp.msg]] /\ disp.msg \in Steering
                THEN "steer" ELSE "send"]
  /\ UNCHANGED <<ctxDone, running, queue, fate, acc, ch, steer, active, worker, wmsg, iter, sem>>
  /\ busUnchanged /\ runUnchanged

\* A non-blocking send; a full inbox falls back to the ordinary queue.
DispSteer ==
  /\ disp.at = "steer"
  /\ LET m == disp.msg
         k == Bucket[m]
     IN IF Len(steer[k]) < SteerCap
        THEN /\ steer' = [steer EXCEPT ![k] = Append(@, m)]
             /\ fate' = [fate EXCEPT ![m] = "steer"]
             /\ disp' = [at |-> "consume", msg |-> NoMsg]
        ELSE /\ disp' = [disp EXCEPT !.at = "send"]
             /\ UNCHANGED <<steer, fate>>
  /\ UNCHANGED <<ctxDone, running, queue, acc, ch, active, worker, wmsg, iter, sem>>
  /\ busUnchanged /\ runUnchanged

\* Mutant: instead of blocking, a full bucket sends the message back to the bus.
DispSendRequeue ==
  /\ disp.at = "send"
  /\ LET m == disp.msg
         k == Bucket[m]
     IN IF Len(ch[k]) < SessionCap
        THEN /\ ch' = [ch EXCEPT ![k] = Append(@, m)]
             /\ fate' = [fate EXCEPT ![m] = "ch"]
             /\ UNCHANGED inbound
        ELSE /\ inbound' = Append(inbound, m)
             /\ fate' = [fate EXCEPT ![m] = "inbound"]
             /\ UNCHANGED ch
  /\ disp' = [at |-> "consume", msg |-> NoMsg]
  /\ UNCHANGED <<closing, ctxDone, running, queue, acc, steer, active, worker, wmsg, iter, sem>>
  /\ runUnchanged

\* b.ch <- msg: blocks while the bucket is full, whatever the context says.
DispSend ==
  /\ disp.at = "send"
  /\ LET m == disp.msg
         k == Bucket[m]
     IN /\ Len(ch[k]) < SessionCap
        /\ ch' = [ch EXCEPT ![k] = Append(@, m)]
        /\ fate' = [fate EXCEPT ![m] = "ch"]
  /\ disp' = [at |-> "consume", msg |-> NoMsg]
  /\ UNCHANGED <<ctxDone, running, queue, acc, steer, active, worker, wmsg, iter, sem>>
  /\ busUnchanged /\ runUnchanged

\* With the queue disabled Run processes each message itself.
InlineBegin ==
  /\ ~queue
  /\ disp.at = "consume" /\ running
  /\ inbound # <<>>
  /\ LET m == Head(inbound)
     IN /\ Take(m, "inline")
        /\ fate' = [fate EXCEPT ![m] = "run"]
        /\ session' = [session EXCEPT ![m] = ResolveSession(m)]
  /\ UNCHANGED <<closing, ctxDone, running, queue, acc, ch, steer, active, worker, wmsg,
                 iter, sem, job, answer>>

InlineEnd ==
  /\ disp.at = "inline"
  /\ \/ Answer(disp.msg)
     \/ answer' = [answer EXCEPT ![disp.msg] = "silent"]
  /\ fate' = [fate EXCEPT ![disp.msg] = "done"]
  /\ disp' = [at |-> "consume", msg |-> NoMsg]
  /\ UNCHANGED <<ctxDone, running, queue, acc, ch, steer, active, worker, wmsg, iter, sem,
                 job, session>>
  /\ busUnchanged

-----------------------------------------------------------------------------
(* The worker of bucket k.                                                  *)

\* Mutant: the steering inbox is not emptied before a run.
WorkerTakeKeepingInbox(k) ==
  /\ worker[k] = "idle"
  /\ ch[k] # <<>>
  /\ ch' = [ch EXCEPT ![k] = Tail(@)]
  /\ wmsg' = [wmsg EXCEPT ![k] = Head(ch[k])]
  /\ fate' = [fate EXCEPT ![Head(ch[k])] = "run"]
  /\ worker' = [worker EXCEPT ![k] = "taken"]
  /\ UNCHANGED <<ctxDone, running, queue, acc, disp, steer, active, iter, sem>>
  /\ busUnchanged /\ runUnchanged

\* A message is taken and the steering inbox emptied.
WorkerTake(k) ==
  /\ worker[k] = "idle"
  /\ ch[k] # <<>>
  /\ ch' = [ch EXCEPT ![k] = Tail(@)]
  /\ steer' = [steer EXCEPT ![k] = <<>>]
  /\ wmsg' = [wmsg EXCEPT ![k] = Head(ch[k])]
  /\ fate' = [m \in Msg |->
                IF m = Head(ch[k]) THEN "run"
                ELSE IF Bucket[m] = k /\ fate[m] = "steer" THEN "discarded"
                ELSE fate[m]]
  /\ worker' = [worker EXCEPT ![k] = "taken"]
  /\ UNCHANGED <<ctxDone, running, queue, acc, disp, active, iter, sem>>
  /\ busUnchanged /\ runUnchanged

\* Mutant: an idle worker leaves, its bucket stays registered.
WorkerExitWhenEmpty(k) ==
  /\ worker[k] = "idle"
  /\ ctxDone \/ ch[k] = <<>>
  /\ worker' = [worker EXCEPT ![k] = "exited"]
  /\ UNCHANGED <<ctxDone, running, queue, fate, acc, disp, ch, steer, active, wmsg, iter, sem>>
  /\ busUnchanged /\ runUnchanged

\* Mutant: the worker looks at al.running instead of the context.
WorkerExitWhenStopped(k) ==
  /\ worker[k] = "idle"
  /\ ~running
  /\ worker' = [worker EXCEPT ![k] = "exited"]
  /\ UNCHANGED <<ctxDone, running, queue, fate, acc, disp, ch, steer, active, wmsg, iter, sem>>
  /\ busUnchanged /\ runUnchanged

WorkerExit(k) ==
  /\ worker[k] = "idle"
  /\ ctxDone
  /\ worker' = [worker EXCEPT ![k] = "exited"]
  /\ UNCHANGED <<ctxDone, running, queue, fate, acc, disp, ch, steer, active, wmsg, iter, sem>>
  /\ busUnchanged /\ runUnchanged

WorkerActivate(k) ==
  /\ worker[k] = "taken"
  /\ active' = [active EXCEPT ![k] = TRUE]
  /\ worker' = [worker EXCEPT ![k] = "sem"]
  /\ UNCHANGED <<ctxDone, running, queue, fate, acc, disp, ch, steer, wmsg, iter, sem>>
  /\ busUnchanged /\ runUnchanged

WorkerAcquire(k) ==
  /\ worker[k] = "sem"
  /\ sem < MaxConcurrency
  /\ sem' = sem + 1
  /\ worker' = [worker EXCEPT ![k] = "run"]
  /\ iter' = [iter EXCEPT ![k] = 0]
  /\ session' = [session EXCEPT ![wmsg[k]] = ResolveSession(wmsg[k])]
  /\ UNCHANGED <<ctxDone, running, queue, fate, acc, disp, ch, steer, active, wmsg, job, answer>>
  /\ busUnchanged

\* Mutant: no iteration limit.
RunIterateForever(k) ==
  /\ worker[k] = "run"
  /\ iter' = [iter EXCEPT ![k] = @ + 1]
  /\ UNCHANGED <<ctxDone, running, queue, fate, acc, disp, ch, steer, active, worker, wmsg, sem>>
  /\ busUnchanged /\ runUnchanged

\* One LLM iteration that does not end the run: steering found after the call
\* discards the response and asks again; without any, the response calls tools.
RunIterate(k) ==
  /\ worker[k] = "run"
  /\ iter[k] < MaxIter
  /\ iter' = [iter EXCEPT ![k] = @ + 1]
  /\ steer' = [steer EXCEPT ![k] = <<>>]
  /\ fate' = [m \in Msg |-> IF Bucket[m] = k /\ fate[m] = "steer" THEN "absorbed"
                                                                 ELSE fate[m]]
  /\ UNCHANGED <<ctxDone, running, queue, acc, disp, ch, active, worker, wmsg, sem>>
  /\ busUnchanged /\ runUnchanged

\* A final response, a slash command, a failed call or the iteration limit:
\* there is an answer to publish, or the message tool has sent it already.
\* Steering that arrived since the last look stays in the inbox.
RunEnd(k) ==
  /\ worker[k] = "run"
  /\ iter' = [iter EXCEPT ![k] = 0]
  /\ \/ /\ worker' = [worker EXCEPT ![k] = "reply"]
        /\ UNCHANGED answer
     \/ /\ worker' = [worker EXCEPT ![k] = "release"]
        /\ answer' = [answer EXCEPT ![wmsg[k]] = "silent"]
  /\ UNCHANGED <<ctxDone, running, queue, fate, acc, disp, ch, steer, active, wmsg, sem,
                 job, session>>
  /\ busUnchanged

RunReply(k) ==
  /\ worker[k] = "reply"
  /\ Answer(wmsg[k])
  /\ worker' = [worker EXCEPT ![k] = "release"]
  /\ UNCHANGED <<ctxDone, running, queue, fate, acc, disp, ch, steer, active, wmsg, iter, sem,
                 job, session>>
  /\ busUnchanged

\* Mutant: the token is not given back.
WorkerReleaseLeak(k) ==
  /\ worker[k] = "release"
  /\ fate' = [fate EXCEPT ![wmsg[k]] = "done"]
  /\ worker' = [worker EXCEPT ![k] = "deactivate"]
  /\ wmsg' = [wmsg EXCEPT ![k] = NoMsg]
  /\ UNCHANGED <<ctxDone, running, queue, acc, disp, ch, steer, active, iter, sem>>
  /\ busUnchanged /\ runUnchanged

WorkerRelease(k) ==
  /\ worker[k] = "release"
  /\ sem' = sem - 1
  /\ fate' = [fate EXCEPT ![wmsg[k]] = "done"]
  /\ worker' = [worker EXCEPT ![k] = "deactivate"]
  /\ wmsg' = [wmsg EXCEPT ![k] = NoMsg]
  /\ UNCHANGED <<ctxDone, running, queue, acc, disp, ch, steer, active, iter>>
  /\ busUnchanged /\ runUnchanged

WorkerDeactivate(k) ==
  /\ worker[k] = "deactivate"
  /\ active' = [active EXCEPT ![k] = FALSE]
  /\ worker' = [worker EXCEPT ![k] = "idle"]
  /\ UNCHANGED <<ctxDone, running, queue, fate, acc, disp, ch, steer, wmsg, iter, sem>>
  /\ busUnchanged /\ runUnchanged

-----------------------------------------------------------------------------
Publisher(m) == PublishCheck(m) \/ PublishSend(m) \/ PublishGiveUp(m)
Shutdown == Cancel \/ CloseFlag \/ CloseDone \/ CloseDrain \/ Stop
Dispatcher == DispConsume \/ DispReturn \/ DispRoute \/ DispSteer \/ DispSend
              \/ InlineBegin \/ InlineEnd
Worker(k) == WorkerTake(k) \/ WorkerExit(k) \/ WorkerActivate(k) \/ WorkerAcquire(k)
             \/ RunIterate(k) \/ RunEnd(k) \/ RunReply(k)
             \/ WorkerRelease(k) \/ WorkerDeactivate(k)

Next ==
  \/ \E m \in Msg : Publisher(m)
  \/ \E s \in Source : Deliver(s)
  \/ \E j \in Job : JobBegin(j) \/ JobEnd(j)
  \/ \E k \in Key : Worker(k)
  \/ Dispatcher
  \/ Shutdown

Spec == Init /\ [][Next]_vars

\* Goroutines are scheduled; a provider call ends (HTTP timeouts) and MaxIter
\* bounds their number; goroutines blocked on a channel are served in order,
\* hence strong fairness for a send that others compete for.
Fairness ==
  /\ \A m \in Msg : WF_vars(PublishSend(m))
  /\ \A s \in Source : WF_vars(Deliver(s))
  /\ \A j \in Job : WF_vars(JobEnd(j))
  /\ WF_vars(DispReturn) /\ WF_vars(Dispatcher)
  /\ \A k \in Key : /\ WF_vars(Worker(k))
                    /\ SF_vars(WorkerAcquire(k))
                    /\ SF_vars(RunReply(k))
                    /\ SF_vars(WorkerExit(k))

FairSpec == Spec /\ Fairness

-----------------------------------------------------------------------------
(* Properties.                                                              *)

InRun == {"run", "reply", "release"}   \* places where the worker holds a token
Holders == {k \in Key : worker[k] \in InRun}

TypeOK ==
  /\ inbound \in Seq(Msg) /\ Len(inbound) <= InboundCap
  /\ closing \in {"open", "flagged", "draining", "drained"}
  /\ ctxDone \in BOOLEAN /\ running \in BOOLEAN /\ queue \in BOOLEAN
  /\ disp \in [at : DispPlaces, msg : Msg \cup {NoMsg}]
  /\ ch \in [Key -> Seq(Msg)] /\ \A k \in Key : Len(ch[k]) <= SessionCap
  /\ steer \in [Key -> Seq(Msg)] /\ \A k \in Key : Len(steer[k]) <= SteerCap
  /\ active \in [Key -> BOOLEAN]
  /\ worker \in [Key -> WorkerPlaces]
  /\ wmsg \in [Key -> Msg \cup {NoMsg}]
  /\ iter \in [Key -> 0..MaxIter]
  /\ sem \in Nat
  /\ job \in [Job -> {"idle", "run", "done"}]
  /\ session \in [Source -> Key \cup {NoQuote}]
  /\ answer \in [Source -> {"none", "queued", "shown", "lost", "silent"}]
  /\ fate \in [Msg -> Fates]
  /\ acc \in [Msg -> Nat]

\* The semaphore counts the runs in progress exactly, so no more than
\* MaxConcurrency messages run at once and no token leaks (loop.go:396-404).
ConcurrencyBound ==
  /\ sem = Cardinality(Holders)
  /\ sem <= MaxConcurrency

\* "Strict in-order processing within the session" (loop.go:378) for a bucket:
\* once a message runs, every message of its bucket the bus took earlier has
\* left the queue, and none of them is still running.
BucketFIFO ==
  \A m, n \in Msg :
    /\ Bucket[m] = Bucket[n]
    /\ acc[m] # 0 /\ acc[m] < acc[n]
    /\ fate[n] \in {"run", "done"}
    => fate[m] \notin {"inbound", "disp", "ch", "run"}

\* The steering inbox is emptied before each run (loop.go:385-394), so a
\* steering message only ever reaches the run of a message that was accepted
\* before it, never one the user sent later.
SteersEarlierRun ==
  \A k \in Key, m \in Msg :
    fate[m] = "steer" /\ Bucket[m] = k /\ wmsg[k] # NoMsg
      => acc[wmsg[k]] < acc[m]

\* While the gateway is not shutting down every accepted message is settled:
\* run to its end, absorbed by a run, or dropped with the steering inbox.
AcceptedIsSettled ==
  \A m \in Msg :
    fate[m] = "inbound"
      ~> (ctxDone \/ fate[m] \in {"done", "absorbed", "discarded", "steer"})

\* After cancellation every worker leaves its loop and stays out (loop.go:382).
WorkersExit ==
  ctxDone ~> [](\A k \in Key : worker[k] \in {"none", "exited"})

\* Refuted: docs/gateway.md:21, one session runs serially: no two buckets run the same
\* session at the same time.
SessionSerial ==
  \A k, l \in Holders : k # l => session[wmsg[k]] # session[wmsg[l]]

\* Refuted: loop.go:385, only steering that arrives after a run completed is dropped:
\* when a run completes, its inbox holds nothing it did not take in.
SteeringTakenIn ==
  [][\A k \in Key : active[k] /\ ~active'[k] => steer[k] = <<>>]_vars

\* Refuted: loop.go:228, Run returns after cancellation, which is what closes the MCP
\* connections.
RunReturns == ctxDone ~> (disp.at = "returned")

-----------------------------------------------------------------------------
(* Refinement of SessionQueues.                                             *)

Waiting(m) ==
  \/ fate[m] \in {"inbound", "disp", "ch"}
  \/ fate[m] = "run" /\ worker[Bucket[m]] \in {"taken", "sem"} /\ wmsg[Bucket[m]] = m

Current(k) ==
  IF worker[k] \in InRun THEN wmsg[k]
  ELSE IF disp.at = "inline" /\ Bucket[disp.msg] = k THEN disp.msg
  ELSE NoMsg

SQ == INSTANCE SessionQueues WITH
        arrival <- acc,
        waiting <- {m \in Msg : Waiting(m)},
        current <- [k \in Key |-> Current(k)],
        aside   <- {m \in Msg : fate[m] = "steer"},
        open    <- ~ctxDone

\* The inbound queue implements the abstract session queues.
RefinesSessionQueues == SQ!Spec

=============================================================================
