--------------------------- MODULE ChannelManager ---------------------------
(***************************************************************************)
(* Outbound delivery of the gateway: the dispatcher and the worker of each *)
(* channel (pkg/channels/manager_dispatch.go, manager_send.go), start and  *)
(* stop of a manager (manager_lifecycle.go), and the reload that replaces  *)
(* one manager by another, or goes back to it (cmd/x-claw/.../reload.go).  *)
(*                                                                         *)
(* Each successful StartAll is a generation: a dispatch context, one       *)
(* dispatcher and one worker per channel that started.  A generation may   *)
(* outlive its manager's interest in it: StopAll waits for the workers,    *)
(* never for the dispatcher.                                               *)
(***************************************************************************)
EXTENDS Integers, Sequences, FiniteSets

CONSTANTS Channels,      \* names of the enabled channels
          Messages,      \* outbound messages, 1..n in the order of publication
          To,            \* To[x]: the channel of x
          Chunks,        \* Chunks[x]: pieces SplitMessage cuts x into
          Notified,      \* messages given to SendToChannel by the notify API
          QueueSize,     \* defaultChannelQueueSize
          MaxRetries,    \* maxRetries
          Managers,      \* 1..n: the first manager, then one per reload
          MaxStarts,     \* bound on successful StartAll calls
          MayStop        \* whether the gateway may be told to stop

ASSUME ManagerAssumption ==
    /\ Messages \subseteq Nat \ {0} /\ Notified \subseteq Messages
    /\ To \in [Messages -> Channels] /\ Chunks \in [Messages -> Nat \ {0}]
    /\ QueueSize \in Nat \ {0} /\ MaxRetries \in Nat
    /\ IsFiniteSet(Managers) /\ 1 \in Managers /\ Managers = 1 .. Cardinality(Managers)
    /\ MaxStarts \in Nat \ {0} /\ MayStop \in BOOLEAN

Gens == 1 .. MaxStarts
None == 0
Callers == {"reload", "shutdown"}

VARIABLES
  bus,        \* MessageBus.outbound
  closed,     \* the bus is closed
  published,  \* messages that were published or handed to SendToChannel
  gens,       \* generations started: manager, parent context, live
  disp,       \* disp[g]: pc of the dispatcher, its message, its worker
  worker,     \* worker[g][c]: pc, message, chunk, attempt
  queue,      \* queue[g][c]: the worker's channel
  workers,    \* Manager.workers of each manager: the generation per channel
  task,       \* Manager.dispatchTask: the generation it cancels
  platform,   \* platform[m][c]: the channel object is running
  notify,     \* SendToChannel calls: pc and worker
  caller,     \* reload and shutdown: pc, manager, workers waited for
  current,    \* gatewayServices.channelManager
  used,       \* managers built so far
  rootDone,   \* the gateway's context is cancelled
  sent        \* sent[c]: the newest piece of a published message that the chat
              \* shows, and the first attempt that may repeat it

callers == <<caller, current, used, rootDone>>
registry == <<gens, workers, task, platform>>
vars == <<bus, closed, published, gens, disp, worker, queue, workers, task,
          platform, notify, caller, current, used, rootDone, sent>>

NoDisp == [pc |-> "off", msg |-> None, to |-> None]
NoWorker == [pc |-> "off", msg |-> None, chunk |-> 0, attempt |-> 0]
NoPiece == [msg |-> None, chunk |-> 0, repeat |-> 0]
Idle == [NoWorker EXCEPT !.pc = "idle"]
NoWorkers == [c \in Channels |-> None]

\* ctx.Done of a generation
Live(g) == gens[g].live

(***************************************************************************)
(* The registry of a manager.                                              *)
(***************************************************************************)
\* StartAll: the channels of ok start; none of them is an error.
Start(m, parent, ok) ==
  LET g == Len(gens) + 1
  IN /\ g \in Gens
     /\ gens' = Append(gens, [mgr |-> m, parent |-> parent,
                              live |-> parent = "restore" \/ ~rootDone])
     /\ disp' = [disp EXCEPT ![g].pc = "recv"]
     /\ worker' = [worker EXCEPT ![g] =
                     [c \in Channels |-> IF c \in ok THEN Idle ELSE NoWorker]]
     /\ workers' = [workers EXCEPT ![m] =
                     [c \in Channels |-> IF c \in ok THEN g ELSE @[c]]]
     /\ task' = [task EXCEPT ![m] = g]
     /\ platform' = [platform EXCEPT ![m] =
                     [c \in Channels |-> c \in ok \/ @[c]]]

Cancelled(G) == [g \in DOMAIN gens |->
                   IF g \in G THEN [gens[g] EXCEPT !.live = FALSE] ELSE gens[g]]

\* Mutant: StopAll waits for nobody.
WaitedNone(m) == {}
\* StopAll, lines 225-231: the workers it will wait for.
Waited(m) == {<<workers[m][c], c>> : c \in {d \in Channels : workers[m][d] # None}}

\* StopAll up to its first unlock.
StopCancel(p, m) ==
  /\ gens' = Cancelled({task[m]})
  /\ task' = [task EXCEPT ![m] = None]
  /\ workers' = [workers EXCEPT ![m] = NoWorkers]
  /\ caller' = [caller EXCEPT ![p] =
                  [pc |-> "wait", mgr |-> m, waits |-> Waited(m)]]
  /\ UNCHANGED platform

\* waitForChannelWorkers
StopWait(p) ==
  /\ caller[p].pc = "wait"
  /\ \A w \in caller[p].waits : worker[w[1]][w[2]].pc = "exit"
  /\ caller' = [caller EXCEPT ![p].pc = "close"]
  /\ UNCHANGED <<bus, closed, published, registry, disp, worker, queue, notify,
                 current, used, rootDone, sent>>

\* StopAll, from its second lock: Stop of every channel.
StopChannels(p) ==
  /\ caller[p].pc = "close"
  /\ platform' = [platform EXCEPT ![caller[p].mgr] = [c \in Channels |-> FALSE]]
  /\ caller' = [caller EXCEPT ![p] = [pc |-> IF p = "reload" THEN "start" ELSE "done",
                                      mgr |-> @.mgr, waits |-> {}]]
  /\ UNCHANGED <<bus, closed, published, gens, workers, task, disp, worker, queue,
                 notify, current, used, rootDone, sent>>

(***************************************************************************)
(* Reload and shutdown.                                                    *)
(***************************************************************************)
\* reload: a candidate manager is built, then the previous one is stopped.
Reload ==
  /\ caller["reload"].pc = "idle" /\ used + 1 \in Managers
  /\ Len(gens) + 1 \in Gens
  /\ used' = used + 1
  /\ StopCancel("reload", current)
  /\ UNCHANGED <<bus, closed, published, disp, worker, queue, notify, current,
                 rootDone, sent>>

\* reload.go:71 and 80: the candidate starts and takes over.  In between only the
\* notify API and a shutdown look at the current manager: they find the previous
\* one with its map emptied, as they do just before.
ReloadApply ==
  /\ caller["reload"].pc = "start"
  /\ \E ok \in (SUBSET Channels) \ {{}} : Start(used, "root", ok)
  /\ current' = used
  /\ caller' = [caller EXCEPT !["reload"].pc = "idle"]
  /\ UNCHANGED <<bus, closed, published, queue, notify, used, rootDone, sent>>

\* StartAll of the candidate fails: none of its channels starts.
ReloadFail ==
  /\ caller["reload"].pc = "start"
  /\ caller' = [caller EXCEPT !["reload"].pc = "restore"]
  /\ UNCHANGED <<bus, closed, published, registry, disp, worker, queue, notify,
                 current, used, rootDone, sent>>

\* restoreGatewayRuntime: the previous manager starts again, under restoreCtx.
Restore ==
  /\ caller["reload"].pc = "restore"
  /\ \/ \E ok \in (SUBSET Channels) \ {{}} : Start(current, "restore", ok)
     \/ UNCHANGED <<registry, disp, worker>>
  /\ caller' = [caller EXCEPT !["reload"].pc = "return"]
  /\ UNCHANGED <<bus, closed, published, queue, notify, current, used, rootDone, sent>>

\* The deferred cancel of restoreCtx.
RestoreReturn ==
  /\ caller["reload"].pc = "return"
  /\ gens' = Cancelled({g \in DOMAIN gens : gens[g].parent = "restore"})
  /\ caller' = [caller EXCEPT !["reload"].pc = "idle"]
  /\ UNCHANGED <<bus, closed, published, workers, task, platform, disp, worker,
                 queue, notify, current, used, rootDone, sent>>

\* shutdownGateway: cancel, then close and drain the bus.
ShutdownCancel ==
  /\ MayStop /\ caller["shutdown"].pc = "idle"
  /\ rootDone' = TRUE
  /\ gens' = Cancelled({g \in DOMAIN gens : gens[g].parent = "root"})
  /\ caller' = [caller EXCEPT !["shutdown"].pc = "bus"]
  /\ UNCHANGED <<bus, closed, published, workers, task, platform, disp, worker,
                 queue, notify, current, used, sent>>

ShutdownBus ==
  /\ caller["shutdown"].pc = "bus"
  /\ closed' = TRUE /\ bus' = <<>>
  /\ caller' = [caller EXCEPT !["shutdown"].pc = "stop"]
  /\ UNCHANGED <<published, registry, disp, worker, queue, notify, current, used,
                 rootDone, sent>>

ShutdownStop ==
  /\ caller["shutdown"].pc = "stop"
  /\ StopCancel("shutdown", current)
  /\ UNCHANGED <<bus, closed, published, disp, worker, queue, notify, current,
                 used, rootDone, sent>>

(***************************************************************************)
(* Producers.                                                              *)
(***************************************************************************)
Publish(x) ==
  /\ x \in Messages \ Notified /\ x \notin published /\ ~closed
  /\ \A y \in Messages \ Notified : y < x => y \in published
  /\ published' = published \cup {x}
  /\ bus' = Append(bus, x)
  /\ UNCHANGED <<closed, registry, disp, worker, queue, notify, callers, sent>>

\* SendToChannel up to its unlock, for the manager that serves the notify API.
NotifyLook(x) ==
  /\ x \in Notified /\ x \notin published
  /\ published' = published \cup {x}
  /\ LET g == workers[current][To[x]]
     IN notify' = [notify EXCEPT ![x] = IF g = None THEN [pc |-> "failed", to |-> None]
                                        ELSE [pc |-> "push", to |-> g]]
  /\ UNCHANGED <<bus, closed, registry, disp, worker, queue, callers, sent>>

\* enqueueOutboundMessage; the request's context may end first.
NotifyPush(x) ==
  /\ x \in Notified /\ notify[x].pc = "push"
  /\ LET g == notify[x].to
         c == To[x]
     IN \/ /\ Len(queue[g][c]) < QueueSize
           /\ queue' = [queue EXCEPT ![g][c] = Append(@, x)]
           /\ notify' = [notify EXCEPT ![x].pc = "ok"]
        \/ /\ notify' = [notify EXCEPT ![x].pc = "failed"]
           /\ UNCHANGED queue
  /\ UNCHANGED <<bus, closed, published, registry, disp, worker, callers, sent>>

(***************************************************************************)
(* dispatchLoop of generation g.                                           *)
(***************************************************************************)
\* SubscribeOutbound: the select takes any ready case.
Receive(g) ==
  /\ disp[g].pc = "recv" /\ bus # <<>>
  /\ bus' = Tail(bus)
  /\ disp' = [disp EXCEPT ![g] = [pc |-> "look", msg |-> Head(bus), to |-> None]]
  /\ UNCHANGED <<closed, published, registry, worker, queue, notify, callers, sent>>

DispatchExit(g) ==
  /\ disp[g].pc = "recv" /\ (closed \/ ~Live(g))
  /\ disp' = [disp EXCEPT ![g].pc = "exit"]
  /\ UNCHANGED <<bus, closed, published, registry, worker, queue, notify, callers, sent>>

\* The worker is looked up under the read lock, and used after it.
Look(g) ==
  /\ disp[g].pc = "look"
  /\ LET to == workers[gens[g].mgr][To[disp[g].msg]]
     IN disp' = [disp EXCEPT ![g] = IF to = None THEN [NoDisp EXCEPT !.pc = "recv"]
                                    ELSE [@ EXCEPT !.pc = "push", !.to = to]]
  /\ UNCHANGED <<bus, closed, published, registry, worker, queue, notify, callers, sent>>

\* Mutant: the dispatcher blocks on a full queue whatever happens to its context.
PushBlocked(g) ==
  /\ disp[g].pc = "push"
  /\ LET x == disp[g].msg
         to == disp[g].to
     IN /\ Len(queue[to][To[x]]) < QueueSize
        /\ queue' = [queue EXCEPT ![to][To[x]] = Append(@, x)]
        /\ disp' = [disp EXCEPT ![g] = [NoDisp EXCEPT !.pc = "recv"]]
  /\ UNCHANGED <<bus, closed, published, registry, worker, notify, callers, sent>>

\* enqueueOutboundMessage
Push(g) ==
  /\ disp[g].pc = "push"
  /\ LET x == disp[g].msg
         to == disp[g].to
     IN \/ /\ Len(queue[to][To[x]]) < QueueSize
           /\ queue' = [queue EXCEPT ![to][To[x]] = Append(@, x)]
           /\ disp' = [disp EXCEPT ![g] = [NoDisp EXCEPT !.pc = "recv"]]
        \/ /\ ~Live(g)
           /\ disp' = [disp EXCEPT ![g] = [NoDisp EXCEPT !.pc = "exit"]]
           /\ UNCHANGED queue
  /\ UNCHANGED <<bus, closed, published, registry, worker, notify, callers, sent>>

(***************************************************************************)
(* runWorker of generation g for channel c.                                *)
(***************************************************************************)
Others == <<bus, closed, published, registry, disp, notify, callers>>

Take(g, c) ==
  /\ worker[g][c].pc = "idle" /\ queue[g][c] # <<>>
  /\ queue' = [queue EXCEPT ![g][c] = Tail(@)]
  /\ worker' = [worker EXCEPT ![g][c] = [pc |-> "limit", msg |-> Head(queue[g][c]),
                                         chunk |-> 1, attempt |-> 0]]
  /\ UNCHANGED <<Others, sent>>

\* Mutant: an idle worker does not look at its context.
WorkerStays(g, c) == FALSE
WorkerExit(g, c) ==
  /\ worker[g][c].pc = "idle" /\ ~Live(g)
  /\ worker' = [worker EXCEPT ![g][c] = [NoWorker EXCEPT !.pc = "exit"]]
  /\ UNCHANGED <<Others, queue, sent>>

\* The piece is settled, one way or the other: on to the next.
NextPiece(g, c) ==
  LET s == worker[g][c]
  IN worker' = [worker EXCEPT ![g][c] =
                  IF s.chunk < Chunks[s.msg]
                  THEN [s EXCEPT !.pc = "limit", !.chunk = s.chunk + 1, !.attempt = 0]
                  ELSE Idle]

\* preSend's edit of a placeholder comes before the first send.
Attempt(w) == IF w.pc = "limit" THEN 0 ELSE w.attempt + 1

\* The platform carries the call out: while its answer does not reach the worker,
\* the attempts after this one may do so again.
Shown(g, c, answered) ==
  /\ platform[gens[g].mgr][c]
  /\ LET w == worker[g][c]
     IN IF w.msg \in Notified THEN UNCHANGED sent
        ELSE sent' = [sent EXCEPT ![c] =
               [msg |-> w.msg, chunk |-> w.chunk,
                repeat |-> IF answered THEN MaxRetries + 2 ELSE Attempt(w) + 1]]

\* The worker gets an error: the call was not carried out, or its answer was lost.
NotAnswered(g, c) == Shown(g, c, FALSE) \/ UNCHANGED sent

\* limiter.Wait, then preSend: there is no placeholder, or its edit fails.
Admit(g, c) ==
  /\ worker[g][c].pc = "limit"
  /\ \/ Live(g) /\ NotAnswered(g, c) /\ worker' = [worker EXCEPT ![g][c].pc = "send"]
     \/ ~Live(g) /\ NextPiece(g, c) /\ UNCHANGED sent
  /\ UNCHANGED <<Others, queue>>

\* Mutant: retryWithBackoff goes on after a send that succeeded.
DeliverAgain(g, c) ==
  /\ worker[g][c].pc \in {"send"} \cup (IF Live(g) THEN {"limit"} ELSE {})
  /\ Shown(g, c, TRUE)
  /\ \/ NextPiece(g, c)
     \/ /\ worker[g][c].attempt < MaxRetries
        /\ worker' = [worker EXCEPT ![g][c].pc = "backoff", ![g][c].attempt = @ + 1]
  /\ UNCHANGED <<Others, queue>>

\* The piece is on the platform, sent or edited into a placeholder, and the
\* worker knows.
Deliver(g, c) ==
  /\ worker[g][c].pc \in {"send"} \cup (IF Live(g) THEN {"limit"} ELSE {})
  /\ Shown(g, c, TRUE)
  /\ NextPiece(g, c)
  /\ UNCHANGED <<Others, queue>>

\* Mutant: the attempts are not counted against maxRetries.
SendFailsUncounted(g, c) ==
  /\ worker[g][c].pc = "send"
  /\ NotAnswered(g, c)
  /\ \/ NextPiece(g, c)
     \/ worker' = [worker EXCEPT ![g][c].pc = "backoff", ![g][c].attempt = @ + 1]
  /\ UNCHANGED <<Others, queue>>

\* The send fails: ErrNotRunning and ErrSendFailed are permanent, anything else
\* is retried, whether or not the platform carried it out.
SendFails(g, c) ==
  /\ worker[g][c].pc = "send"
  /\ NotAnswered(g, c)
  /\ \/ NextPiece(g, c)
     \/ /\ worker[g][c].attempt < MaxRetries
        /\ worker' = [worker EXCEPT ![g][c].pc = "backoff", ![g][c].attempt = @ + 1]
  /\ UNCHANGED <<Others, queue>>

BackoffEnds(g, c) ==
  /\ worker[g][c].pc = "backoff"
  /\ \/ worker' = [worker EXCEPT ![g][c].pc = "send"]
     \/ ~Live(g) /\ NextPiece(g, c)
  /\ UNCHANGED <<Others, queue, sent>>

-----------------------------------------------------------------------------
Init ==
  /\ bus = <<>> /\ closed = FALSE /\ published = {}
  /\ gens = <<[mgr |-> 1, parent |-> "root", live |-> TRUE]>>
  /\ disp = [g \in Gens |-> IF g = 1 THEN [NoDisp EXCEPT !.pc = "recv"] ELSE NoDisp]
  /\ worker = [g \in Gens |-> [c \in Channels |-> IF g = 1 THEN Idle ELSE NoWorker]]
  /\ queue = [g \in Gens |-> [c \in Channels |-> <<>>]]
  /\ workers = [m \in Managers |-> [c \in Channels |-> IF m = 1 THEN 1 ELSE None]]
  /\ task = [m \in Managers |-> IF m = 1 THEN 1 ELSE None]
  /\ platform = [m \in Managers |-> [c \in Channels |-> m = 1]]
  /\ notify = [x \in Notified |-> [pc |-> "idle", to |-> None]]
  /\ caller = [p \in Callers |-> [pc |-> "idle", mgr |-> None, waits |-> {}]]
  /\ current = 1 /\ used = 1 /\ rootDone = FALSE
  /\ sent = [c \in Channels |-> NoPiece]

Dispatcher(g) == Receive(g) \/ DispatchExit(g) \/ Look(g) \/ Push(g)
Worker(g, c) ==
  \/ Take(g, c) \/ WorkerExit(g, c) \/ Admit(g, c)
  \/ Deliver(g, c) \/ SendFails(g, c) \/ BackoffEnds(g, c)
ReloadSteps ==
  \/ StopWait("reload") \/ StopChannels("reload") \/ ReloadApply \/ ReloadFail
  \/ Restore \/ RestoreReturn
ShutdownSteps ==
  ShutdownBus \/ ShutdownStop \/ StopWait("shutdown") \/ StopChannels("shutdown")

Next ==
  \/ Reload \/ ReloadSteps \/ ShutdownCancel \/ ShutdownSteps
  \/ \E x \in Messages : Publish(x) \/ NotifyLook(x) \/ NotifyPush(x)
  \/ \E g \in DOMAIN gens : Dispatcher(g) \/ \E c \in Channels : Worker(g, c)

Spec == Init /\ [][Next]_vars

\* Goroutines run and calls of the platform return; nothing makes a producer
\* publish, a reload begin or the gateway stop.
FairSpec ==
  /\ Spec
  /\ WF_vars(ReloadSteps) /\ WF_vars(ShutdownSteps)
  /\ \A x \in Notified : WF_vars(NotifyPush(x))
  /\ \A g \in Gens : WF_vars(g \in DOMAIN gens /\ Dispatcher(g))
  /\ \A g \in Gens, c \in Channels : WF_vars(g \in DOMAIN gens /\ Worker(g, c))

-----------------------------------------------------------------------------
TypeOK ==
  /\ bus \in Seq(Messages) /\ closed \in BOOLEAN /\ published \subseteq Messages
  /\ gens \in Seq([mgr : Managers, parent : {"root", "restore"}, live : BOOLEAN])
  /\ disp \in [Gens -> [pc : {"off", "recv", "look", "push", "exit"},
                        msg : Messages \cup {None}, to : Gens \cup {None}]]
  /\ worker \in [Gens -> [Channels ->
       [pc : {"off", "idle", "limit", "send", "backoff", "exit"},
        msg : Messages \cup {None}, chunk : Nat, attempt : 0 .. MaxRetries]]]
  /\ queue \in [Gens -> [Channels -> Seq(Messages)]]
  /\ \A g \in Gens, c \in Channels : Len(queue[g][c]) <= QueueSize
  /\ workers \in [Managers -> [Channels -> Gens \cup {None}]]
  /\ task \in [Managers -> Gens \cup {None}]
  /\ platform \in [Managers -> [Channels -> BOOLEAN]]
  /\ notify \in [Notified -> [pc : {"idle", "push", "ok", "failed"}, to : Gens \cup {None}]]
  /\ caller \in [Callers ->
       [pc : {"idle", "bus", "stop", "wait", "close", "start", "restore", "return", "done"},
        mgr : Managers \cup {None}, waits : SUBSET (Gens \X Channels)]]
  /\ current \in Managers /\ used \in Managers /\ rootDone \in BOOLEAN
  /\ sent \in [Channels -> [msg : Messages \cup {None}, chunk : Nat,
                          repeat : 0 .. MaxRetries + 2]]

\* A chat reads the answers in the order they were published and each piece in
\* its place: what a worker has in hand comes after all that the chat shows.  A
\* piece is shown again only by a later attempt of the same worker, when the answer
\* to every earlier one was lost (manager_send.go:50-82), so at most MaxRetries + 2
\* times and with nothing in between; a reload in the middle of a queue and the
\* dispatcher it leaves behind never duplicate or overtake.  A rollback is the
\* exception: the dispatcher left behind, holding a message, may find the restarted
\* manager's worker after its successor has used it.
Sending(g, c) == worker[g][c].pc \in {"limit", "send", "backoff"}
Before(a, w) ==
  \/ a.msg < w.msg
  \/ a.msg = w.msg /\ (a.chunk < w.chunk \/ (a.chunk = w.chunk /\ a.repeat <= Attempt(w)))
RolledBack == \E g \in DOMAIN gens : gens[g].parent = "restore"
Plain(x) == x \notin Notified

InOrder ==
  RolledBack \/ \A g \in DOMAIN gens, c \in Channels :
    Sending(g, c) /\ Plain(worker[g][c].msg) => Before(sent[c], worker[g][c])

\* Refuted: the chat shows no piece twice.
ShownOnce ==
  [][\A c \in Channels : sent'[c] # sent[c] =>
       <<sent'[c].msg, sent'[c].chunk>> # <<sent[c].msg, sent[c].chunk>>]_vars

\* A channel is stopped only when no worker is in the middle of a send on it,
\* unless the gateway stops while a reload is under way or has failed: then the
\* second StopAll finds the map emptied and waits for nobody, or the rollback
\* starts workers between the two halves of the first.
QuietStop ==
  [][\A g \in DOMAIN gens, c \in Channels :
       platform[gens[g].mgr][c] /\ ~platform'[gens[g].mgr][c] /\ Sending(g, c)
         => rootDone /\ used # current]_vars

\* The manager in use has a context that is not cancelled.
Serving == task[current] # None /\ Live(task[current])

\* A message is on the bus, with a dispatcher, or with a worker or its queue.
OnItsWay(x) ==
  \/ x \in {bus[i] : i \in DOMAIN bus}
  \/ \E g \in DOMAIN gens :
       \/ disp[g].msg = x
       \/ \E c \in Channels : /\ worker[g][c].pc # "exit"
                             /\ \/ worker[g][c].msg = x
                                \/ \E i \in DOMAIN queue[g][c] : queue[g][c][i] = x

\* Every published message is sent, given up or dropped with its worker, unless
\* the gateway stops or a reload has left the manager in use without a live
\* context: a full queue, a failing channel or a stopped worker never holds the
\* dispatcher for ever.
MessagesSettle ==
  \A x \in Messages : OnItsWay(x) ~> (~OnItsWay(x) \/ rootDone \/ ~Serving)

\* Shutdown ends: StopAll waits for workers that do exit.
ShutdownEnds == (caller["shutdown"].pc # "idle") ~> (caller["shutdown"].pc = "done")

\* A failed reload leaves the previous manager restored and running.
RollbackRestores ==
  caller["reload"].pc = "idle" /\ ~rootDone /\ task[current] # None => Live(task[current])
=============================================================================
