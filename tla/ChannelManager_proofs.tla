------------------------- MODULE ChannelManager_proofs -------------------------
(***************************************************************************)
(* Proofs about ChannelManager for every set of channels and messages,     *)
(* every capacity and every number of managers.                            *)
(*                                                                         *)
(* InOrder speaks of a worker and of what its chat shows.  It is inductive *)
(* only with the whole way of a message in view: the bus is ordered and    *)
(* younger than anything taken from it, and for the dispatcher and the     *)
(* worker of one generation, what is shown is older than the piece in hand *)
(* or an attempt at it whose answer was lost, that is older than the       *)
(* queue, that is older than the message of the dispatcher (Line).  A reload makes generations overlap: the worker of a later      *)
(* generation of a channel is alive only with the bus closed and nothing   *)
(* left that it could deliver (Apart), for StopAll waits for the earlier   *)
(* ones (Tracked).  A rollback breaks this, and InOrder excepts it.        *)
(***************************************************************************)
EXTENDS ChannelManager, FiniteSetTheorems, TLAPS

\* Worker and dispatcher of a generation: running, and with a message in hand.
Alive(g, c) == worker[g][c].pc \in {"idle", "limit", "send", "backoff"}
Holds(g) == disp[g].pc \in {"look", "push"}

\* The types, and what the messages in the hands of the goroutines are.
Types ==
  /\ TypeOK
  /\ bus \in Seq(Messages \ Notified)
  /\ \A g \in Gens : Holds(g) => disp[g].msg \in Messages \ Notified
  /\ \A g \in Gens : disp[g].pc = "push" => disp[g].to \in DOMAIN gens
  /\ \A g \in Gens, c \in Channels : Sending(g, c) => worker[g][c].msg \in Messages
  /\ \A x \in Notified : notify[x].pc = "push" => notify[x].to \in DOMAIN gens
  /\ Len(gens) <= MaxStarts
  /\ \A g \in Gens \ DOMAIN gens : /\ ~Holds(g)
        /\ \A c \in Channels : worker[g][c].pc = "off" /\ queue[g][c] = <<>>

\* Only the manager in use has workers, those of its own generations, and a
\* candidate has no generation before it takes over.
Registry ==
  /\ \A m \in Managers, c \in Channels : workers[m][c] # None =>
        /\ workers[m][c] \in DOMAIN gens
        /\ gens[workers[m][c]].mgr = m
        /\ m = current
  /\ \A m \in Managers : task[m] # None => task[m] \in DOMAIN gens
  /\ \A g \in DOMAIN gens : gens[g].mgr <= used
  /\ used # current => \A g \in DOMAIN gens : gens[g].mgr # used
  /\ current <= used

\* Where reload and shutdown are, and what they have done by then.
Callings ==
  /\ caller["reload"].pc \in {"idle", "wait", "close", "start", "restore", "return"}
  /\ caller["shutdown"].pc \in {"idle", "bus", "stop", "wait", "close", "done"}
  /\ \A p \in Callers : caller[p].pc \in {"wait", "close"} => caller[p].mgr \in Managers
  /\ \A p \in Callers : caller[p].waits \subseteq (DOMAIN gens) \X Channels
  /\ caller["reload"].pc # "idle" => used # current
  /\ caller["reload"].pc \in {"wait", "close", "start", "restore"} => workers[current] = NoWorkers
  /\ caller["reload"].pc \in {"wait", "close"} => caller["reload"].mgr = current
  /\ rootDone <=> caller["shutdown"].pc # "idle"
  /\ closed <=> caller["shutdown"].pc \notin {"idle", "bus"}
  /\ closed => bus = <<>>
  /\ used # current => caller["shutdown"].mgr # used
  /\ caller["shutdown"].mgr <= used
  /\ caller["shutdown"].pc \in {"wait", "close"} /\ caller["shutdown"].mgr = current
       /\ workers[current] # NoWorkers => used # current

\* A worker that runs is in the map of its manager, or a StopAll waits for it.
WaitedFor(g, c) ==
  \E p \in Callers : /\ caller[p].pc = "wait" /\ <<g, c>> \in caller[p].waits
                     /\ caller[p].mgr = gens[g].mgr
Tracked ==
  \A g \in DOMAIN gens, c \in Channels :
    Alive(g, c) => workers[gens[g].mgr][c] = g \/ WaitedFor(g, c)

\* Nothing of the bus is left between dispatcher and platform.
Barren(g, c) ==
  /\ ~Holds(g)
  /\ \A i \in DOMAIN queue[g][c] : ~Plain(queue[g][c][i])
  /\ Sending(g, c) => ~Plain(worker[g][c].msg)
\* Without a rollback, a manager starts once and its dispatcher feeds its own
\* workers; two generations of a channel run together only in a shutdown.
OneStart == \A g, h \in DOMAIN gens : gens[g].mgr = gens[h].mgr => g = h
OwnWorker == \A g \in DOMAIN gens : disp[g].pc = "push" => disp[g].to = g
Apart ==
  \A g, h \in DOMAIN gens, c \in Channels :
    g < h /\ Alive(g, c) /\ Alive(h, c) => closed /\ Barren(h, c)

\* The bus is in order of publication, and what has left it is older.
Passed(x) == x \in published /\ \A i \in DOMAIN bus : x < bus[i]
Published ==
  /\ \A x \in published, y \in Messages \ Notified : Plain(x) /\ y < x => y \in published
  /\ \A i \in DOMAIN bus : bus[i] \in published
  /\ \A i, j \in DOMAIN bus : i < j => bus[i] < bus[j]
Upstream ==
  /\ \A g \in DOMAIN gens : Holds(g) => Passed(disp[g].msg)
  /\ \A g \in DOMAIN gens, c \in Channels :
       /\ \A i \in DOMAIN queue[g][c] : Plain(queue[g][c][i]) => Passed(queue[g][c][i])
       /\ Sending(g, c) /\ Plain(worker[g][c].msg) => Passed(worker[g][c].msg)
  /\ \A c \in Channels : sent[c].msg = None \/ (Plain(sent[c].msg) /\ Passed(sent[c].msg))
\* The order from the platform back to the dispatcher.
Line(g, c) ==
  LET q == queue[g][c]
      w == worker[g][c]
  IN /\ Holds(g) => \A i \in DOMAIN q : Plain(q[i]) => q[i] < disp[g].msg
     /\ \A i, j \in DOMAIN q : i < j /\ Plain(q[i]) /\ Plain(q[j]) => q[i] < q[j]
     /\ Sending(g, c) /\ Plain(w.msg) =>
          /\ \A i \in DOMAIN q : Plain(q[i]) => w.msg < q[i]
          /\ Holds(g) => w.msg < disp[g].msg
     /\ Sending(g, c) /\ Plain(w.msg) => Before(sent[c], w)
     /\ \A j \in DOMAIN q : Plain(q[j]) => sent[c].msg < q[j]
     /\ Holds(g) => sent[c].msg < disp[g].msg
Lines == \A g \in DOMAIN gens, c \in Channels : Alive(g, c) => Line(g, c)

Base == Types /\ Registry /\ Callings /\ Tracked
Orderly == OneStart /\ OwnWorker /\ Apart /\ Published /\ Upstream /\ Lines
Order == RolledBack \/ Orderly

Inv == Base /\ Order

-----------------------------------------------------------------------------
(* One cell of a table changes.                                            *)

WorkerStates == [pc : {"off", "idle", "limit", "send", "backoff", "exit"},
                 msg : Messages \cup {None}, chunk : Nat, attempt : 0 .. MaxRetries]
SentStates == [msg : Messages \cup {None}, chunk : Nat, repeat : 0 .. MaxRetries + 2]

\* One worker, one queue changes.
LEMMA WorkerChanges ==
  ASSUME worker \in [Gens -> [Channels -> WorkerStates]], NEW g \in Gens, NEW c \in Channels,
         NEW w \in WorkerStates, worker' = [worker EXCEPT ![g][c] = w]
  PROVE  /\ worker' \in [Gens -> [Channels -> WorkerStates]]
         /\ worker'[g][c] = w
         /\ \A h \in Gens, d \in Channels :
              <<h, d>> # <<g, c>> => worker'[h][d] = worker[h][d]
<1> HIDE DEF WorkerStates
<1> QED OBVIOUS

LEMMA QueueChanges ==
  ASSUME queue \in [Gens -> [Channels -> Seq(Messages)]], NEW g \in Gens, NEW c \in Channels,
         NEW q \in Seq(Messages), queue' = [queue EXCEPT ![g][c] = q]
  PROVE  /\ queue' \in [Gens -> [Channels -> Seq(Messages)]]
         /\ queue'[g][c] = q
         /\ \A h \in Gens, d \in Channels :
              <<h, d>> # <<g, c>> => queue'[h][d] = queue[h][d]
OBVIOUS

\* What Append and Tail keep.
LEMMA AppendKeeps ==
  ASSUME NEW S, NEW s \in Seq(S), NEW x \in S, NEW t, t = Append(s, x)
  PROVE  /\ t \in Seq(S) /\ Len(t) = Len(s) + 1 /\ Len(s) \in Nat
         /\ DOMAIN t = DOMAIN s \cup {Len(s) + 1} /\ t[Len(s) + 1] = x
         /\ DOMAIN s = 1 .. Len(s) /\ DOMAIN t = 1 .. Len(s) + 1
         /\ \A i \in DOMAIN s : t[i] = s[i]
OBVIOUS

LEMMA TailKeeps ==
  ASSUME NEW S, NEW s \in Seq(S), s # <<>>, NEW t, t = Tail(s)
  PROVE  /\ t \in Seq(S) /\ Len(t) = Len(s) - 1 /\ Head(s) = s[1] /\ Head(s) \in S
         /\ 1 \in DOMAIN s
         /\ \A i \in DOMAIN t : i + 1 \in DOMAIN s /\ t[i] = s[i + 1] /\ i + 1 > 1 /\ i \in Nat
OBVIOUS

\* A cancelled generation keeps its manager and its parent context.
SameGens ==
  /\ DOMAIN gens' = DOMAIN gens
  /\ \A g \in DOMAIN gens : gens'[g].mgr = gens[g].mgr /\ gens'[g].parent = gens[g].parent

LEMMA CancelKeeps ==
  ASSUME Types, NEW G, gens' = Cancelled(G)
  PROVE  /\ SameGens /\ Len(gens') = Len(gens)
         /\ gens' \in Seq([mgr : Managers, parent : {"root", "restore"}, live : BOOLEAN])
<1> DEFINE R == [mgr : Managers, parent : {"root", "restore"}, live : BOOLEAN]
<1>1. gens \in Seq(R) /\ Len(gens) \in Nat /\ DOMAIN gens = 1 .. Len(gens)
  BY DEF Types, TypeOK
<1>2. \A g \in DOMAIN gens : gens[g] \in R
  <2> HIDE DEF R
  <2> QED BY <1>1
<1>3. \A g \in DOMAIN gens : gens'[g] \in R /\ gens'[g].mgr = gens[g].mgr
                             /\ gens'[g].parent = gens[g].parent
  BY <1>2 DEF Cancelled
<1>4. gens' \in [1 .. Len(gens) -> R] /\ DOMAIN gens' = DOMAIN gens
  <2> HIDE DEF R
  <2> QED BY <1>1, <1>3 DEF Cancelled
<1>5. gens' \in Seq(R) /\ Len(gens') = Len(gens)
  <2> HIDE DEF R
  <2> QED BY <1>1, <1>4
<1> QED BY <1>3, <1>4, <1>5 DEF SameGens

\* A successful StartAll adds one generation.
LEMMA StartKeeps ==
  ASSUME Types, NEW m \in Managers, NEW parent \in {"root", "restore"},
         NEW ok \in SUBSET Channels, Start(m, parent, ok)
  PROVE  LET g == Len(gens) + 1
         IN /\ g \in Gens /\ g \notin DOMAIN gens /\ Len(gens') = g
            /\ DOMAIN gens' = DOMAIN gens \cup {g}
            /\ gens' \in Seq([mgr : Managers, parent : {"root", "restore"}, live : BOOLEAN])
            /\ gens'[g].mgr = m /\ gens'[g].parent = parent
            /\ \A h \in DOMAIN gens : gens'[h] = gens[h] /\ h < g /\ h \in Gens
            /\ DOMAIN gens = 1 .. Len(gens)
<1> DEFINE R == [mgr : Managers, parent : {"root", "restore"}, live : BOOLEAN]
           e == [mgr |-> m, parent |-> parent, live |-> parent = "restore" \/ ~rootDone]
           g == Len(gens) + 1
<1>1. gens \in Seq(R) /\ Len(gens) \in Nat /\ DOMAIN gens = 1 .. Len(gens)
  BY DEF Types, TypeOK
<1>2. g \in Gens /\ gens' = Append(gens, e)
  BY DEF Start
<1>3. e \in R /\ e.mgr = m /\ e.parent = parent
  BY DEF Types, TypeOK
<1>4. /\ gens' \in Seq(R) /\ Len(gens') = g
      /\ DOMAIN gens' = DOMAIN gens \cup {g} /\ gens'[g] = e
      /\ \A h \in DOMAIN gens : gens'[h] = gens[h]
  <2> HIDE DEF R, e
  <2> QED BY <1>1, <1>2, <1>3, AppendKeeps
<1> HIDE DEF R, e
<1>5. \A h \in DOMAIN gens : h < g /\ h \in Gens
  <2>1. MaxStarts \in Nat
    BY ManagerAssumption
  <2> QED BY <1>1, <1>2, <2>1 DEF Gens
<1>6. g \notin DOMAIN gens
  <2>1. \A n \in Nat : n + 1 \notin 1 .. n
    OBVIOUS
  <2> QED BY <1>1, <2>1
<1> QED BY <1>1, <1>2, <1>3, <1>4, <1>5, <1>6 DEF R

-----------------------------------------------------------------------------
(* A worker's step that takes no message.                                  *)

\* Where the worker goes: on with the piece, to the next one, or out of its hands.
StepTo(g, c, w) ==
  /\ w \in WorkerStates /\ worker' = [worker EXCEPT ![g][c] = w]
  /\ Alive(g, c)
  /\ w.pc \in {"limit", "send", "backoff"} =>
        /\ Sending(g, c) /\ w.msg = worker[g][c].msg
        /\ \/ w.chunk > worker[g][c].chunk
           \/ w.chunk = worker[g][c].chunk /\ Attempt(w) >= Attempt(worker[g][c])

\* What the chat shows: as before, or the piece that was in hand.
Shows(g, c, w) ==
  \/ UNCHANGED sent
  \/ \E e \in SentStates :
       /\ sent' = [sent EXCEPT ![c] = e]
       /\ Sending(g, c) /\ Plain(worker[g][c].msg)
       /\ e.msg = worker[g][c].msg /\ e.chunk = worker[g][c].chunk
       /\ w.pc \in {"limit", "send", "backoff"} => Before(e, w)

\* The entries of one generation are typed.
LEMMA Cell ==
  ASSUME Types, NEW g \in DOMAIN gens
  PROVE  /\ g \in Gens /\ gens[g].mgr \in Managers /\ disp[g].to \in Gens \cup {None}
         /\ \A c \in Channels : /\ worker[g][c] \in WorkerStates
                                /\ queue[g][c] \in Seq(Messages)
<1>1. g \in Gens
  <2>1. MaxStarts \in Nat
    BY ManagerAssumption
  <2>2. Len(gens) \in Nat /\ DOMAIN gens = 1 .. Len(gens) /\ Len(gens) <= MaxStarts
    BY DEF Types, TypeOK
  <2> QED BY <2>1, <2>2 DEF Gens
<1>2. /\ worker \in [Gens -> [Channels -> WorkerStates]]
      /\ queue \in [Gens -> [Channels -> Seq(Messages)]]
  BY DEF Types, TypeOK, WorkerStates
<1>3. disp[g].to \in Gens \cup {None}
  BY <1>1 DEF Types, TypeOK
<1>4. gens[g].mgr \in Managers
  <2> DEFINE R == [mgr : Managers, parent : {"root", "restore"}, live : BOOLEAN]
  <2>1. gens \in Seq(R)
    BY DEF Types, TypeOK
  <2>2. gens[g] \in R
    <3> HIDE DEF R
    <3> QED BY <2>1
  <2> QED BY <2>2
<1> HIDE DEF WorkerStates
<1> QED BY <1>1, <1>2, <1>3, <1>4

LEMMA IdleState == Idle \in WorkerStates /\ Idle.pc = "idle"
<1>1. MaxRetries \in Nat
  BY ManagerAssumption
<1> QED BY <1>1 DEF Idle, NoWorker, WorkerStates

\* The piece is settled: the worker is idle or at the next piece.
LEMMA NextPieceStep ==
  ASSUME Types, NEW g \in DOMAIN gens, NEW c \in Channels, Sending(g, c), NextPiece(g, c)
  PROVE  \E w \in WorkerStates :
           /\ StepTo(g, c, w)
           /\ w.pc = "idle" \/ (w.pc = "limit" /\ w.chunk = worker[g][c].chunk + 1)
<1> DEFINE s == worker[g][c]
           w == IF s.chunk < Chunks[s.msg]
                THEN [s EXCEPT !.pc = "limit", !.chunk = s.chunk + 1, !.attempt = 0]
                ELSE Idle
<1>1. worker' = [worker EXCEPT ![g][c] = w]
  <2>1. NextPiece(g, c)
    OBVIOUS
  <2> QED BY <2>1, Zenon DEF NextPiece
<1>2. s \in WorkerStates /\ MaxRetries \in Nat
  BY Cell, ManagerAssumption
<1>3. w \in WorkerStates
  <2>1. [s EXCEPT !.pc = "limit", !.chunk = s.chunk + 1, !.attempt = 0] \in WorkerStates
    <3>1. [s EXCEPT !.pc = "limit"] \in WorkerStates /\ s.chunk + 1 \in Nat
      BY <1>2 DEF WorkerStates
    <3>3. \A r \in WorkerStates, n \in Nat : [r EXCEPT !.chunk = n] \in WorkerStates
      BY <1>2 DEF WorkerStates
    <3>2. \A r \in WorkerStates : [r EXCEPT !.attempt = 0] \in WorkerStates
      BY <1>2 DEF WorkerStates
    <3> HIDE DEF WorkerStates
    <3> QED BY <3>1, <3>2, <3>3
  <2> QED BY <2>1, IdleState
<1>4. Alive(g, c)
  BY DEF Alive, Sending
<1>5. w.pc = "idle" \/ (w.pc = "limit" /\ w.chunk = s.chunk + 1 /\ w.msg = s.msg)
  BY <1>2, IdleState DEF WorkerStates
<1>6. s.chunk \in Nat
  BY <1>2 DEF WorkerStates
<1>7. StepTo(g, c, w)
  <2> HIDE DEF w
  <2> QED BY <1>1, <1>3, <1>4, <1>5, <1>6 DEF StepTo
<1> HIDE DEF w
<1> QED BY <1>3, <1>5, <1>7

\* An attempt is a number, and the first is preSend's.
LEMMA AttemptType ==
  ASSUME NEW w \in WorkerStates
  PROVE  /\ w.chunk \in Nat /\ w.attempt \in 0 .. MaxRetries
         /\ Attempt(w) \in 0 .. MaxRetries + 1
         /\ w.pc = "limit" => Attempt(w) = 0
         /\ w.pc # "limit" => Attempt(w) = w.attempt + 1
<1>1. w.chunk \in Nat /\ w.attempt \in 0 .. MaxRetries /\ MaxRetries \in Nat
  BY ManagerAssumption DEF WorkerStates
<1> QED BY <1>1 DEF Attempt

\* A call that the platform carried out is shown at the place of the piece, and
\* before whatever the worker does next.
LEMMA ShownStep ==
  ASSUME Types, NEW g \in DOMAIN gens, NEW c \in Channels, Sending(g, c),
         NEW w \in WorkerStates, NEW answered \in BOOLEAN, Shown(g, c, answered),
         w.pc \in {"limit", "send", "backoff"} =>
           /\ w.msg = worker[g][c].msg
           /\ \/ w.chunk > worker[g][c].chunk
              \/ /\ ~answered /\ w.chunk = worker[g][c].chunk
                 /\ Attempt(w) > Attempt(worker[g][c])
  PROVE  Shows(g, c, w)
<1> DEFINE s == worker[g][c]
           e == [msg |-> s.msg, chunk |-> s.chunk,
                 repeat |-> IF answered THEN MaxRetries + 2 ELSE Attempt(s) + 1]
<1>1. s \in WorkerStates /\ MaxRetries \in Nat /\ s.msg \in Messages
  BY Cell, ManagerAssumption DEF Types
<1>2. /\ s.chunk \in Nat /\ w.chunk \in Nat
      /\ Attempt(s) \in 0 .. MaxRetries + 1 /\ Attempt(w) \in 0 .. MaxRetries + 1
  BY <1>1, AttemptType
<1>3. CASE s.msg \in Notified
  BY <1>3 DEF Shown, Shows
<1>4. CASE s.msg \notin Notified
  <2>1. sent' = [sent EXCEPT ![c] = e]
    BY <1>4 DEF Shown
  <2>2. e.msg = s.msg /\ e.chunk = s.chunk /\ (~answered => e.repeat = Attempt(s) + 1)
    OBVIOUS
  <2>3. e \in SentStates
    BY <1>1, <1>2 DEF SentStates
  <2> HIDE DEF e, s
  <2>4. w.pc \in {"limit", "send", "backoff"} => Before(e, w)
    BY <1>2, <2>2 DEF Before, s
  <2> QED BY <1>4, <2>1, <2>2, <2>3, <2>4 DEF Shows, Plain, s
<1> QED BY <1>3, <1>4

\* Where a step that takes no message leaves the worker, and what it shows.
LEMMA WorkStep ==
  ASSUME Types, NEW g \in DOMAIN gens, NEW c \in Channels,
         \/ WorkerExit(g, c) \/ Admit(g, c) \/ SendFails(g, c) \/ BackoffEnds(g, c)
         \/ Deliver(g, c)
  PROVE  \E w \in WorkerStates : StepTo(g, c, w) /\ Shows(g, c, w)
<1> DEFINE s == worker[g][c]
<1>1. s \in WorkerStates /\ MaxRetries \in Nat /\ g \in Gens
  BY Cell, ManagerAssumption
<1>2. worker \in [Gens -> [Channels -> WorkerStates]]
  BY DEF Types, TypeOK, WorkerStates
<1>3. s.chunk \in Nat /\ s.attempt \in 0 .. MaxRetries /\ Attempt(s) \in 0 .. MaxRetries + 1
  BY <1>1, AttemptType
<1>4. CASE WorkerExit(g, c)
  <2> DEFINE w == [NoWorker EXCEPT !.pc = "exit"]
  <2>1. w \in WorkerStates /\ w.pc = "exit"
    BY <1>1 DEF NoWorker, WorkerStates
  <2>2. worker' = [worker EXCEPT ![g][c] = w] /\ Alive(g, c) /\ UNCHANGED sent
    BY <1>4 DEF WorkerExit, Alive
  <2> HIDE DEF w
  <2> QED BY <2>1, <2>2 DEF StepTo, Shows
<1>5. ASSUME Sending(g, c), NextPiece(g, c), NEW answered \in BOOLEAN,
             Shown(g, c, answered) \/ UNCHANGED sent
      PROVE  \E w \in WorkerStates : StepTo(g, c, w) /\ Shows(g, c, w)
  <2>1. PICK w \in WorkerStates :
          /\ StepTo(g, c, w)
          /\ w.pc = "idle" \/ (w.pc = "limit" /\ w.chunk = s.chunk + 1)
    BY <1>5, NextPieceStep
  <2>2. w.pc \in {"limit", "send", "backoff"} => w.msg = s.msg /\ w.chunk > s.chunk
    BY <1>3, <2>1 DEF StepTo
  <2>3. Shows(g, c, w)
    <3>1. CASE Shown(g, c, answered)
      BY <1>5, <2>2, <3>1, ShownStep
    <3>2. CASE UNCHANGED sent
      BY <3>2 DEF Shows
    <3> QED BY <1>5, <3>1, <3>2
  <2> QED BY <2>1, <2>3
<1>6. ASSUME NEW pc \in {"send", "backoff"}, NEW n \in 0 .. MaxRetries, Sending(g, c),
             worker' = [worker EXCEPT ![g][c] = [s EXCEPT !.pc = pc, !.attempt = n]],
             \/ NotAnswered(g, c) /\ n + 1 > Attempt(s)
             \/ UNCHANGED sent /\ n + 1 = Attempt(s)
      PROVE  \E w \in WorkerStates : StepTo(g, c, w) /\ Shows(g, c, w)
  <2> DEFINE w == [s EXCEPT !.pc = pc, !.attempt = n]
  <2>1. /\ w \in WorkerStates /\ w.msg = s.msg /\ w.chunk = s.chunk
        /\ w.pc # "limit" /\ w.attempt = n
    BY <1>1 DEF WorkerStates
  <2>2. Alive(g, c)
    BY <1>6 DEF Alive, Sending
  <2>3. worker' = [worker EXCEPT ![g][c] = w]
    BY <1>6
  <2> HIDE DEF w
  <2>4. Attempt(w) = n + 1
    BY <2>1, AttemptType
  <2>5. StepTo(g, c, w)
    <3>1. n + 1 > Attempt(s) \/ n + 1 = Attempt(s)
      BY <1>6
    <3>2. Attempt(w) >= Attempt(s)
      BY ONLY <1>3, <2>4, <3>1
    <3> QED BY <1>6, <2>1, <2>2, <2>3, <3>2 DEF StepTo
  <2>6. Shows(g, c, w)
    <3>1. CASE UNCHANGED sent
      BY <3>1 DEF Shows
    <3>2. CASE Shown(g, c, FALSE) /\ n + 1 > Attempt(s)
      BY <1>6, <2>1, <2>4, <3>2, ShownStep
    <3> QED BY <1>6, <3>1, <3>2 DEF NotAnswered
  <2> QED BY <2>1, <2>5, <2>6
<1>7. [s EXCEPT !.pc = "send", !.attempt = s.attempt] = [s EXCEPT !.pc = "send"]
  BY <1>1 DEF WorkerStates
<1>8. CASE Admit(g, c)
  <2>1. CASE NotAnswered(g, c) /\ worker' = [worker EXCEPT ![g][c].pc = "send"]
    <3>1. worker' = [worker EXCEPT ![g][c] = [s EXCEPT !.pc = "send"]]
      <4> HIDE DEF WorkerStates
      <4> QED BY <1>1, <1>2, <2>1
    <3>2. s.attempt + 1 > Attempt(s) /\ Sending(g, c)
      BY <1>1, <1>3, <1>8, AttemptType DEF Admit, Sending
    <3> QED BY <1>3, <1>6, <1>7, <2>1, <3>1, <3>2
  <2>2. CASE NextPiece(g, c) /\ UNCHANGED sent
    BY <1>5, <1>8, <2>2 DEF Admit, Sending
  <2> QED BY <1>8, <2>1, <2>2 DEF Admit
<1>9. CASE SendFails(g, c)
  <2>1. NotAnswered(g, c) /\ Sending(g, c) /\ s.pc = "send"
    BY <1>9 DEF SendFails, Sending
  <2>2. CASE /\ s.attempt < MaxRetries
             /\ worker' = [worker EXCEPT ![g][c].pc = "backoff", ![g][c].attempt = @ + 1]
    <3>1. worker' = [worker EXCEPT ![g][c] =
                       [s EXCEPT !.pc = "backoff", !.attempt = s.attempt + 1]]
      <4> HIDE DEF WorkerStates
      <4> QED BY <1>1, <1>2, <2>2
    <3>2. s.attempt + 1 \in 0 .. MaxRetries /\ Attempt(s) = s.attempt + 1
      BY <1>1, <1>3, <2>1, <2>2, AttemptType
    <3>3. (s.attempt + 1) + 1 > Attempt(s)
      BY <1>3, <3>2
    <3> QED BY <1>6, <2>1, <3>1, <3>2, <3>3
  <2>3. CASE NextPiece(g, c)
    BY <1>5, <2>1, <2>3 DEF NotAnswered
  <2> QED BY <1>9, <2>2, <2>3 DEF SendFails
<1>10. CASE BackoffEnds(g, c)
  <2>1. UNCHANGED sent /\ Sending(g, c) /\ s.pc = "backoff"
    BY <1>10 DEF BackoffEnds, Sending
  <2>2. CASE worker' = [worker EXCEPT ![g][c].pc = "send"]
    <3>1. worker' = [worker EXCEPT ![g][c] = [s EXCEPT !.pc = "send"]]
      <4> HIDE DEF WorkerStates
      <4> QED BY <1>1, <1>2, <2>2
    <3>2. s.attempt + 1 = Attempt(s)
      BY <1>1, <2>1, AttemptType
    <3> QED BY <1>3, <1>6, <1>7, <2>1, <3>1, <3>2
  <2>3. CASE NextPiece(g, c)
    BY <1>5, <2>1, <2>3
  <2> QED BY <1>10, <2>2, <2>3 DEF BackoffEnds
<1>11. CASE Deliver(g, c)
  <2>1. Sending(g, c) /\ NextPiece(g, c) /\ Shown(g, c, TRUE)
    BY <1>11 DEF Deliver, Sending
  <2> QED BY <1>5, <2>1
<1> QED BY <1>4, <1>8, <1>9, <1>10, <1>11

-----------------------------------------------------------------------------
(* Types.                                                                  *)

\* A step of a worker keeps the types if the worker's state is typed.
LEMMA TypesAfterWorker ==
  ASSUME Types, NEW g \in DOMAIN gens, NEW c \in Channels, UNCHANGED Others,
         NEW w \in WorkerStates, worker' = [worker EXCEPT ![g][c] = w],
         w.pc \in {"limit", "send", "backoff"} => w.msg \in Messages,
         NEW q \in Seq(Messages), Len(q) <= QueueSize, queue' = [queue EXCEPT ![g][c] = q],
         sent' \in [Channels -> SentStates]
  PROVE  Types'
<1>1. g \in Gens
  BY Cell
<1>2. /\ worker' \in [Gens -> [Channels -> WorkerStates]]
      /\ worker'[g][c] = w
      /\ \A h \in Gens, d \in Channels :
           <<h, d>> # <<g, c>> => worker'[h][d] = worker[h][d]
  <2>1. worker \in [Gens -> [Channels -> WorkerStates]]
    BY DEF Types, TypeOK, WorkerStates
  <2> QED BY <1>1, <2>1, WorkerChanges
<1>3. /\ queue' \in [Gens -> [Channels -> Seq(Messages)]]
      /\ queue'[g][c] = q
      /\ \A h \in Gens, d \in Channels :
           <<h, d>> # <<g, c>> => queue'[h][d] = queue[h][d]
  <2>1. queue \in [Gens -> [Channels -> Seq(Messages)]]
    BY DEF Types, TypeOK
  <2> QED BY <1>1, <2>1, QueueChanges
<1>4. \A h \in Gens, d \in Channels : Len(queue'[h][d]) <= QueueSize
  BY <1>3 DEF Types, TypeOK
<1>5. \A h \in Gens, d \in Channels : Sending(h, d)' => worker'[h][d].msg \in Messages
  BY <1>2 DEF Types, Sending
<1>6. \A h \in Gens \ DOMAIN gens : \A d \in Channels :
        worker'[h][d] = worker[h][d] /\ queue'[h][d] = queue[h][d]
  BY <1>2, <1>3
<1>7. TypeOK'
  BY <1>2, <1>3, <1>4 DEF Types, TypeOK, WorkerStates, SentStates, Others, registry, callers
<1>8. \A h \in Gens \ DOMAIN gens' :
        ~Holds(h)' /\ \A d \in Channels : worker'[h][d].pc = "off" /\ queue'[h][d] = <<>>
  BY <1>6 DEF Types, Others, registry, Holds
<1> QED BY <1>5, <1>7, <1>8 DEF Types, Others, registry, callers, Holds

LEMMA QueueUnchanged ==
  ASSUME Types, NEW g \in DOMAIN gens, NEW c \in Channels
  PROVE  queue = [queue EXCEPT ![g][c] = queue[g][c]] /\ Len(queue[g][c]) <= QueueSize
<1>1. g \in Gens /\ queue \in [Gens -> [Channels -> Seq(Messages)]]
  BY Cell DEF Types, TypeOK
<1> QED BY <1>1 DEF Types, TypeOK

LEMMA TypesAfterWork ==
  ASSUME Types, NEW g \in DOMAIN gens, NEW c \in Channels, NEW w \in WorkerStates,
         StepTo(g, c, w), UNCHANGED <<Others, queue>>,
         sent' \in [Channels -> SentStates]
  PROVE  Types'
<1>1. g \in Gens /\ queue[g][c] \in Seq(Messages)
  BY Cell
<1>2. w.pc \in {"limit", "send", "backoff"} => w.msg \in Messages
  BY <1>1 DEF StepTo, Types
<1>3. queue' = [queue EXCEPT ![g][c] = queue[g][c]] /\ Len(queue[g][c]) <= QueueSize
  BY QueueUnchanged
<1>4. UNCHANGED Others /\ worker' = [worker EXCEPT ![g][c] = w]
  BY DEF StepTo
<1> QED BY <1>1, <1>2, <1>3, <1>4, TypesAfterWorker

\* The message and the worker a dispatcher holds.
LEMMA DispChanges ==
  ASSUME Types, NEW g \in DOMAIN gens, NEW d,
         d \in [pc : {"off", "recv", "look", "push", "exit"},
                msg : Messages \cup {None}, to : Gens \cup {None}],
         d.pc \in {"look", "push"} => d.msg \in Messages \ Notified,
         d.pc = "push" => d.to \in DOMAIN gens,
         disp' = [disp EXCEPT ![g] = d], bus' \in Seq(Messages \ Notified),
         UNCHANGED <<closed, published, registry, worker, notify, callers, sent>>,
         queue' \in [Gens -> [Channels -> Seq(Messages)]],
         \A h \in Gens, c \in Channels : Len(queue'[h][c]) <= QueueSize,
         \A h \in Gens \ DOMAIN gens, c \in Channels : queue'[h][c] = queue[h][c]
  PROVE  Types'
<1>1. g \in Gens
  BY Cell
<1>2. disp' \in [Gens -> [pc : {"off", "recv", "look", "push", "exit"},
                          msg : Messages \cup {None}, to : Gens \cup {None}]]
  BY <1>1 DEF Types, TypeOK
<1>3. disp'[g] = d /\ \A h \in Gens : h # g => disp'[h] = disp[h]
  BY <1>1 DEF Types, TypeOK
<1>4. bus' \in Seq(Messages)
  <2>1. Seq(Messages \ Notified) \subseteq Seq(Messages)
    BY ManagerAssumption
  <2> QED BY <2>1
<1>5. TypeOK'
  BY <1>2, <1>4 DEF Types, TypeOK, registry, callers
<1>6. \A h \in Gens : Holds(h)' => disp'[h].msg \in Messages \ Notified
  BY <1>3 DEF Types, Holds
<1>7. \A h \in Gens : disp'[h].pc = "push" => disp'[h].to \in DOMAIN gens
  BY <1>3 DEF Types
<1>8. \A h \in Gens \ DOMAIN gens :
        /\ disp'[h].pc \notin {"look", "push"}
        /\ \A c \in Channels : worker'[h][c].pc = "off" /\ queue'[h][c] = <<>>
  <2> TAKE h \in Gens \ DOMAIN gens
  <2>1. h # g /\ h \in Gens
    OBVIOUS
  <2>2. /\ disp[h].pc \notin {"look", "push"}
        /\ \A c \in Channels : worker[h][c].pc = "off" /\ queue[h][c] = <<>>
    BY DEF Types, Holds
  <2>3. disp'[h] = disp[h] /\ \A c \in Channels : worker'[h][c] = worker[h][c] /\ queue'[h][c] = queue[h][c]
    BY <1>3, <2>1
  <2> QED BY <2>2, <2>3
<1>9. \A h \in Gens \ DOMAIN gens' : ~Holds(h)'
  BY <1>8 DEF Holds, registry
<1> QED BY <1>5, <1>6, <1>7, <1>8, <1>9 DEF Types, registry, callers, Sending

\* The steps of a worker.
LEMMA TypesWorker ==
  ASSUME Types, NEW g \in DOMAIN gens, NEW c \in Channels, Worker(g, c)
  PROVE  Types'
<1>1. /\ g \in Gens /\ queue[g][c] \in Seq(Messages) /\ worker[g][c] \in WorkerStates
      /\ 0 \in 0 .. MaxRetries
  BY Cell, ManagerAssumption
<1>2. sent \in [Channels -> SentStates]
  BY DEF Types, TypeOK, SentStates
<1>3. CASE Take(g, c)
  <2> DEFINE q == queue[g][c]
             w == [pc |-> "limit", msg |-> Head(q), chunk |-> 1, attempt |-> 0]
  <2>1. Tail(q) \in Seq(Messages) /\ Len(Tail(q)) <= Len(q) /\ Head(q) \in Messages
    BY <1>1, <1>3 DEF Take
  <2>2. Len(Tail(q)) <= QueueSize
    <3>1. Len(q) <= QueueSize /\ Len(q) \in Nat /\ Len(Tail(q)) \in Nat /\ QueueSize \in Nat
      BY <1>1, <2>1, QueueUnchanged, ManagerAssumption
    <3> QED BY <2>1, <3>1
  <2>3. queue' = [queue EXCEPT ![g][c] = Tail(q)] /\ worker' = [worker EXCEPT ![g][c] = w]
    BY <1>3 DEF Take
  <2>4. w \in WorkerStates /\ w.msg \in Messages
    BY <1>1, <2>1 DEF WorkerStates
  <2>5. UNCHANGED <<Others, sent>>
    BY <1>3 DEF Take
  <2> HIDE DEF w
  <2> QED BY <1>2, <2>1, <2>2, <2>3, <2>4, <2>5, TypesAfterWorker
<1>4. CASE \/ WorkerExit(g, c) \/ Admit(g, c) \/ SendFails(g, c) \/ BackoffEnds(g, c)
           \/ Deliver(g, c)
  <2>1. PICK w \in WorkerStates : StepTo(g, c, w) /\ Shows(g, c, w)
    BY <1>4, WorkStep
  <2>2. UNCHANGED <<Others, queue>>
    BY <1>4 DEF WorkerExit, Admit, SendFails, BackoffEnds, Deliver
  <2>3. sent' \in [Channels -> SentStates]
    BY <1>2, <2>1 DEF Shows
  <2> QED BY <2>1, <2>2, <2>3, TypesAfterWork
<1> QED BY <1>3, <1>4 DEF Worker

\* The steps of a dispatcher.
LEMMA TypesDispatcher ==
  ASSUME Types, NEW g \in DOMAIN gens, Dispatcher(g), Registry
  PROVE  Types'
<1>1. /\ g \in Gens /\ bus \in Seq(Messages \ Notified)
      /\ disp \in [Gens -> [pc : {"off", "recv", "look", "push", "exit"},
                            msg : Messages \cup {None}, to : Gens \cup {None}]]
      /\ queue \in [Gens -> [Channels -> Seq(Messages)]]
      /\ \A h \in Gens, c \in Channels : Len(queue[h][c]) <= QueueSize
  BY Cell DEF Types, TypeOK
<1> DEFINE D == [pc : {"off", "recv", "look", "push", "exit"},
                 msg : Messages \cup {None}, to : Gens \cup {None}]
<1>2. /\ disp[g] \in D
      /\ \A pc \in {"off", "recv", "look", "push", "exit"} : [NoDisp EXCEPT !.pc = pc] \in D
      /\ \A pc \in {"off", "recv", "look", "push", "exit"} : [NoDisp EXCEPT !.pc = pc].pc = pc
  BY <1>1 DEF NoDisp
<1>3. CASE Receive(g)
  <2>1. Head(bus) \in Messages \ Notified /\ Tail(bus) \in Seq(Messages \ Notified)
    BY <1>1, <1>3 DEF Receive
  <2>2. [pc |-> "look", msg |-> Head(bus), to |-> None] \in D
    BY <2>1
  <2>3. /\ disp' = [disp EXCEPT ![g] = [pc |-> "look", msg |-> Head(bus), to |-> None]]
        /\ bus' = Tail(bus)
        /\ UNCHANGED <<closed, published, registry, worker, queue, notify, callers, sent>>
    BY <1>3 DEF Receive
  <2> QED BY <1>1, <2>1, <2>2, <2>3, DispChanges
<1>4. CASE DispatchExit(g)
  <2>1. disp' = [disp EXCEPT ![g] = [disp[g] EXCEPT !.pc = "exit"]]
    BY <1>4 DEF DispatchExit
  <2>2. [disp[g] EXCEPT !.pc = "exit"] \in D
    BY <1>2
  <2>3. UNCHANGED <<bus, closed, published, registry, worker, queue, notify, callers, sent>>
    BY <1>4 DEF DispatchExit
  <2>4. [disp[g] EXCEPT !.pc = "exit"].pc = "exit"
    BY <1>2
  <2> QED BY <1>1, <2>1, <2>2, <2>3, <2>4, DispChanges
<1>5. CASE Look(g)
  <2> DEFINE x == disp[g].msg
             to == workers[gens[g].mgr][To[x]]
  <2>1. /\ x \in Messages \ Notified /\ disp[g].pc = "look"
        /\ UNCHANGED <<bus, closed, published, registry, worker, queue, notify, callers, sent>>
    BY <1>1, <1>5 DEF Look, Types, Holds
  <2>2. CASE to = None
    <3>1. disp' = [disp EXCEPT ![g] = [NoDisp EXCEPT !.pc = "recv"]]
      BY <1>5, <2>2 DEF Look
    <3>2. PICK d : d = [NoDisp EXCEPT !.pc = "recv"]
      OBVIOUS
    <3>3. d \in D /\ d.pc = "recv"
      BY <1>2, <3>2
    <3> QED BY <1>1, <2>1, <3>1, <3>2, <3>3, DispChanges
  <2>3. CASE to # None
    <3>1. gens[g].mgr \in Managers /\ To[x] \in Channels
      BY <2>1, Cell, ManagerAssumption
    <3>2. to \in DOMAIN gens /\ to \in Gens
      BY <2>3, <3>1 DEF Registry, Types, TypeOK
    <3>3. PICK d : d = [disp[g] EXCEPT !.pc = "push", !.to = to]
      OBVIOUS
    <3>4. disp' = [disp EXCEPT ![g] = d]
      BY <1>5, <2>3, <3>3 DEF Look
    <3>5. d \in D /\ d.msg = x /\ d.to = to
      BY <1>2, <3>2, <3>3
    <3> QED BY <1>1, <2>1, <3>2, <3>4, <3>5, DispChanges
  <2> QED BY <2>2, <2>3
<1>6. CASE Push(g)
  <2> DEFINE x == disp[g].msg
             to == disp[g].to
  <2>1. /\ x \in Messages /\ disp[g].pc = "push" /\ to \in DOMAIN gens
        /\ UNCHANGED <<bus, closed, published, registry, worker, notify, callers, sent>>
    BY <1>1, <1>6 DEF Push, Types, Holds
  <2>2. to \in Gens /\ To[x] \in Channels
    BY <2>1, ManagerAssumption, Cell
  <2>3. ASSUME NEW pc \in {"recv", "exit"}, disp' = [disp EXCEPT ![g] = [NoDisp EXCEPT !.pc = pc]],
               queue' \in [Gens -> [Channels -> Seq(Messages)]],
               \A h \in Gens, c \in Channels : Len(queue'[h][c]) <= QueueSize,
               \A h \in Gens \ DOMAIN gens, c \in Channels : queue'[h][c] = queue[h][c]
        PROVE  Types'
    <3>1. PICK d : d = [NoDisp EXCEPT !.pc = pc]
      OBVIOUS
    <3>2. d \in D /\ d.pc = pc
      BY <1>2, <3>1
    <3> QED BY <1>1, <2>1, <2>3, <3>1, <3>2, DispChanges
  <2>4. CASE /\ Len(queue[to][To[x]]) < QueueSize
             /\ queue' = [queue EXCEPT ![to][To[x]] = Append(queue[to][To[x]], x)]
             /\ disp' = [disp EXCEPT ![g] = [NoDisp EXCEPT !.pc = "recv"]]
    <3>0. PICK s : s = queue[to][To[x]]
      OBVIOUS
    <3>1. PICK q : q = Append(s, x)
      OBVIOUS
    <3>2. q \in Seq(Messages) /\ Len(q) <= QueueSize
      <4>0. Len(s) < QueueSize
        BY <2>4, <3>0
      <4>1. s \in Seq(Messages) /\ QueueSize \in Nat /\ Len(s) < QueueSize
        BY <1>1, <2>2, <3>0, <4>0, ManagerAssumption
      <4>2. Len(s) \in Nat /\ Len(q) = Len(s) + 1 /\ q \in Seq(Messages)
        BY <2>1, <3>1, <4>1, AppendKeeps
      <4> QED BY <4>1, <4>2
    <3>6. queue' = [queue EXCEPT ![to][To[x]] = q]
      BY <2>4, <3>0, <3>1
    <3>3. /\ queue' \in [Gens -> [Channels -> Seq(Messages)]]
          /\ queue'[to][To[x]] = q
          /\ \A h \in Gens, c \in Channels :
               <<h, c>> # <<to, To[x]>> => queue'[h][c] = queue[h][c]
      BY <1>1, <2>2, <3>2, <3>6, QueueChanges
    <3>4. \A h \in Gens, c \in Channels : Len(queue'[h][c]) <= QueueSize
      BY <1>1, <3>2, <3>3
    <3>5. \A h \in Gens \ DOMAIN gens, c \in Channels : queue'[h][c] = queue[h][c]
      BY <2>1, <3>3
    <3> QED BY <2>3, <2>4, <3>3, <3>4, <3>5
  <2>5. CASE disp' = [disp EXCEPT ![g] = [NoDisp EXCEPT !.pc = "exit"]] /\ UNCHANGED queue
    BY <1>1, <2>3, <2>5
  <2> QED BY <1>6, <2>4, <2>5 DEF Push
<1> QED BY <1>3, <1>4, <1>5, <1>6 DEF Dispatcher

\* Publish, and the two halves of SendToChannel.
LEMMA TypesProducer ==
  ASSUME Types, NEW x \in Messages, Publish(x) \/ NotifyLook(x) \/ NotifyPush(x),
         Registry
  PROVE  Types'
<1>1. /\ bus \in Seq(Messages \ Notified) /\ To[x] \in Channels /\ Notified \subseteq Messages
      /\ queue \in [Gens -> [Channels -> Seq(Messages)]]
      /\ notify \in [Notified -> [pc : {"idle", "push", "ok", "failed"}, to : Gens \cup {None}]]
  BY ManagerAssumption DEF Types, TypeOK
<1>2. Seq(Messages \ Notified) \subseteq Seq(Messages)
  BY <1>1
<1>3. CASE Publish(x)
  <2>1. bus' \in Seq(Messages \ Notified) /\ bus' \in Seq(Messages)
    BY <1>1, <1>2, <1>3 DEF Publish
  <2>2. /\ published' \subseteq Messages
        /\ UNCHANGED <<closed, registry, disp, worker, queue, notify, callers, sent>>
    BY <1>3 DEF Publish, Types, TypeOK
  <2>3. TypeOK'
    BY <2>1, <2>2 DEF Types, TypeOK, registry, callers
  <2> QED BY <2>1, <2>2, <2>3 DEF Types, registry, callers, Holds, Sending
<1>4. CASE NotifyLook(x)
  <2> DEFINE g == workers[current][To[x]]
  <2>1. /\ published' \subseteq Messages
        /\ UNCHANGED <<bus, closed, registry, disp, worker, queue, callers, sent>>
    BY <1>4 DEF NotifyLook, Types, TypeOK
  <2>2. g # None => g \in DOMAIN gens /\ g \in Gens
    BY <1>1, Cell DEF Types, TypeOK, Registry
  <2>3. PICK n : n = IF g = None THEN [pc |-> "failed", to |-> None]
                     ELSE [pc |-> "push", to |-> g]
    OBVIOUS
  <2>4. /\ n \in [pc : {"idle", "push", "ok", "failed"}, to : Gens \cup {None}]
        /\ n.pc = "push" => n.to \in DOMAIN gens
    BY <2>2, <2>3
  <2>5. notify' = [notify EXCEPT ![x] = n]
    BY <1>4, <2>3 DEF NotifyLook
  <2>6. notify' \in [Notified -> [pc : {"idle", "push", "ok", "failed"}, to : Gens \cup {None}]]
    BY <1>1, <2>4, <2>5
  <2>7. \A y \in Notified : notify'[y].pc = "push" => notify'[y].to \in DOMAIN gens
    BY <1>1, <2>4, <2>5 DEF Types
  <2>8. TypeOK'
    BY <2>1, <2>6 DEF Types, TypeOK, registry, callers
  <2> QED BY <2>1, <2>7, <2>8 DEF Types, registry, callers, Holds, Sending
<1>5. CASE NotifyPush(x)
  <2> DEFINE g == notify[x].to
             c == To[x]
  <2>1. /\ x \in Notified /\ notify[x].pc = "push" /\ g \in DOMAIN gens /\ g \in Gens
        /\ UNCHANGED <<bus, closed, published, registry, disp, worker, callers, sent>>
    BY <1>5, Cell DEF NotifyPush, Types
  <2>2. \E pc \in {"ok", "failed"} : notify' = [notify EXCEPT ![x].pc = pc]
    BY <1>5 DEF NotifyPush
  <2>3. PICK pc \in {"ok", "failed"} : notify' = [notify EXCEPT ![x] = [notify[x] EXCEPT !.pc = pc]]
    BY <2>2
  <2>4. /\ notify' \in [Notified -> [pc : {"idle", "push", "ok", "failed"}, to : Gens \cup {None}]]
        /\ \A y \in Notified : notify'[y].pc = "push" => notify[y].pc = "push" /\ notify'[y].to = notify[y].to
    BY <1>1, <2>1, <2>3
  <2>5. /\ queue' \in [Gens -> [Channels -> Seq(Messages)]]
        /\ \A h \in Gens, d \in Channels : Len(queue'[h][d]) <= QueueSize
        /\ \A h \in Gens \ DOMAIN gens, d \in Channels : queue'[h][d] = queue[h][d]
    <3>0. \A h \in Gens, d \in Channels : Len(queue[h][d]) <= QueueSize
      BY DEF Types, TypeOK
    <3>1. CASE UNCHANGED queue
      BY <1>1, <3>0, <3>1
    <3>2. CASE Len(queue[g][c]) < QueueSize /\ queue' = [queue EXCEPT ![g][c] = Append(queue[g][c], x)]
      <4>1. PICK s : s = queue[g][c]
        OBVIOUS
      <4>2. PICK q : q = Append(s, x)
        OBVIOUS
      <4>3. s \in Seq(Messages) /\ QueueSize \in Nat /\ Len(s) < QueueSize
        BY <1>1, <2>1, <3>2, <4>1, ManagerAssumption
      <4>4. Len(s) \in Nat /\ Len(q) = Len(s) + 1 /\ q \in Seq(Messages)
        BY <4>2, <4>3, AppendKeeps
      <4>5. Len(q) <= QueueSize /\ queue' = [queue EXCEPT ![g][c] = q]
        <5>1. Len(q) <= QueueSize
          BY <4>3, <4>4
        <5>2. queue' = [queue EXCEPT ![g][c] = q]
          BY <3>2, <4>1, <4>2
        <5> QED BY <5>1, <5>2
      <4>6. /\ queue' \in [Gens -> [Channels -> Seq(Messages)]]
            /\ queue'[g][c] = q
            /\ \A h \in Gens, d \in Channels : <<h, d>> # <<g, c>> => queue'[h][d] = queue[h][d]
        BY <1>1, <2>1, <4>4, <4>5, QueueChanges
      <4>7. \A h \in Gens, d \in Channels : Len(queue'[h][d]) <= QueueSize
        BY <3>0, <4>5, <4>6
      <4>8. \A h \in Gens \ DOMAIN gens, d \in Channels : queue'[h][d] = queue[h][d]
        BY <2>1, <4>6
      <4> QED BY <4>6, <4>7, <4>8
    <3> QED BY <1>5, <3>1, <3>2 DEF NotifyPush
  <2>6. TypeOK'
    BY <2>1, <2>4, <2>5 DEF Types, TypeOK, registry, callers
  <2>7. \A y \in Notified : notify'[y].pc = "push" => notify'[y].to \in DOMAIN gens
    BY <2>4 DEF Types
  <2> QED BY <1>1, <2>1, <2>6, <2>7, <2>5 DEF Types, registry, callers, Holds, Sending
<1> QED BY <1>3, <1>4, <1>5

CallerStates ==
  [pc : {"idle", "bus", "stop", "wait", "close", "start", "restore", "return", "done"},
   mgr : Managers \cup {None}, waits : SUBSET (Gens \X Channels)]

\* The steps of reload and shutdown that start no generation.
LEMMA TypesCaller ==
  ASSUME Types, NEW p \in Callers,
         bus' = bus \/ bus' = <<>>, closed' \in BOOLEAN, rootDone' \in BOOLEAN,
         UNCHANGED <<published, disp, worker, queue, notify, current, sent>>,
         gens' = gens \/ (\E G : gens' = Cancelled(G)),
         task' \in [Managers -> Gens \cup {None}],
         workers' \in [Managers -> [Channels -> Gens \cup {None}]],
         platform' \in [Managers -> [Channels -> BOOLEAN]],
         used' \in Managers, NEW r, caller' = [caller EXCEPT ![p] = r],
         r \in CallerStates
  PROVE  Types' /\ SameGens
<1>1. /\ gens' \in Seq([mgr : Managers, parent : {"root", "restore"}, live : BOOLEAN])
      /\ SameGens /\ Len(gens') = Len(gens)
  <2>1. CASE gens' = gens
    BY <2>1 DEF Types, TypeOK, SameGens
  <2>2. CASE \E G : gens' = Cancelled(G)
    <3>1. PICK G : gens' = Cancelled(G)
      BY <2>2
    <3> QED BY <3>1, CancelKeeps
  <2> QED BY <2>1, <2>2
<1>2. bus' \in Seq(Messages) /\ bus' \in Seq(Messages \ Notified)
  <2>1. bus \in Seq(Messages) /\ bus \in Seq(Messages \ Notified)
    BY DEF Types, TypeOK
  <2>2. <<>> \in Seq(Messages) /\ <<>> \in Seq(Messages \ Notified)
    OBVIOUS
  <2> QED BY <2>1, <2>2
<1>3. caller' \in [Callers -> CallerStates]
  BY DEF Types, TypeOK, CallerStates
<1>4. TypeOK'
  BY <1>1, <1>2, <1>3 DEF Types, TypeOK, CallerStates
<1> QED BY <1>1, <1>2, <1>4 DEF Types, SameGens, Holds, Sending

LEMMA WaitedType ==
  ASSUME Types, Registry, NEW m \in Managers
  PROVE  Waited(m) \subseteq (DOMAIN gens) \X Channels /\ Waited(m) \subseteq Gens \X Channels
<1>1. ASSUME NEW c \in Channels, workers[m][c] # None
      PROVE  workers[m][c] \in DOMAIN gens /\ workers[m][c] \in Gens
  BY <1>1, Cell DEF Registry
<1> QED BY <1>1 DEF Waited

\* StartAll: a generation with an empty queue, and no message in hand.
LEMMA TypesStart ==
  ASSUME Types, NEW m \in Managers, NEW parent \in {"root", "restore"},
         NEW ok \in SUBSET Channels, Start(m, parent, ok), NEW g, g = Len(gens) + 1,
         UNCHANGED <<bus, closed, published, queue, notify, used, rootDone, sent>>,
         current' \in Managers, NEW r, caller' = [caller EXCEPT !["reload"] = r],
         r \in CallerStates
  PROVE  /\ Types'
         /\ ~Holds(g)'
         /\ \A c \in Channels : queue'[g][c] = <<>> /\ ~Sending(g, c)'
         /\ \A h \in DOMAIN gens : disp'[h] = disp[h] /\ worker'[h] = worker[h]
<1>1. /\ g \in Gens /\ g \notin DOMAIN gens /\ Len(gens') = g
      /\ DOMAIN gens' = DOMAIN gens \cup {g}
      /\ gens' \in Seq([mgr : Managers, parent : {"root", "restore"}, live : BOOLEAN])
      /\ \A h \in DOMAIN gens : h \in Gens /\ h # g
  BY StartKeeps
<1>2. /\ disp' = [disp EXCEPT ![g].pc = "recv"]
      /\ worker' = [worker EXCEPT ![g] =
                      [c \in Channels |-> IF c \in ok THEN Idle ELSE NoWorker]]
      /\ workers' = [workers EXCEPT ![m] =
                       [c \in Channels |-> IF c \in ok THEN g ELSE @[c]]]
      /\ task' = [task EXCEPT ![m] = g]
      /\ platform' = [platform EXCEPT ![m] = [c \in Channels |-> c \in ok \/ @[c]]]
  BY DEF Start
<1>3. /\ disp' \in [Gens -> [pc : {"off", "recv", "look", "push", "exit"},
                             msg : Messages \cup {None}, to : Gens \cup {None}]]
      /\ disp'[g].pc = "recv" /\ \A h \in Gens : h # g => disp'[h] = disp[h]
  <2>1. disp \in [Gens -> [pc : {"off", "recv", "look", "push", "exit"},
                          msg : Messages \cup {None}, to : Gens \cup {None}]]
    BY DEF Types, TypeOK
  <2>2. PICK d : d = [disp[g] EXCEPT !.pc = "recv"]
    OBVIOUS
  <2>3. /\ d \in [pc : {"off", "recv", "look", "push", "exit"},
                  msg : Messages \cup {None}, to : Gens \cup {None}]
        /\ d.pc = "recv"
    BY <1>1, <2>1, <2>2
  <2>4. disp' = [disp EXCEPT ![g] = d]
    BY <1>2, <2>2
  <2> QED BY <1>1, <2>1, <2>3, <2>4
<1>4. PICK ws : ws = [c \in Channels |-> IF c \in ok THEN Idle ELSE NoWorker]
  OBVIOUS
<1>5. /\ ws \in [Channels -> WorkerStates]
      /\ \A c \in Channels : ws[c].pc \in {"idle", "off"}
  <2>1. NoWorker \in WorkerStates /\ NoWorker.pc = "off"
    <3>1. 0 \in 0 .. MaxRetries
      BY ManagerAssumption
    <3> QED BY <3>1 DEF NoWorker, WorkerStates
  <2> HIDE DEF WorkerStates
  <2> QED BY <1>4, <2>1, IdleState
<1>6. /\ worker' \in [Gens -> [Channels -> WorkerStates]]
      /\ worker'[g] = ws /\ \A h \in Gens : h # g => worker'[h] = worker[h]
  <2>1. worker \in [Gens -> [Channels -> WorkerStates]]
    BY DEF Types, TypeOK, WorkerStates
  <2>2. worker' = [worker EXCEPT ![g] = ws]
    BY <1>2, <1>4
  <2> HIDE DEF WorkerStates
  <2> QED BY <1>1, <1>5, <2>1, <2>2
<1>7. workers' \in [Managers -> [Channels -> Gens \cup {None}]]
  BY <1>1, <1>2 DEF Types, TypeOK
<1>8. task' \in [Managers -> Gens \cup {None}]
  BY <1>1, <1>2 DEF Types, TypeOK
<1>9. platform' \in [Managers -> [Channels -> BOOLEAN]]
  BY <1>2 DEF Types, TypeOK
<1>10. caller' \in [Callers -> CallerStates]
  BY DEF Types, TypeOK, CallerStates
<1>11. TypeOK'
  BY <1>1, <1>3, <1>6, <1>7, <1>8, <1>9, <1>10 DEF Types, TypeOK, WorkerStates, CallerStates
<1>12. \A h \in Gens : disp'[h].pc \in {"look", "push"} => h # g
  BY <1>3
<1>13. /\ \A h \in Gens : disp'[h].pc \in {"look", "push"} => disp'[h].msg \in Messages \ Notified
       /\ \A h \in Gens : disp'[h].pc = "push" => disp'[h].to \in DOMAIN gens'
  BY <1>1, <1>3, <1>12 DEF Types, Holds
<1>14. \A h \in Gens, c \in Channels :
         worker'[h][c].pc \in {"limit", "send", "backoff"}
           => h # g /\ worker'[h][c].msg \in Messages
  BY <1>5, <1>6 DEF Types, Sending
<1>15. \A x \in Notified : notify'[x].pc = "push" => notify'[x].to \in DOMAIN gens'
  BY <1>1 DEF Types
<1>16. Len(gens') <= MaxStarts
  BY <1>1, ManagerAssumption DEF Gens
<1>17. \A h \in Gens \ DOMAIN gens' :
         /\ disp'[h].pc \notin {"look", "push"}
         /\ \A c \in Channels : worker'[h][c].pc = "off" /\ queue'[h][c] = <<>>
  <2> TAKE h \in Gens \ DOMAIN gens'
  <2>1. h \in Gens \ DOMAIN gens /\ h # g
    BY <1>1
  <2>2. /\ disp[h].pc \notin {"look", "push"}
        /\ \A c \in Channels : worker[h][c].pc = "off" /\ queue[h][c] = <<>>
    BY <2>1 DEF Types, Holds
  <2> QED BY <1>3, <1>6, <2>1, <2>2
<1>18. \A h \in Gens : (Holds(h)' <=> disp'[h].pc \in {"look", "push"})
  BY DEF Holds
<1>19. \A h \in Gens, c \in Channels : Sending(h, c)' <=> worker'[h][c].pc \in {"limit", "send", "backoff"}
  BY DEF Sending
<1>20. bus' \in Seq(Messages \ Notified)
  BY DEF Types
<1>21. Types'
  BY <1>11, <1>13, <1>14, <1>15, <1>16, <1>17, <1>18, <1>19, <1>20 DEF Types
<1>22. \A c \in Channels : queue'[g][c] = <<>> /\ ~Sending(g, c)'
  BY <1>1, <1>14, <1>19 DEF Types
<1>23. ~Holds(g)'
  BY <1>1, <1>12, <1>18
<1>24. \A h \in DOMAIN gens : disp'[h] = disp[h] /\ worker'[h] = worker[h]
  BY <1>1, <1>3, <1>6
<1> QED BY <1>21, <1>22, <1>23, <1>24

-----------------------------------------------------------------------------
(* Managers, and the callers that replace and stop them.                   *)

\* A step outside reload and shutdown that starts no worker.
LEMMA BaseQuiet ==
  ASSUME Base, Types', UNCHANGED <<closed, registry, callers>>, closed => bus' = <<>>,
         \A g \in DOMAIN gens, c \in Channels : Alive(g, c)' => Alive(g, c)
  PROVE  Base'
<1>1. Registry'
  BY DEF Base, Registry, registry, callers
<1>2. Callings'
  BY DEF Base, Callings, registry, callers
<1>3. Tracked'
  BY DEF Base, Tracked, WaitedFor, registry, callers
<1> QED BY <1>1, <1>2, <1>3 DEF Base

LEMMA CallerChanges ==
  ASSUME Types, NEW p \in Callers, NEW r, caller' = [caller EXCEPT ![p] = r]
  PROVE  caller'[p] = r /\ \A q \in Callers : q # p => caller'[q] = caller[q]
BY DEF Types, TypeOK

LEMMA CallerType ==
  ASSUME Types, NEW p \in Callers
  PROVE  /\ caller[p] \in CallerStates
         /\ caller[p].mgr \in Managers \cup {None}
         /\ "reload" \in Callers /\ "shutdown" \in Callers
         /\ Callers = {"reload", "shutdown"}
         /\ \A m \in Managers : m \in Nat /\ m # None
         /\ current \in Managers /\ used \in Managers
<1>1. Managers \subseteq Nat \ {0}
  BY ManagerAssumption, FS_CardinalityType
<1> QED BY <1>1 DEF Types, TypeOK, Callers, None, CallerStates

\* A step of a caller that leaves the registry of every manager alone.
LEMMA TrackedKept ==
  ASSUME Base, SameGens, UNCHANGED worker, NEW p \in Callers,
         NEW r, caller' = [caller EXCEPT ![p] = r],
         UNCHANGED workers,
         \A g \in DOMAIN gens, c \in Channels :
           caller[p].pc = "wait" /\ <<g, c>> \in caller[p].waits => ~Alive(g, c)
  PROVE  Tracked'
<1>1. caller'[p] = r /\ \A q \in Callers : q # p => caller'[q] = caller[q]
  BY CallerChanges DEF Base
<1>2. ASSUME NEW g \in DOMAIN gens, NEW c \in Channels, Alive(g, c)
      PROVE  workers'[gens'[g].mgr][c] = g
               \/ \E q \in Callers : /\ caller'[q].pc = "wait" /\ <<g, c>> \in caller'[q].waits
                                     /\ caller'[q].mgr = gens'[g].mgr
  <2>1. gens'[g].mgr = gens[g].mgr
    BY DEF SameGens
  <2>2. CASE workers[gens[g].mgr][c] = g
    BY <2>1, <2>2
  <2>3. CASE WaitedFor(g, c)
    <3>1. PICK q \in Callers : /\ caller[q].pc = "wait" /\ <<g, c>> \in caller[q].waits
                               /\ caller[q].mgr = gens[g].mgr
      BY <2>3 DEF WaitedFor
    <3>2. caller'[q] = caller[q]
      BY <1>1, <1>2, <3>1
    <3> QED BY <2>1, <3>1, <3>2
  <2> QED BY <1>2, <2>2, <2>3 DEF Base, Tracked
<1> QED BY <1>2 DEF Tracked, WaitedFor, SameGens, Alive

\* StopAll up to its first unlock: the workers pass from the map to the caller.
LEMMA TrackedCancel ==
  ASSUME Base, SameGens, UNCHANGED worker, NEW p \in Callers, NEW m \in Managers,
         caller[p].pc # "wait",
         workers' = [workers EXCEPT ![m] = NoWorkers],
         caller' = [caller EXCEPT ![p] = [pc |-> "wait", mgr |-> m, waits |-> Waited(m)]]
  PROVE  Tracked'
<1>1. /\ caller'[p] = [pc |-> "wait", mgr |-> m, waits |-> Waited(m)]
      /\ \A q \in Callers : q # p => caller'[q] = caller[q]
  BY CallerChanges DEF Base
<1>2. workers'[m] = NoWorkers /\ \A n \in Managers : n # m => workers'[n] = workers[n]
  BY DEF Base, Types, TypeOK
<1>3. ASSUME NEW g \in DOMAIN gens, NEW c \in Channels, Alive(g, c)
      PROVE  workers'[gens'[g].mgr][c] = g
               \/ \E q \in Callers : /\ caller'[q].pc = "wait" /\ <<g, c>> \in caller'[q].waits
                                     /\ caller'[q].mgr = gens'[g].mgr
  <2>1. gens'[g].mgr = gens[g].mgr /\ gens[g].mgr \in Managers /\ g # None /\ Types
    BY Cell DEF SameGens, Base, Gens, None
  <2>2. CASE workers[gens[g].mgr][c] = g
    <3>1. CASE gens[g].mgr = m
      <4>1. <<g, c>> \in Waited(m)
        BY <2>1, <2>2, <3>1 DEF Waited
      <4> QED BY <1>1, <2>1, <3>1, <4>1
    <3>2. CASE gens[g].mgr # m
      BY <1>2, <2>1, <2>2, <3>2
    <3> QED BY <3>1, <3>2
  <2>3. CASE WaitedFor(g, c)
    <3>1. PICK q \in Callers : /\ caller[q].pc = "wait" /\ <<g, c>> \in caller[q].waits
                               /\ caller[q].mgr = gens[g].mgr
      BY <2>3 DEF WaitedFor
    <3>2. caller'[q] = caller[q]
      BY <1>1, <3>1
    <3> QED BY <2>1, <3>1, <3>2
  <2> QED BY <1>3, <2>2, <2>3 DEF Base, Tracked
<1> QED BY <1>3 DEF Tracked, WaitedFor, SameGens, Alive

\* What StopCancel leaves typed.
LEMMA StopCancelTypes ==
  ASSUME Base, NEW p \in Callers, NEW m \in Managers, StopCancel(p, m),
         UNCHANGED <<bus, closed, published, disp, worker, queue, notify, current,
                     rootDone, sent>>,
         used' \in Managers
  PROVE  Types' /\ SameGens
<1> DEFINE r == [pc |-> "wait", mgr |-> m, waits |-> Waited(m)]
<1>1. r \in CallerStates
  BY WaitedType DEF Base, CallerStates
<1>2. /\ workers' = [workers EXCEPT ![m] = NoWorkers] /\ task' = [task EXCEPT ![m] = None]
      /\ gens' = Cancelled({task[m]}) /\ UNCHANGED platform
      /\ caller' = [caller EXCEPT ![p] = r]
  BY DEF StopCancel
<1>3. /\ task' \in [Managers -> Gens \cup {None}]
      /\ workers' \in [Managers -> [Channels -> Gens \cup {None}]]
      /\ platform' \in [Managers -> [Channels -> BOOLEAN]]
      /\ closed' \in BOOLEAN /\ rootDone' \in BOOLEAN
  BY <1>2 DEF Base, Types, TypeOK, NoWorkers
<1>4. Types
  BY DEF Base
<1>5. \E G : gens' = Cancelled(G)
  BY <1>2
<1> HIDE DEF r
<1> QED BY <1>1, <1>2, <1>3, <1>4, <1>5, TypesCaller

\* reload stops the manager in use: its map is empty from here on.
LEMMA BaseReload ==
  ASSUME Base, Reload
  PROVE  Base' /\ SameGens
<1>1. /\ caller["reload"].pc = "idle" /\ used + 1 \in Managers /\ used' = used + 1
      /\ StopCancel("reload", current)
      /\ UNCHANGED <<bus, closed, published, disp, worker, queue, notify, current,
                     rootDone, sent>>
  BY DEF Reload
<1>2. /\ "reload" \in Callers /\ current \in Managers /\ "shutdown" \in Callers
      /\ \A m \in Managers : m \in Nat /\ m # None
      /\ used \in Managers /\ Callers = {"reload", "shutdown"}
  BY CallerType DEF Base, Callers
<1>3. Types' /\ SameGens
  BY <1>1, <1>2, StopCancelTypes
<1>4. /\ workers' = [workers EXCEPT ![current] = NoWorkers]
      /\ task' = [task EXCEPT ![current] = None]
      /\ caller' = [caller EXCEPT !["reload"] =
                      [pc |-> "wait", mgr |-> current, waits |-> Waited(current)]]
  BY <1>1 DEF StopCancel
<1>5. /\ caller'["reload"] = [pc |-> "wait", mgr |-> current, waits |-> Waited(current)]
      /\ caller'["shutdown"] = caller["shutdown"]
  BY <1>2, <1>4, CallerChanges DEF Base
<1>6. /\ workers'[current] = NoWorkers
      /\ \A m \in Managers : m # current => workers'[m] = workers[m]
      /\ task'[current] = None
      /\ \A m \in Managers : m # current => task'[m] = task[m]
  <2>1. /\ workers \in [Managers -> [Channels -> Gens \cup {None}]]
        /\ task \in [Managers -> Gens \cup {None}]
    BY DEF Base, Types, TypeOK
  <2> QED BY <1>2, <1>4, <2>1
<1>7. current <= used /\ used \in Nat /\ current \in Nat /\ caller["shutdown"].mgr \in Nat
      /\ caller["shutdown"].mgr <= used
      /\ \A g \in DOMAIN gens : gens[g].mgr <= used /\ gens[g].mgr \in Nat
  <2>1. \A g \in DOMAIN gens : gens[g].mgr \in Managers
    BY Cell DEF Base
  <2>2. caller["shutdown"].mgr \in Managers \cup {None}
    BY CallerType DEF Base, Callers
  <2>3. /\ current <= used /\ caller["shutdown"].mgr <= used
        /\ \A g \in DOMAIN gens : gens[g].mgr <= used
    BY DEF Base, Registry, Callings
  <2> QED BY <1>2, <2>1, <2>2, <2>3 DEF None
<1>8. Registry'
  <2>1. \A m \in Managers, c \in Channels : workers'[m][c] # None =>
          m # current /\ workers[m][c] # None
    BY <1>6 DEF NoWorkers
  <2>2. \A m \in Managers, c \in Channels : workers'[m][c] = None
    BY <2>1 DEF Base, Registry
  <2>3. \A m \in Managers : task'[m] # None => task'[m] \in DOMAIN gens'
    BY <1>3, <1>6 DEF Base, Registry, SameGens
  <2>4. \A g \in DOMAIN gens' : gens'[g].mgr <= used' /\ gens'[g].mgr # used'
    BY <1>1, <1>3, <1>7 DEF SameGens
  <2>5. current' <= used'
    BY <1>1, <1>7
  <2> QED BY <2>2, <2>3, <2>4, <2>5 DEF Registry
<1>9. Callings'
  <2>1. Waited(current) \subseteq (DOMAIN gens) \X Channels
    BY <1>2, WaitedType DEF Base
  <2>2. /\ used' # current' /\ used' # caller'["shutdown"].mgr
        /\ caller'["shutdown"].mgr <= used'
    BY <1>1, <1>5, <1>7
  <2>3. \A p \in Callers : caller'[p].pc \in {"wait", "close"} => caller'[p].mgr \in Managers
    BY <1>2, <1>5 DEF Base, Callings
  <2>4. \A p \in Callers : caller'[p].waits \subseteq (DOMAIN gens') \X Channels
    BY <1>2, <1>3, <1>5, <2>1 DEF Base, Callings, SameGens
  <2>5. DOMAIN gens' = DOMAIN gens
    BY <1>3 DEF SameGens
  <2> QED BY <1>1, <1>5, <1>6, <2>2, <2>3, <2>4 DEF Base, Callings
<1>10. Tracked'
  BY <1>1, <1>2, <1>3, <1>4, TrackedCancel
<1> QED BY <1>3, <1>8, <1>9, <1>10 DEF Base

\* shutdownGateway stops the manager in use, emptied or not.
LEMMA BaseShutdownStop ==
  ASSUME Base, ShutdownStop
  PROVE  Base' /\ SameGens
<1>1. /\ caller["shutdown"].pc = "stop" /\ StopCancel("shutdown", current)
      /\ UNCHANGED <<bus, closed, published, disp, worker, queue, notify, current,
                     used, rootDone, sent>>
  BY DEF ShutdownStop
<1>2. /\ "reload" \in Callers /\ current \in Managers /\ "shutdown" \in Callers
      /\ used \in Managers /\ Callers = {"reload", "shutdown"}
  BY CallerType DEF Base, Callers
<1>3. Types' /\ SameGens
  BY <1>1, <1>2, StopCancelTypes
<1>4. /\ workers' = [workers EXCEPT ![current] = NoWorkers]
      /\ task' = [task EXCEPT ![current] = None]
      /\ caller' = [caller EXCEPT !["shutdown"] =
                      [pc |-> "wait", mgr |-> current, waits |-> Waited(current)]]
  BY <1>1 DEF StopCancel
<1>5. /\ caller'["shutdown"] = [pc |-> "wait", mgr |-> current, waits |-> Waited(current)]
      /\ caller'["reload"] = caller["reload"]
  BY <1>2, <1>4, CallerChanges DEF Base
<1>6. /\ workers'[current] = NoWorkers
      /\ \A m \in Managers : m # current => workers'[m] = workers[m]
      /\ task'[current] = None
      /\ \A m \in Managers : m # current => task'[m] = task[m]
  <2>1. /\ workers \in [Managers -> [Channels -> Gens \cup {None}]]
        /\ task \in [Managers -> Gens \cup {None}]
    BY DEF Base, Types, TypeOK
  <2> QED BY <1>2, <1>4, <2>1
<1>8. Registry'
  <2>1. \A m \in Managers, c \in Channels : workers'[m][c] # None =>
          m # current /\ workers[m][c] # None
    BY <1>6 DEF NoWorkers
  <2>2. \A m \in Managers, c \in Channels : workers'[m][c] = None
    BY <2>1 DEF Base, Registry
  <2>3. \A m \in Managers : task'[m] # None => task'[m] \in DOMAIN gens'
    BY <1>3, <1>6 DEF Base, Registry, SameGens
  <2>4. \A g \in DOMAIN gens' : gens'[g].mgr <= used' /\ (used' # current' => gens'[g].mgr # used')
    BY <1>1, <1>3 DEF SameGens, Base, Registry
  <2>5. current' <= used'
    BY <1>1 DEF Base, Registry
  <2> QED BY <2>2, <2>3, <2>4, <2>5 DEF Registry
<1>9. Callings'
  <2>1. Waited(current) \subseteq (DOMAIN gens) \X Channels
    BY <1>2, WaitedType DEF Base
  <2>2. \A p \in Callers : caller'[p].pc \in {"wait", "close"} => caller'[p].mgr \in Managers
    BY <1>2, <1>5 DEF Base, Callings
  <2>3. \A p \in Callers : caller'[p].waits \subseteq (DOMAIN gens') \X Channels
    BY <1>2, <1>3, <1>5, <2>1 DEF Base, Callings, SameGens
  <2>4. current <= used
    BY DEF Base, Registry
  <2> QED BY <1>1, <1>5, <1>6, <2>2, <2>3, <2>4 DEF Base, Callings
<1>10. Tracked'
  BY <1>1, <1>2, <1>3, <1>4, TrackedCancel
<1> QED BY <1>3, <1>8, <1>9, <1>10 DEF Base

MovesTo(p, v) == caller' = [caller EXCEPT ![p].pc = v]

LEMMA CallerMoves ==
  ASSUME Types, NEW p \in Callers,
         NEW v \in {"idle", "bus", "stop", "wait", "close", "start", "restore", "return", "done"},
         MovesTo(p, v), NEW r, r = caller'[p]
  PROVE  /\ caller' = [caller EXCEPT ![p] = r]
         /\ r \in CallerStates
         /\ r.pc = v /\ r.mgr = caller[p].mgr /\ r.waits = caller[p].waits
         /\ \A q \in Callers : q # p => caller'[q] = caller[q]
<1>1. caller' = [caller EXCEPT ![p] = [caller[p] EXCEPT !.pc = v]]
  BY DEF MovesTo
<1>2. PICK t : t = [caller[p] EXCEPT !.pc = v]
  OBVIOUS
<1>3. r = t /\ caller' = [caller EXCEPT ![p] = t] /\ \A q \in Callers : q # p => caller'[q] = caller[q]
  BY <1>1, <1>2, CallerChanges
<1>4. caller[p] \in CallerStates
  BY CallerType
<1>5. /\ t \in CallerStates
      /\ t.pc = v /\ t.mgr = caller[p].mgr /\ t.waits = caller[p].waits
  BY <1>2, <1>4 DEF CallerStates
<1> QED BY <1>3, <1>5

LEMMA TypesUnmoved ==
  ASSUME Types
  PROVE  /\ closed \in BOOLEAN /\ rootDone \in BOOLEAN /\ used \in Managers
         /\ task \in [Managers -> Gens \cup {None}]
         /\ workers \in [Managers -> [Channels -> Gens \cup {None}]]
         /\ platform \in [Managers -> [Channels -> BOOLEAN]]
BY DEF Types, TypeOK

\* The steps that only move a caller on, and cancel generations.
LEMMA BaseMoves ==
  ASSUME Base, NEW p \in Callers,
         NEW v \in {"idle", "bus", "stop", "wait", "close", "start", "restore", "return", "done"},
         MovesTo(p, v), v # "wait",
         caller[p].pc = "wait" => \A w \in caller[p].waits : worker[w[1]][w[2]].pc = "exit",
         bus' = bus \/ bus' = <<>>, closed' \in BOOLEAN, rootDone' \in BOOLEAN,
         UNCHANGED <<published, disp, worker, queue, notify, current, sent, task, workers,
                     platform, used>>,
         gens' = gens \/ (\E G : gens' = Cancelled(G)),
         Callings'
  PROVE  Base' /\ SameGens
<1>0. PICK r : r = caller'[p]
  OBVIOUS
<1>1. /\ caller' = [caller EXCEPT ![p] = r]
      /\ r \in CallerStates
      /\ r.pc = v /\ r.mgr = caller[p].mgr /\ r.waits = caller[p].waits
  BY <1>0, CallerMoves DEF Base
<1>2. Types' /\ SameGens
  BY <1>1, TypesCaller, TypesUnmoved DEF Base
<1>3. Registry'
  BY <1>2 DEF Base, Registry, SameGens
<1>4. Tracked'
  <2>1. \A g \in DOMAIN gens, c \in Channels :
          caller[p].pc = "wait" /\ <<g, c>> \in caller[p].waits => ~Alive(g, c)
    <3> TAKE g \in DOMAIN gens, c \in Channels
    <3>1. PICK w : w = <<g, c>>
      OBVIOUS
    <3>2. w[1] = g /\ w[2] = c
      BY <3>1
    <3>3. caller[p].pc = "wait" /\ w \in caller[p].waits => worker[g][c].pc = "exit"
      BY <3>2
    <3> QED BY <3>1, <3>3 DEF Alive
  <2> QED BY <1>1, <1>2, <2>1, TrackedKept
<1> QED BY <1>2, <1>3, <1>4 DEF Base

\* waitForChannelWorkers ends: no worker it waited for runs.
LEMMA BaseWaitEnds ==
  ASSUME Base, NEW p \in Callers, StopWait(p)
  PROVE  Base' /\ SameGens
<1>1. /\ caller[p].pc = "wait" /\ MovesTo(p, "close")
      /\ \A w \in caller[p].waits : worker[w[1]][w[2]].pc = "exit"
      /\ UNCHANGED <<bus, closed, published, gens, workers, task, platform, disp, worker, queue,
                     notify, current, used, rootDone, sent>>
  BY DEF StopWait, registry, MovesTo
<1>2. /\ caller'[p].pc = "close" /\ caller'[p].mgr = caller[p].mgr
      /\ caller'[p].waits = caller[p].waits
      /\ \A q \in Callers : q # p => caller'[q] = caller[q]
  <2>1. PICK r : r = caller'[p]
    OBVIOUS
  <2>2. PICK v : v = "close"
    OBVIOUS
  <2> QED BY <1>1, <2>1, <2>2, CallerMoves DEF Base
<1>3. Callings'
  <2>1. \A q \in Callers : caller'[q].mgr = caller[q].mgr /\ caller'[q].waits = caller[q].waits
                           /\ (q # p => caller'[q].pc = caller[q].pc)
    BY <1>2
  <2>2. "reload" \in Callers /\ "shutdown" \in Callers /\ Callers = {"reload", "shutdown"}
    BY DEF Callers
  <2>3. CASE p = "reload"
    BY <1>1, <1>2, <2>1, <2>2, <2>3 DEF Base, Callings
  <2>4. CASE p = "shutdown"
    BY <1>1, <1>2, <2>1, <2>2, <2>4 DEF Base, Callings
  <2> QED BY <2>2, <2>3, <2>4
<1>4. closed' \in BOOLEAN /\ rootDone' \in BOOLEAN
  BY <1>1, TypesUnmoved DEF Base
<1> QED BY <1>1, <1>3, <1>4, BaseMoves

LEMMA BaseReloadFail ==
  ASSUME Base, ReloadFail
  PROVE  Base' /\ SameGens
<1>1. /\ caller["reload"].pc = "start" /\ MovesTo("reload", "restore")
      /\ UNCHANGED <<bus, closed, published, gens, workers, task, platform, disp, worker, queue,
                     notify, current, used, rootDone, sent>>
  BY DEF ReloadFail, registry, MovesTo
<1>2. "reload" \in Callers /\ "shutdown" \in Callers /\ Callers = {"reload", "shutdown"}
  BY DEF Callers
<1>3. /\ caller'["reload"].pc = "restore" /\ caller'["reload"].mgr = caller["reload"].mgr
      /\ caller'["reload"].waits = caller["reload"].waits
      /\ caller'["shutdown"] = caller["shutdown"]
  <2>1. PICK r : r = caller'["reload"]
    OBVIOUS
  <2>2. PICK v : v = "restore"
    OBVIOUS
  <2>3. caller["reload"].pc # v /\ "reload" # "shutdown"
    BY <1>1, <2>2
  <2> QED BY <1>1, <1>2, <2>1, <2>2, <2>3, CallerMoves DEF Base
<1>4. Callings'
  BY <1>1, <1>2, <1>3 DEF Base, Callings
<1>5. closed' \in BOOLEAN /\ rootDone' \in BOOLEAN
  BY <1>1, TypesUnmoved DEF Base
<1> QED BY <1>1, <1>2, <1>4, <1>5, BaseMoves

LEMMA BaseRestoreReturn ==
  ASSUME Base, RestoreReturn
  PROVE  Base' /\ SameGens
<1>1. /\ caller["reload"].pc = "return" /\ MovesTo("reload", "idle")
      /\ UNCHANGED <<bus, closed, published, workers, task, platform, disp, worker, queue,
                     notify, current, used, rootDone, sent>>
      /\ \E G : gens' = Cancelled(G)
  BY DEF RestoreReturn, MovesTo
<1>2. "reload" \in Callers /\ "shutdown" \in Callers /\ Callers = {"reload", "shutdown"}
  BY DEF Callers
<1>3. /\ caller'["reload"].pc = "idle" /\ caller'["reload"].mgr = caller["reload"].mgr
      /\ caller'["reload"].waits = caller["reload"].waits
      /\ caller'["shutdown"] = caller["shutdown"]
  <2>1. PICK r : r = caller'["reload"]
    OBVIOUS
  <2>2. PICK v : v = "idle"
    OBVIOUS
  <2>3. caller["reload"].pc # v /\ "reload" # "shutdown"
    BY <1>1, <2>2
  <2> QED BY <1>1, <1>2, <2>1, <2>2, <2>3, CallerMoves DEF Base
<1>4. DOMAIN gens' = DOMAIN gens
  BY <1>1, CancelKeeps DEF Base, SameGens
<1>5. Callings'
  BY <1>1, <1>2, <1>3, <1>4 DEF Base, Callings
<1>6. closed' \in BOOLEAN /\ rootDone' \in BOOLEAN
  BY <1>1, TypesUnmoved DEF Base
<1> QED BY <1>1, <1>2, <1>5, <1>6, BaseMoves

LEMMA BaseShutdownCancel ==
  ASSUME Base, ShutdownCancel
  PROVE  Base' /\ SameGens
<1>1. /\ caller["shutdown"].pc = "idle" /\ MovesTo("shutdown", "bus")
      /\ rootDone' = TRUE
      /\ UNCHANGED <<bus, closed, published, workers, task, platform, disp, worker, queue,
                     notify, current, used, sent>>
      /\ \E G : gens' = Cancelled(G)
  BY DEF ShutdownCancel, MovesTo
<1>2. "reload" \in Callers /\ "shutdown" \in Callers /\ Callers = {"reload", "shutdown"}
  BY DEF Callers
<1>3. /\ caller'["shutdown"].pc = "bus" /\ caller'["shutdown"].mgr = caller["shutdown"].mgr
      /\ caller'["shutdown"].waits = caller["shutdown"].waits
      /\ caller'["reload"] = caller["reload"]
  <2>1. PICK r : r = caller'["shutdown"]
    OBVIOUS
  <2>2. PICK v : v = "bus"
    OBVIOUS
  <2>3. caller["shutdown"].pc # v /\ "shutdown" # "reload"
    BY <1>1, <2>2
  <2> QED BY <1>1, <1>2, <2>1, <2>2, <2>3, CallerMoves DEF Base
<1>4. DOMAIN gens' = DOMAIN gens
  BY <1>1, CancelKeeps DEF Base, SameGens
<1>5. Callings'
  BY <1>1, <1>2, <1>3, <1>4 DEF Base, Callings
<1>6. closed' \in BOOLEAN /\ rootDone' \in BOOLEAN
  BY <1>1, TypesUnmoved DEF Base
<1> QED BY <1>1, <1>2, <1>5, <1>6, BaseMoves

LEMMA BaseShutdownBus ==
  ASSUME Base, ShutdownBus
  PROVE  Base' /\ SameGens
<1>1. /\ caller["shutdown"].pc = "bus" /\ MovesTo("shutdown", "stop")
      /\ closed' = TRUE /\ bus' = <<>>
      /\ UNCHANGED <<published, gens, workers, task, platform, disp, worker, queue,
                     notify, current, used, rootDone, sent>>
  BY DEF ShutdownBus, registry, MovesTo
<1>2. "reload" \in Callers /\ "shutdown" \in Callers /\ Callers = {"reload", "shutdown"}
  BY DEF Callers
<1>3. /\ caller'["shutdown"].pc = "stop" /\ caller'["shutdown"].mgr = caller["shutdown"].mgr
      /\ caller'["shutdown"].waits = caller["shutdown"].waits
      /\ caller'["reload"] = caller["reload"]
  <2>1. PICK r : r = caller'["shutdown"]
    OBVIOUS
  <2>2. PICK v : v = "stop"
    OBVIOUS
  <2>3. caller["shutdown"].pc # v /\ "shutdown" # "reload"
    BY <1>1, <2>2
  <2> QED BY <1>1, <1>2, <2>1, <2>2, <2>3, CallerMoves DEF Base
<1>4. Callings'
  BY <1>1, <1>2, <1>3 DEF Base, Callings
<1>5. closed' \in BOOLEAN /\ rootDone' \in BOOLEAN
  BY <1>1, TypesUnmoved DEF Base
<1> QED BY <1>1, <1>2, <1>4, <1>5, BaseMoves

\* The second half of StopAll.
LEMMA BaseStopChannels ==
  ASSUME Base, NEW p \in Callers, StopChannels(p)
  PROVE  Base' /\ SameGens
<1> DEFINE v == IF p = "reload" THEN "start" ELSE "done"
<1>1. PICK r : r = [pc |-> v, mgr |-> caller[p].mgr, waits |-> {}]
  OBVIOUS
<1>2. /\ caller[p].pc = "close" /\ caller' = [caller EXCEPT ![p] = r]
      /\ platform' = [platform EXCEPT ![caller[p].mgr] = [c \in Channels |-> FALSE]]
      /\ UNCHANGED <<bus, closed, published, gens, workers, task, disp, worker, queue,
                     notify, current, used, rootDone, sent>>
  BY <1>1 DEF StopChannels
<1>3. r \in CallerStates /\ r.pc = v /\ r.mgr = caller[p].mgr /\ r.waits = {}
  <2>1. caller[p].mgr \in Managers \cup {None}
    BY CallerType DEF Base
  <2> QED BY <1>1, <2>1 DEF CallerStates
<1>4. platform' \in [Managers -> [Channels -> BOOLEAN]]
  BY <1>2, TypesUnmoved DEF Base
<1>5. Types' /\ SameGens
  BY <1>2, <1>3, <1>4, TypesCaller, TypesUnmoved DEF Base
<1>6. caller'[p] = r /\ \A q \in Callers : q # p => caller'[q] = caller[q]
  BY <1>2, CallerChanges DEF Base
<1>7. Callings'
  <2>1. "reload" \in Callers /\ "shutdown" \in Callers /\ Callers = {"reload", "shutdown"}
    BY DEF Callers
  <2>2. CASE p = "reload"
    BY <1>2, <1>3, <1>6, <2>1, <2>2 DEF Base, Callings
  <2>3. CASE p = "shutdown"
    BY <1>2, <1>3, <1>6, <2>1, <2>3 DEF Base, Callings
  <2> QED BY <2>1, <2>2, <2>3
<1>8. Registry'
  BY <1>2 DEF Base, Registry
<1>9. Tracked'
  <2>1. \A g \in DOMAIN gens, c \in Channels :
          caller[p].pc = "wait" /\ <<g, c>> \in caller[p].waits => ~Alive(g, c)
    BY <1>2
  <2> QED BY <1>2, <1>5, <2>1, TrackedKept
<1> QED BY <1>5, <1>7, <1>8, <1>9 DEF Base

\* The candidate starts, or its predecessor again: no worker of the old manager
\* is in its map, so those still alive are waited for by the shutdown.
LEMMA BaseStart ==
  ASSUME Base, NEW m \in Managers, NEW parent \in {"root", "restore"},
         NEW ok \in SUBSET Channels, Start(m, parent, ok), NEW g, g = Len(gens) + 1,
         NEW v \in {"idle", "return"}, MovesTo("reload", v),
         caller["reload"].pc \in {"start", "restore"},
         UNCHANGED <<bus, closed, published, queue, notify, used, rootDone, sent>>,
         \/ m = used /\ current' = used /\ v = "idle"
         \/ m = current /\ current' = current /\ v = "return"
  PROVE  /\ Base' /\ used # current
         /\ \A h \in DOMAIN gens, c \in Channels :
              Alive(h, c) => caller["shutdown"].pc = "wait" /\ closed
<1>1. /\ Types /\ "reload" \in Callers /\ "shutdown" \in Callers
      /\ Callers = {"reload", "shutdown"}
      /\ current \in Managers /\ used \in Managers
      /\ v \in {"idle", "bus", "stop", "wait", "close", "start", "restore", "return", "done"}
      /\ v # "wait"
  BY CallerType DEF Base, Callers
<1>2. PICK r : r = caller'["reload"]
  OBVIOUS
<1>3. /\ caller' = [caller EXCEPT !["reload"] = r] /\ r \in CallerStates
      /\ r.pc = v /\ r.mgr = caller["reload"].mgr /\ r.waits = caller["reload"].waits
      /\ caller'["shutdown"] = caller["shutdown"]
  BY <1>1, <1>2, CallerMoves
<1>4. Types' /\ \A h \in DOMAIN gens : worker'[h] = worker[h]
  BY <1>1, <1>3, TypesStart
<1>5. /\ g \in Gens /\ g \notin DOMAIN gens /\ DOMAIN gens' = DOMAIN gens \cup {g}
      /\ gens'[g].mgr = m /\ \A h \in DOMAIN gens : gens'[h] = gens[h] /\ h \in Gens
  BY <1>1, StartKeeps
<1>6. /\ workers' = [workers EXCEPT ![m] = [c \in Channels |-> IF c \in ok THEN g ELSE @[c]]]
      /\ task' = [task EXCEPT ![m] = g]
      /\ worker' = [worker EXCEPT ![g] =
                      [c \in Channels |-> IF c \in ok THEN Idle ELSE NoWorker]]
  BY DEF Start
<1>7. /\ used # current /\ workers[current] = NoWorkers
      /\ \A n \in Managers, c \in Channels : workers[n][c] = None
      /\ current <= used /\ used <= used
      /\ \A h \in DOMAIN gens : gens[h].mgr <= used /\ gens[h].mgr # used
  <2>1. used # current /\ workers[current] = NoWorkers
    BY DEF Base, Callings
  <2>2. used \in Nat
    BY <1>1, CallerType
  <2> QED BY <2>1, <2>2 DEF Base, Registry, NoWorkers
<1>8. \A n \in Managers, c \in Channels :
        /\ workers'[n][c] # None => n = m /\ workers'[n][c] = g
        /\ c \in ok => workers'[m][c] = g
  BY <1>1, <1>6, <1>7 DEF Types, TypeOK
<1>9. Registry'
  <2>1. \A n \in Managers : task'[n] # None => task'[n] \in DOMAIN gens'
    BY <1>1, <1>5, <1>6 DEF Types, TypeOK, Base, Registry
  <2>2. \A h \in DOMAIN gens' : gens'[h].mgr <= used'
    BY <1>5, <1>7
  <2>3. used' # current' => \A h \in DOMAIN gens' : gens'[h].mgr # used'
    BY <1>5, <1>7
  <2>4. current' <= used'
    BY <1>7
  <2>5. \A n \in Managers, c \in Channels : workers'[n][c] # None =>
          /\ workers'[n][c] \in DOMAIN gens' /\ gens'[workers'[n][c]].mgr = n
          /\ n = current'
    BY <1>5, <1>8
  <2> QED BY <2>1, <2>2, <2>3, <2>4, <2>5 DEF Registry
<1>10. Callings'
  <2>1. \A p \in Callers : caller'[p].waits \subseteq (DOMAIN gens') \X Channels
    <3>1. \A p \in Callers : caller'[p].waits = caller[p].waits
      BY <1>1, <1>2, <1>3
    <3> QED BY <1>5, <3>1 DEF Base, Callings
  <2>2. \A p \in Callers : caller'[p].pc \in {"wait", "close"} => caller'[p].mgr \in Managers
    BY <1>1, <1>2, <1>3 DEF Base, Callings
  <2> QED BY <1>1, <1>2, <1>3, <1>7, <2>1, <2>2 DEF Base, Callings
<1>11. \A h \in DOMAIN gens, c \in Channels :
         Alive(h, c) => /\ caller["shutdown"].pc = "wait" /\ closed
                        /\ <<h, c>> \in caller["shutdown"].waits
                        /\ caller["shutdown"].mgr = gens[h].mgr
  <2> TAKE h \in DOMAIN gens, c \in Channels
  <2>1. gens[h].mgr \in Managers /\ h # None
    BY <1>1, Cell DEF Gens, None
  <2>2. workers[gens[h].mgr][c] # h
    BY <1>7, <2>1
  <2>3. Alive(h, c) => WaitedFor(h, c)
    BY <2>2 DEF Base, Tracked
  <2> QED BY <1>1, <2>3 DEF WaitedFor, Base, Callings
<1>12. Tracked'
  <2> SUFFICES ASSUME NEW h \in DOMAIN gens', NEW c \in Channels, Alive(h, c)'
               PROVE  workers'[gens'[h].mgr][c] = h \/ WaitedFor(h, c)'
    BY DEF Tracked
  <2>1. CASE h = g
    <3>1. worker'[g][c] = IF c \in ok THEN Idle ELSE NoWorker
      <4>1. worker \in [Gens -> [Channels -> WorkerStates]]
        BY <1>1 DEF Types, TypeOK, WorkerStates
      <4> HIDE DEF WorkerStates
      <4> QED BY <1>5, <1>6, <4>1
    <3>2. c \in ok
      BY <2>1, <3>1 DEF Alive, NoWorker
    <3> QED BY <1>5, <1>8, <2>1, <3>2
  <2>2. CASE h # g
    <3>1. h \in DOMAIN gens /\ gens'[h] = gens[h] /\ worker'[h] = worker[h]
      BY <1>4, <1>5, <2>2
    <3>2. Alive(h, c)
      BY <3>1 DEF Alive
    <3>3. /\ caller'["shutdown"].pc = "wait" /\ <<h, c>> \in caller'["shutdown"].waits
          /\ caller'["shutdown"].mgr = gens'[h].mgr
      BY <1>3, <1>11, <3>1, <3>2
    <3> QED BY <1>1, <3>3 DEF WaitedFor
  <2> QED BY <2>1, <2>2
<1> QED BY <1>4, <1>7, <1>9, <1>10, <1>11, <1>12 DEF Base

\* The next attempt at a piece, or a later piece.
GoesOn(v, w) == /\ v \in WorkerStates /\ w \in WorkerStates
                /\ w.chunk > v.chunk \/ (w.chunk = v.chunk /\ Attempt(w) >= Attempt(v))

\* What the steps of a worker do to its state.
LEMMA WorkerCell ==
  ASSUME Types, NEW g \in DOMAIN gens, NEW c \in Channels, NEW w, StepTo(g, c, w)
  PROVE  /\ worker'[g][c] = w /\ Alive(g, c)
         /\ \A h \in DOMAIN gens, d \in Channels :
              /\ <<h, d>> # <<g, c>> => worker'[h][d] = worker[h][d]
              /\ Alive(h, d)' => Alive(h, d)
              /\ Sending(h, d)' => /\ Sending(h, d) /\ worker'[h][d].msg = worker[h][d].msg
                                   /\ GoesOn(worker[h][d], worker'[h][d])
                                   /\ worker[h][d].msg \in Messages
<1>1. worker \in [Gens -> [Channels -> WorkerStates]] /\ g \in Gens
  BY Cell DEF Types, TypeOK, WorkerStates
<1>2. w \in WorkerStates /\ worker' = [worker EXCEPT ![g][c] = w] /\ Alive(g, c)
  BY DEF StepTo
<1>3. /\ worker'[g][c] = w
      /\ \A h \in Gens, d \in Channels : <<h, d>> # <<g, c>> => worker'[h][d] = worker[h][d]
  BY <1>1, <1>2, WorkerChanges
<1>4. \A h \in DOMAIN gens : h \in Gens
  BY Cell
<1>5. \A h \in DOMAIN gens, d \in Channels : Alive(h, d)' => Alive(h, d)
  <2> TAKE h \in DOMAIN gens, d \in Channels
  <2>1. CASE <<h, d>> = <<g, c>>
    BY <1>2, <2>1
  <2>2. CASE <<h, d>> # <<g, c>>
    BY <1>3, <1>4, <2>2 DEF Alive
  <2> QED BY <2>1, <2>2
<1>6. \A h \in DOMAIN gens, d \in Channels :
        /\ GoesOn(worker[h][d], worker[h][d])
        /\ Sending(h, d) => worker[h][d].msg \in Messages
  <2> TAKE h \in DOMAIN gens, d \in Channels
  <2>1. worker[h][d] \in WorkerStates
    BY <1>1, <1>4
  <2>2. Attempt(worker[h][d]) \in 0 .. MaxRetries + 1 /\ MaxRetries \in Nat
    BY <2>1, AttemptType, ManagerAssumption
  <2> QED BY <1>4, <2>1, <2>2 DEF GoesOn, Types
<1>7. \A h \in DOMAIN gens, d \in Channels :
        Sending(h, d)' => /\ Sending(h, d) /\ worker'[h][d].msg = worker[h][d].msg
                          /\ GoesOn(worker[h][d], worker'[h][d])
  <2> TAKE h \in DOMAIN gens, d \in Channels
  <2>1. CASE <<h, d>> = <<g, c>>
    BY <1>1, <1>3, <2>1 DEF StepTo, Sending, GoesOn
  <2>2. CASE <<h, d>> # <<g, c>>
    BY <1>3, <1>4, <1>6, <2>2 DEF Sending
  <2> QED BY <2>1, <2>2
<1> QED BY <1>2, <1>3, <1>4, <1>5, <1>6, <1>7

\* A worker takes the head of its queue.
LEMMA TakeCell ==
  ASSUME Types, NEW g \in DOMAIN gens, NEW c \in Channels, Take(g, c)
  PROVE  LET q == queue[g][c]
         IN /\ worker[g][c].pc = "idle" /\ worker'[g][c].pc = "limit"
            /\ worker'[g][c].msg = q[1] /\ worker'[g][c].chunk = 1
            /\ queue'[g][c] = Tail(q) /\ q \in Seq(Messages) /\ q # <<>>
            /\ \A h \in DOMAIN gens, d \in Channels :
                 <<h, d>> # <<g, c>> =>
                   worker'[h][d] = worker[h][d] /\ queue'[h][d] = queue[h][d]
<1> DEFINE q == queue[g][c]
           w == [pc |-> "limit", msg |-> Head(q), chunk |-> 1, attempt |-> 0]
<1>1. /\ worker \in [Gens -> [Channels -> WorkerStates]] /\ g \in Gens /\ 0 \in 0 .. MaxRetries
      /\ queue \in [Gens -> [Channels -> Seq(Messages)]] /\ q \in Seq(Messages)
      /\ \A h \in DOMAIN gens : h \in Gens
  <2>1. \A h \in DOMAIN gens : h \in Gens
    BY Cell
  <2>2. worker \in [Gens -> [Channels -> WorkerStates]]
    BY DEF Types, TypeOK, WorkerStates
  <2>3. queue \in [Gens -> [Channels -> Seq(Messages)]]
    BY DEF Types, TypeOK
  <2>4. 0 \in 0 .. MaxRetries
    BY ManagerAssumption
  <2> QED BY <2>1, <2>2, <2>3, <2>4
<1>2. /\ worker[g][c].pc = "idle" /\ q # <<>>
      /\ queue' = [queue EXCEPT ![g][c] = Tail(q)] /\ worker' = [worker EXCEPT ![g][c] = w]
  BY DEF Take
<1>3. Head(q) = q[1] /\ Head(q) \in Messages /\ Tail(q) \in Seq(Messages)
  BY <1>1, <1>2
<1>4. w \in WorkerStates /\ w.pc = "limit" /\ w.msg = q[1] /\ w.chunk = 1
  BY <1>1, <1>3 DEF WorkerStates
<1> HIDE DEF w
<1>5. /\ worker'[g][c] = w
      /\ \A h \in Gens, d \in Channels : <<h, d>> # <<g, c>> => worker'[h][d] = worker[h][d]
  BY <1>1, <1>2, <1>4, WorkerChanges
<1>6. /\ queue'[g][c] = Tail(q)
      /\ \A h \in Gens, d \in Channels : <<h, d>> # <<g, c>> => queue'[h][d] = queue[h][d]
  BY <1>1, <1>2, <1>3, QueueChanges
<1> QED BY <1>1, <1>2, <1>4, <1>5, <1>6

LEMMA BaseWorker ==
  ASSUME Base, NEW g \in DOMAIN gens, NEW c \in Channels, Worker(g, c)
  PROVE  Base'
<1>1. Types' /\ Types
  BY TypesWorker DEF Base
<1>2. UNCHANGED Others /\ (closed => bus' = <<>>)
  BY DEF Worker, Take, WorkerExit, Admit, Deliver, SendFails, BackoffEnds, Others, Base, Callings
<1>3. CASE Take(g, c)
  <2>1. \A h \in DOMAIN gens, d \in Channels : Alive(h, d)' => Alive(h, d)
    <3> TAKE h \in DOMAIN gens, d \in Channels
    <3>1. CASE <<h, d>> = <<g, c>>
      BY <1>1, <1>3, <3>1, TakeCell DEF Alive
    <3>2. CASE <<h, d>> # <<g, c>>
      BY <1>1, <1>3, <3>2, TakeCell DEF Alive
    <3> QED BY <3>1, <3>2
  <2> QED BY <1>1, <1>2, <2>1, BaseQuiet DEF Others
<1>4. CASE WorkerExit(g, c) \/ Admit(g, c) \/ SendFails(g, c) \/ BackoffEnds(g, c) \/ Deliver(g, c)
  <2>2. PICK w \in WorkerStates : StepTo(g, c, w)
    BY <1>1, <1>4, WorkStep
  <2>3. \A h \in DOMAIN gens, d \in Channels : Alive(h, d)' => Alive(h, d)
    BY <1>1, <2>2, WorkerCell
  <2> QED BY <1>1, <1>2, <2>3, BaseQuiet DEF Others
<1> QED BY <1>3, <1>4 DEF Worker

LEMMA BaseDispatcher ==
  ASSUME Base, NEW g \in DOMAIN gens, Dispatcher(g)
  PROVE  Base'
<1>1. Types'
  BY TypesDispatcher DEF Base
<1>2. UNCHANGED <<closed, registry, callers, worker>> /\ (closed => bus' = <<>>)
  BY DEF Dispatcher, Receive, DispatchExit, Look, Push, Base, Callings
<1>3. \A h \in DOMAIN gens, d \in Channels : Alive(h, d)' => Alive(h, d)
  BY <1>2 DEF Alive
<1> QED BY <1>1, <1>2, <1>3, BaseQuiet

LEMMA BaseProducer ==
  ASSUME Base, NEW x \in Messages, Publish(x) \/ NotifyLook(x) \/ NotifyPush(x)
  PROVE  Base'
<1>1. Types'
  BY TypesProducer DEF Base
<1>2. UNCHANGED <<closed, registry, callers, worker>> /\ (closed => bus' = <<>>)
  BY DEF Publish, NotifyLook, NotifyPush, Base, Callings
<1>3. \A h \in DOMAIN gens, d \in Channels : Alive(h, d)' => Alive(h, d)
  BY <1>2 DEF Alive
<1> QED BY <1>1, <1>2, <1>3, BaseQuiet

-----------------------------------------------------------------------------
(* The order of delivery.                                                  *)

\* Messages are numbers, and so are their pieces.
LEMMA Numbers ==
  ASSUME Types
  PROVE  /\ Messages \subseteq Nat \ {None}
         /\ \A c \in Channels : sent[c] \in SentStates
         /\ \A i \in DOMAIN bus : i \in Nat /\ bus[i] \in Messages /\ Plain(bus[i])
         /\ \A g \in DOMAIN gens, c \in Channels : \A i \in DOMAIN queue[g][c] :
              i \in Nat /\ queue[g][c][i] \in Messages
         /\ \A g \in DOMAIN gens : Holds(g) => disp[g].msg \in Messages /\ Plain(disp[g].msg)
         /\ \A g \in DOMAIN gens, c \in Channels : Sending(g, c) =>
              worker[g][c].msg \in Messages /\ worker[g][c].chunk \in Nat
         /\ \A g \in DOMAIN gens : g \in Nat /\ g \in Gens
<1>1. Messages \subseteq Nat \ {None}
  BY ManagerAssumption DEF None
<1>2. \A c \in Channels : sent[c] \in SentStates
  BY DEF Types, TypeOK, SentStates
<1>3. \A i \in DOMAIN bus : i \in Nat /\ bus[i] \in Messages /\ Plain(bus[i])
  <2>1. bus \in Seq(Messages \ Notified)
    BY DEF Types
  <2> QED BY <2>1 DEF Plain
<1>4. \A g \in DOMAIN gens, c \in Channels : \A i \in DOMAIN queue[g][c] :
        i \in Nat /\ queue[g][c][i] \in Messages
  <2> TAKE g \in DOMAIN gens, c \in Channels
  <2>1. queue[g][c] \in Seq(Messages)
    BY Cell
  <2> QED BY <2>1
<1>5. \A g \in DOMAIN gens : g \in Nat /\ g \in Gens
  BY Cell DEF Gens
<1>6. \A g \in DOMAIN gens : Holds(g) => disp[g].msg \in Messages /\ Plain(disp[g].msg)
  BY <1>5 DEF Types, Plain
<1>7. \A g \in DOMAIN gens, c \in Channels : Sending(g, c) =>
        worker[g][c].msg \in Messages /\ worker[g][c].chunk \in Nat
  <2>1. \A g \in DOMAIN gens, c \in Channels : worker[g][c].chunk \in Nat
    BY Cell DEF WorkerStates
  <2> QED BY <1>5, <2>1 DEF Types
<1> QED BY <1>1, <1>2, <1>3, <1>4, <1>5, <1>6, <1>7

\* The steps of reload and shutdown that start nothing.
LEMMA OrderFrame ==
  ASSUME Types, Orderly, SameGens, UNCHANGED <<published, disp, queue, worker, sent>>,
         closed => closed', bus' = bus \/ bus' = <<>>
  PROVE  Orderly'
<1>1. \A x : Passed(x) => Passed(x)'
  BY DEF Passed
<1>2. OneStart' /\ OwnWorker'
  BY DEF Orderly, SameGens, OneStart, OwnWorker
<1>3. Apart'
  BY DEF Orderly, Apart, SameGens, Alive, Barren, Holds, Sending
<1>4. Published'
  BY DEF Orderly, Published
<1>5. Upstream'
  BY <1>1 DEF Orderly, Upstream, SameGens, Holds, Sending
<1>6. Lines'
  BY DEF Orderly, Lines, SameGens, Line, Alive, Holds, Sending
<1> QED BY <1>2, <1>3, <1>4, <1>5, <1>6 DEF Orderly

\* A worker that takes no message: what it shows follows what was shown, and
\* what it does next follows what it shows.
LEMMA OrderWork ==
  ASSUME Types, Orderly, NEW g \in DOMAIN gens, NEW c \in Channels,
         NEW w \in WorkerStates, StepTo(g, c, w), Shows(g, c, w), UNCHANGED <<Others, queue>>
  PROVE  Orderly'
<1> DEFINE s == worker[g][c]
<1>1. /\ worker'[g][c] = w
      /\ \A h \in DOMAIN gens, d \in Channels :
           /\ <<h, d>> # <<g, c>> => worker'[h][d] = worker[h][d]
           /\ Alive(h, d)' => Alive(h, d)
           /\ Sending(h, d)' => /\ Sending(h, d) /\ worker'[h][d].msg = worker[h][d].msg
                                /\ GoesOn(worker[h][d], worker'[h][d])
                                /\ worker[h][d].msg \in Messages
  BY WorkerCell
<1>2. UNCHANGED <<bus, closed, published, gens, disp, queue>>
  BY DEF Others, registry
<1>3. \A x : Passed(x)' <=> Passed(x)
  BY <1>2 DEF Passed
<1>4. \A d \in Channels :
        \/ sent'[d] = sent[d]
        \/ /\ d = c /\ Sending(g, c) /\ Plain(s.msg) /\ sent'[c].msg = s.msg
           /\ Sending(g, c)' => Before(sent'[c], w)
  <2>1. sent \in [Channels -> SentStates]
    BY DEF Types, TypeOK, SentStates
  <2> QED BY <1>1, <2>1 DEF Shows, Sending
<1>5. OneStart' /\ OwnWorker' /\ Published'
  BY <1>2 DEF Orderly, OneStart, OwnWorker, Published
<1>6. Apart'
  BY <1>1, <1>2 DEF Orderly, Apart, Barren, Holds
<1>7. Upstream'
  <2>1. \A d \in Channels :
          sent'[d].msg = None \/ (Plain(sent'[d].msg) /\ Passed(sent'[d].msg))
    BY <1>4 DEF Orderly, Upstream
  <2> QED BY <1>1, <1>2, <1>3, <2>1 DEF Orderly, Upstream, Holds
<1>8. Lines'
  <2> SUFFICES ASSUME NEW h \in DOMAIN gens, NEW d \in Channels, Alive(h, d)'
               PROVE  Line(h, d)'
    BY <1>2 DEF Lines
  <2>1. Line(h, d) /\ Alive(h, d)
    BY <1>1 DEF Orderly, Lines
  <2>2. CASE sent'[d] = sent[d]
    <3>1. ASSUME Sending(h, d)', Plain(worker'[h][d].msg)
          PROVE  Before(sent[d], worker'[h][d])
      <4> DEFINE a == sent[d]
                 v == worker[h][d]
                 x == worker'[h][d]
      <4>1. Before(a, v) /\ x.msg = v.msg /\ GoesOn(v, x) /\ v.msg \in Nat
        BY <1>1, <2>1, <3>1, Numbers DEF Line
      <4>2. a \in SentStates
        BY Numbers
      <4> HIDE DEF a, v, x
      <4>3. /\ Attempt(v) \in 0 .. MaxRetries + 1 /\ Attempt(x) \in 0 .. MaxRetries + 1
            /\ v.chunk \in Nat /\ x.chunk \in Nat /\ MaxRetries \in Nat
        BY <4>1, AttemptType, ManagerAssumption DEF GoesOn
      <4>4. a.chunk \in Nat /\ a.repeat \in 0 .. MaxRetries + 2
        BY <4>2 DEF SentStates
      <4>5. Before(a, x)
        BY <4>1, <4>3, <4>4 DEF Before, GoesOn
      <4> QED BY <4>5 DEF a, x
    <3> QED BY <1>1, <1>2, <2>1, <2>2, <3>1 DEF Line, Holds
  <2>3. CASE sent'[d] # sent[d]
    <3>1. /\ d = c /\ Sending(g, c) /\ Alive(g, c) /\ Plain(s.msg) /\ sent'[c].msg = s.msg
          /\ Sending(g, c)' => Before(sent'[c], w)
      BY <1>4, <2>3 DEF Sending, Alive
    <3>2. CASE h = g
      <4>1. /\ \A i \in DOMAIN queue[g][c] : Plain(queue[g][c][i]) => s.msg < queue[g][c][i]
            /\ Holds(g) => s.msg < disp[g].msg
        BY <2>1, <3>1, <3>2 DEF Line
      <4> QED BY <1>1, <1>2, <2>1, <3>1, <3>2, <4>1 DEF Line, Holds
    <3>3. CASE h # g
      <4>1. h \in Nat /\ g \in Nat
        BY Numbers
      <4>2. CASE h < g
        BY <2>1, <3>1, <4>2 DEF Orderly, Apart, Barren
      <4>3. CASE g < h
        <5>1. Barren(h, c)
          BY <2>1, <3>1, <4>3 DEF Orderly, Apart
        <5>2. worker'[h][c] = worker[h][c]
          BY <1>1, <3>3
        <5> QED BY <1>2, <2>1, <3>1, <5>1, <5>2 DEF Line, Holds, Barren, Sending
      <4> QED BY <3>3, <4>1, <4>2, <4>3
    <3> QED BY <3>2, <3>3
  <2> QED BY <2>2, <2>3
<1> QED BY <1>5, <1>6, <1>7, <1>8 DEF Orderly

\* The head of the queue is in hand: it follows what was sent, and precedes the rest.
LEMMA OrderTake ==
  ASSUME Types, Orderly, NEW g \in DOMAIN gens, NEW c \in Channels, Take(g, c)
  PROVE  Orderly'
<1> DEFINE q == queue[g][c]
<1>1. UNCHANGED <<bus, closed, published, gens, disp, sent>>
  BY DEF Take, Others, registry
<1>2. /\ Alive(g, c) /\ worker'[g][c].msg = q[1] /\ worker'[g][c].chunk = 1
      /\ worker'[g][c].pc = "limit"
      /\ \A h \in DOMAIN gens, d \in Channels : <<h, d>> # <<g, c>> =>
           worker'[h][d] = worker[h][d] /\ queue'[h][d] = queue[h][d]
  BY TakeCell DEF Alive
<1>3. /\ 1 \in DOMAIN q
      /\ \A i \in DOMAIN queue'[g][c] :
           i + 1 \in DOMAIN q /\ queue'[g][c][i] = q[i + 1] /\ i + 1 > 1 /\ i \in Nat
  <2>1. queue'[g][c] = Tail(q) /\ q \in Seq(Messages) /\ q # <<>>
    BY TakeCell
  <2> QED BY <2>1, TailKeeps
<1>4. \A x : Passed(x)' <=> Passed(x)
  BY <1>1 DEF Passed
<1>5. OneStart' /\ OwnWorker' /\ Published'
  BY <1>1 DEF Orderly, OneStart, OwnWorker, Published
<1>6. \A h \in DOMAIN gens, d \in Channels : Alive(h, d)' => Alive(h, d)
  <2> TAKE h \in DOMAIN gens, d \in Channels
  <2> QED BY <1>2 DEF Alive
<1>7. Apart'
  <2>1. \A h \in DOMAIN gens, d \in Channels : Barren(h, d) => Barren(h, d)'
    <3> TAKE h \in DOMAIN gens, d \in Channels
    <3>1. CASE <<h, d>> = <<g, c>>
      BY <1>1, <1>2, <1>3, <3>1 DEF Barren, Holds
    <3>2. CASE <<h, d>> # <<g, c>>
      BY <1>1, <1>2, <3>2 DEF Barren, Holds, Sending
    <3> QED BY <3>1, <3>2
  <2> QED BY <1>1, <1>6, <2>1 DEF Orderly, Apart
<1>8. Upstream'
  <2>1. \A h \in DOMAIN gens, d \in Channels :
          /\ \A i \in DOMAIN queue'[h][d] : Plain(queue'[h][d][i]) => Passed(queue'[h][d][i])
          /\ Sending(h, d)' /\ Plain(worker'[h][d].msg) => Passed(worker'[h][d].msg)
    <3> TAKE h \in DOMAIN gens, d \in Channels
    <3>1. CASE <<h, d>> = <<g, c>>
      BY <1>2, <1>3, <3>1 DEF Orderly, Upstream
    <3>2. CASE <<h, d>> # <<g, c>>
      BY <1>2, <3>2 DEF Orderly, Upstream, Sending
    <3> QED BY <3>1, <3>2
  <2> QED BY <1>1, <1>4, <2>1 DEF Orderly, Upstream, Holds
<1>9. Lines'
  <2> SUFFICES ASSUME NEW h \in DOMAIN gens, NEW d \in Channels, Alive(h, d)'
               PROVE  Line(h, d)'
    BY <1>1 DEF Lines
  <2>1. Line(h, d)
    BY <1>6 DEF Orderly, Lines
  <2>2. CASE <<h, d>> # <<g, c>>
    BY <1>1, <1>2, <2>1, <2>2 DEF Line, Holds, Sending
  <2>3. CASE <<h, d>> = <<g, c>>
    <3>1. Line(g, c)
      BY <2>1, <2>3
    <3>2. \A i \in DOMAIN q : i \in Nat /\ q[i] \in Nat
      BY Numbers
    <3>3. \A i \in DOMAIN queue'[g][c] : Plain(q[1]) /\ Plain(queue'[g][c][i]) =>
            q[1] < queue'[g][c][i]
      BY <1>3, <3>1, <3>2 DEF Line
    <3>4. \A i, j \in DOMAIN queue'[g][c] :
            i < j /\ Plain(queue'[g][c][i]) /\ Plain(queue'[g][c][j])
              => queue'[g][c][i] < queue'[g][c][j]
      BY <1>3, <3>1 DEF Line
    <3>5. /\ Plain(q[1]) => Before(sent[c], worker'[g][c])
          /\ \A j \in DOMAIN queue'[g][c] : Plain(queue'[g][c][j]) =>
               sent[c].msg < queue'[g][c][j]
      BY <1>2, <1>3, <3>1 DEF Line, Before
    <3>6. Holds(g) => /\ \A i \in DOMAIN queue'[g][c] : Plain(queue'[g][c][i]) =>
                           queue'[g][c][i] < disp[g].msg
                      /\ Plain(q[1]) => q[1] < disp[g].msg
      BY <1>3, <3>1 DEF Line
    <3>7. Holds(g) => sent[c].msg < disp[g].msg
      BY <3>1 DEF Line
    <3>8. Line(g, c)'
      BY <1>1, <1>2, <3>3, <3>4, <3>5, <3>6, <3>7 DEF Line, Holds
    <3> QED BY <2>3, <3>8
  <2> QED BY <2>2, <2>3
<1> QED BY <1>5, <1>7, <1>8, <1>9 DEF Orderly

\* Publish: the new message is the largest of those published.
LEMMA OrderPublish ==
  ASSUME Types, Orderly, NEW x \in Messages, Publish(x)
  PROVE  Orderly'
<1>1. /\ x \in Messages \ Notified /\ x \notin published /\ published' = published \cup {x}
      /\ bus' = Append(bus, x) /\ \A y \in Messages \ Notified : y < x => y \in published
      /\ UNCHANGED <<closed, gens, disp, worker, queue, sent>>
  BY DEF Publish, registry
<1>2. /\ DOMAIN bus' = DOMAIN bus \cup {Len(bus) + 1} /\ bus'[Len(bus) + 1] = x
      /\ \A i \in DOMAIN bus : bus'[i] = bus[i] /\ i < Len(bus) + 1
  <2>1. bus \in Seq(Messages)
    BY DEF Types, TypeOK
  <2>2. PICK t : t = bus'
    OBVIOUS
  <2>3. /\ Len(bus) \in Nat /\ DOMAIN bus = 1 .. Len(bus)
        /\ DOMAIN t = DOMAIN bus \cup {Len(bus) + 1} /\ t[Len(bus) + 1] = x
        /\ \A i \in DOMAIN bus : t[i] = bus[i]
    BY <1>1, <2>1, <2>2, AppendKeeps
  <2> QED BY <2>2, <2>3
<1>3. \A y \in published : y \in Messages /\ (Plain(y) => y < x)
  <2> TAKE y \in published
  <2>1. y \in Messages /\ y \in Nat /\ x \in Nat /\ y # x
    BY <1>1, Numbers DEF Types, TypeOK
  <2>2. Plain(y) /\ x < y => x \in published
    BY <1>1 DEF Orderly, Published
  <2> QED BY <1>1, <2>1, <2>2
<1>4. \A y \in Messages : Plain(y) /\ Passed(y) => Passed(y)'
  BY <1>1, <1>2, <1>3 DEF Passed
<1>5. OneStart' /\ OwnWorker' /\ Apart'
  BY <1>1 DEF Orderly, OneStart, OwnWorker, Apart, Alive, Barren, Holds, Sending
<1>6. Published'
  <2>1. \A y \in published', z \in Messages \ Notified : Plain(y) /\ z < y => z \in published'
    BY <1>1 DEF Orderly, Published
  <2>2. \A i \in DOMAIN bus' : bus'[i] \in published'
    BY <1>1, <1>2 DEF Orderly, Published
  <2>3. \A i, j \in DOMAIN bus' : i < j => bus'[i] < bus'[j]
    <3> TAKE i, j \in DOMAIN bus'
    <3>1. Len(bus) + 1 \in Nat /\ \A k \in DOMAIN bus : k \in Nat /\ Plain(bus[k])
      BY Numbers DEF Types, TypeOK
    <3>2. CASE i \in DOMAIN bus /\ j \in DOMAIN bus
      BY <1>2, <3>2 DEF Orderly, Published
    <3>3. CASE i \in DOMAIN bus /\ j = Len(bus) + 1
      BY <1>2, <1>3, <3>1, <3>3 DEF Orderly, Published
    <3>4. CASE i = Len(bus) + 1
      BY <1>2, <3>1, <3>4
    <3> QED BY <1>2, <3>2, <3>3, <3>4
  <2> QED BY <2>1, <2>2, <2>3 DEF Published
<1>7. Upstream'
  <2>1. \A h \in DOMAIN gens : Holds(h) => Passed(disp[h].msg)'
    BY <1>1, <1>4, Numbers DEF Orderly, Upstream
  <2>2. \A h \in DOMAIN gens, d \in Channels :
          /\ \A i \in DOMAIN queue[h][d] : Plain(queue[h][d][i]) => Passed(queue[h][d][i])'
          /\ Sending(h, d) /\ Plain(worker[h][d].msg) => Passed(worker[h][d].msg)'
    BY <1>1, <1>4, Numbers DEF Orderly, Upstream
  <2>3. \A d \in Channels :
          sent[d].msg = None \/ (Plain(sent[d].msg) /\ Passed(sent[d].msg)')
    BY <1>1, <1>4, Numbers DEF Orderly, Upstream, SentStates
  <2> QED BY <1>1, <2>1, <2>2, <2>3 DEF Upstream, Holds, Sending
<1>8. Lines'
  BY <1>1 DEF Orderly, Lines, Line, Alive, Holds, Sending
<1> QED BY <1>5, <1>6, <1>7, <1>8 DEF Orderly

\* SendToChannel: its messages are outside the order.
LEMMA OrderNotifyLook ==
  ASSUME Types, Orderly, NEW x \in Messages, NotifyLook(x)
  PROVE  Orderly'
<1>1. /\ x \in Notified /\ published' = published \cup {x}
      /\ UNCHANGED <<bus, closed, gens, disp, worker, queue, sent>>
  BY DEF NotifyLook, registry
<1>2. \A y : Passed(y) => Passed(y)'
  BY <1>1 DEF Passed
<1>3. OneStart' /\ OwnWorker' /\ Apart' /\ Lines'
  <2>1. OneStart' /\ OwnWorker'
    BY <1>1 DEF Orderly, OneStart, OwnWorker
  <2>2. Apart'
    BY <1>1 DEF Orderly, Apart, Alive, Barren, Holds, Sending
  <2>3. Lines'
    BY <1>1 DEF Orderly, Alive, Holds, Sending, Lines, Line
  <2> QED BY <2>1, <2>2, <2>3
<1>4. Published'
  BY <1>1 DEF Orderly, Published, Plain
<1>5. Upstream'
  BY <1>1, <1>2 DEF Orderly, Upstream, Holds, Sending
<1> QED BY <1>3, <1>4, <1>5 DEF Orderly

\* A message of the notify API joins a queue, outside the order.
LEMMA OrderNotifyPush ==
  ASSUME Types, Orderly, NEW x \in Messages, NotifyPush(x)
  PROVE  Orderly'
<1> DEFINE g == notify[x].to
           c == To[x]
<1>1. /\ x \in Notified /\ ~Plain(x)
      /\ UNCHANGED <<bus, closed, published, gens, disp, worker, sent>>
  BY DEF NotifyPush, registry, Plain
<1>2. g \in DOMAIN gens /\ c \in Channels
  BY <1>1, ManagerAssumption DEF NotifyPush, Types
<1>3. \A h \in DOMAIN gens, d \in Channels :
        \A i \in DOMAIN queue'[h][d] : Plain(queue'[h][d][i]) =>
          i \in DOMAIN queue[h][d] /\ queue'[h][d][i] = queue[h][d][i]
  <2>1. CASE UNCHANGED queue
    BY <2>1
  <2>2. CASE queue' = [queue EXCEPT ![g][c] = Append(queue[g][c], x)]
    <3>1. PICK s : s = queue[g][c]
      OBVIOUS
    <3>2. PICK q : q = Append(s, x)
      OBVIOUS
    <3>3. /\ queue \in [Gens -> [Channels -> Seq(Messages)]] /\ s \in Seq(Messages)
          /\ \A h \in DOMAIN gens : h \in Gens
      BY <1>2, <3>1, Cell DEF Types, TypeOK
    <3>4. /\ q \in Seq(Messages) /\ DOMAIN q = DOMAIN s \cup {Len(s) + 1} /\ q[Len(s) + 1] = x
          /\ \A i \in DOMAIN s : q[i] = s[i]
      BY <3>2, <3>3, AppendKeeps
    <3>5. queue' = [queue EXCEPT ![g][c] = q]
      BY <2>2, <3>1, <3>2
    <3>6. /\ queue'[g][c] = q
          /\ \A h \in Gens, d \in Channels : <<h, d>> # <<g, c>> => queue'[h][d] = queue[h][d]
      BY <1>2, <3>3, <3>4, <3>5, QueueChanges
    <3> TAKE h \in DOMAIN gens, d \in Channels
    <3>7. CASE <<h, d>> = <<g, c>>
      <4>1. h = g /\ d = c
        BY <3>7
      <4>2. ~Plain(q[Len(s) + 1])
        BY <1>1, <3>4
      <4>3. \A i \in DOMAIN q : Plain(q[i]) => i \in DOMAIN s /\ q[i] = s[i]
        BY <3>4, <4>2
      <4> QED BY <3>1, <3>6, <4>1, <4>3
    <3>8. CASE <<h, d>> # <<g, c>>
      BY <3>3, <3>6, <3>8
    <3> QED BY <3>7, <3>8
  <2> QED BY <2>1, <2>2 DEF NotifyPush
<1> HIDE DEF g, c
<1>4. \A y : Passed(y)' <=> Passed(y)
  BY <1>1 DEF Passed
<1>5. OneStart' /\ OwnWorker' /\ Published'
  BY <1>1 DEF Orderly, OneStart, OwnWorker, Published
<1>6. Apart'
  BY <1>1, <1>3 DEF Orderly, Apart, Alive, Barren, Holds, Sending
<1>7. Upstream'
  BY <1>1, <1>3, <1>4 DEF Orderly, Upstream, Holds, Sending
<1>8. Lines'
  <2> SUFFICES ASSUME NEW h \in DOMAIN gens, NEW d \in Channels, Alive(h, d)
               PROVE  Line(h, d)'
    BY <1>1 DEF Lines, Alive
  <2>1. Line(h, d)
    BY DEF Orderly, Lines
  <2> QED BY <1>1, <1>3, <2>1 DEF Line, Holds, Sending
<1> QED BY <1>5, <1>6, <1>7, <1>8 DEF Orderly

\* SubscribeOutbound: whatever is past the bus is older than its head.
LEMMA OrderReceive ==
  ASSUME Types, Orderly, closed => bus = <<>>, NEW g \in DOMAIN gens, Receive(g)
  PROVE  Orderly'
<1>1. /\ bus # <<>> /\ bus' = Tail(bus) /\ ~closed
      /\ disp' = [disp EXCEPT ![g] = [pc |-> "look", msg |-> Head(bus), to |-> None]]
      /\ UNCHANGED <<closed, published, gens, worker, queue, sent>>
  BY DEF Receive, registry
<1>2. /\ 1 \in DOMAIN bus /\ Head(bus) = bus[1]
      /\ \A i \in DOMAIN bus' : i + 1 \in DOMAIN bus /\ bus'[i] = bus[i + 1] /\ i + 1 > 1 /\ i \in Nat
  <2>1. bus \in Seq(Messages)
    BY DEF Types, TypeOK
  <2>2. PICK t : t = bus'
    OBVIOUS
  <2>3. /\ 1 \in DOMAIN bus /\ Head(bus) = bus[1]
        /\ \A i \in DOMAIN t : i + 1 \in DOMAIN bus /\ t[i] = bus[i + 1] /\ i + 1 > 1 /\ i \in Nat
    BY <1>1, <2>1, <2>2, TailKeeps
  <2> QED BY <2>2, <2>3
<1>3. /\ disp'[g].pc = "look" /\ disp'[g].msg = bus[1]
      /\ \A h \in DOMAIN gens : h # g => disp'[h] = disp[h]
  BY <1>1, <1>2, Cell DEF Types, TypeOK
<1>4. \A y : Passed(y) => Passed(y)' /\ y < bus[1]
  BY <1>1, <1>2 DEF Passed
<1>5. /\ bus[1] \in published
      /\ \A i \in DOMAIN bus' : bus[1] < bus'[i]
  BY <1>2 DEF Orderly, Published
<1>6. OneStart'
  BY <1>1 DEF Orderly, OneStart
<1>7. OwnWorker'
  BY <1>1, <1>3 DEF Orderly, OwnWorker
<1>8. Apart'
  BY <1>1 DEF Orderly, Apart, Alive
<1>9. Published'
  <2>1. \A i, j \in DOMAIN bus' : i < j => bus'[i] < bus'[j]
    BY <1>2 DEF Orderly, Published
  <2>2. \A i \in DOMAIN bus' : bus'[i] \in published
    BY <1>2 DEF Orderly, Published
  <2> QED BY <1>1, <2>1, <2>2 DEF Orderly, Published
<1>10. Upstream'
  <2>1. \A h \in DOMAIN gens : Holds(h)' => Passed(disp[h].msg)'
    <3> TAKE h \in DOMAIN gens
    <3>1. CASE h = g
      BY <1>1, <1>3, <1>5, <3>1 DEF Passed
    <3>2. CASE h # g
      <4>1. Holds(h)' => Passed(disp[h].msg)
        BY <1>3, <3>2 DEF Orderly, Upstream, Holds
      <4>2. disp'[h] = disp[h]
        BY <1>3, <3>2
      <4> QED BY <1>4, <4>1, <4>2 DEF Passed
    <3> QED BY <3>1, <3>2
  <2> QED BY <1>1, <1>4, <2>1 DEF Orderly, Upstream, Sending
<1>11. Lines'
  <2> SUFFICES ASSUME NEW h \in DOMAIN gens, NEW d \in Channels, Alive(h, d)
               PROVE  Line(h, d)'
    BY <1>1 DEF Lines, Alive
  <2>1. Line(h, d)
    BY DEF Orderly, Lines
  <2>2. CASE h # g
    BY <1>1, <1>3, <2>1, <2>2 DEF Line, Holds, Sending
  <2>3. CASE h = g
    <3>1. \A i \in DOMAIN queue[g][d] : Plain(queue[g][d][i]) => queue[g][d][i] < bus[1]
      BY <1>4 DEF Orderly, Upstream
    <3>2. Sending(g, d) /\ Plain(worker[g][d].msg) => worker[g][d].msg < bus[1]
      BY <1>4 DEF Orderly, Upstream
    <3>3. sent[d].msg < bus[1]
      <4>1. bus[1] \in Messages /\ 0 < bus[1]
        BY <1>2, Numbers DEF None
      <4>2. CASE sent[d].msg = None
        BY <4>1, <4>2 DEF None
      <4>3. CASE sent[d].msg # None
        BY <1>4, <4>3 DEF Orderly, Upstream
      <4> QED BY <4>2, <4>3
    <3>4. Line(g, d)
      BY <2>1, <2>3
    <3>5. Line(g, d)'
      BY <1>1, <1>3, <3>1, <3>2, <3>3, <3>4 DEF Line, Sending
    <3> QED BY <2>3, <3>5
  <2> QED BY <2>2, <2>3
<1> QED BY <1>6, <1>7, <1>8, <1>9, <1>10, <1>11 DEF Orderly

\* A dispatcher that looks up its worker, drops its message or exits.
LEMMA OrderLook ==
  ASSUME Types, Registry, Orderly, NEW g \in DOMAIN gens, DispatchExit(g) \/ Look(g)
  PROVE  Orderly'
<1>1. UNCHANGED <<bus, closed, published, gens, worker, queue, sent>>
  BY DEF DispatchExit, Look, registry
<1>2. g \in Gens /\ disp \in [Gens -> [pc : {"off", "recv", "look", "push", "exit"},
                                       msg : Messages \cup {None}, to : Gens \cup {None}]]
  BY Cell DEF Types, TypeOK
<1>3. /\ \A h \in DOMAIN gens : h # g => disp'[h] = disp[h]
      /\ disp'[g].pc \in {"look", "push"} => Holds(g) /\ disp'[g].msg = disp[g].msg
      /\ disp'[g].pc = "push" => disp'[g].to = g
  <2>1. CASE DispatchExit(g)
    <3>1. disp' = [disp EXCEPT ![g] = [disp[g] EXCEPT !.pc = "exit"]]
      BY <2>1 DEF DispatchExit
    <3>2. disp'[g].pc = "exit"
      BY <1>2, <3>1
    <3> QED BY <1>2, <3>1, <3>2, Cell
  <2>2. CASE Look(g)
    <3> DEFINE x == disp[g].msg
               to == workers[gens[g].mgr][To[x]]
    <3>1. disp[g].pc = "look" /\ x \in Messages
      BY <1>2, <2>2 DEF Look, Types, Holds
    <3>2. CASE to = None
      <4>1. disp' = [disp EXCEPT ![g] = [NoDisp EXCEPT !.pc = "recv"]]
        BY <2>2, <3>2 DEF Look
      <4>2. disp'[g].pc = "recv"
        BY <1>2, <4>1 DEF NoDisp
      <4> QED BY <1>2, <4>1, <4>2, Cell
    <3>3. CASE to # None
      <4>1. gens[g].mgr \in Managers /\ To[x] \in Channels
        BY <3>1, Cell, ManagerAssumption
      <4>2. to \in DOMAIN gens /\ gens[to].mgr = gens[g].mgr
        BY <3>3, <4>1 DEF Registry
      <4>3. to = g
        BY <4>2 DEF Orderly, OneStart
      <4>4. disp' = [disp EXCEPT ![g] = [disp[g] EXCEPT !.pc = "push", !.to = to]]
        BY <2>2, <3>3 DEF Look
      <4>5. disp'[g].pc = "push" /\ disp'[g].msg = x /\ disp'[g].to = to
        <5> HIDE DEF to
        <5> QED BY <1>2, <4>4
      <4> QED BY <1>2, <3>1, <4>3, <4>4, <4>5, Cell DEF Holds
    <3> QED BY <3>2, <3>3
  <2> QED BY <2>1, <2>2
<1>4. \A h \in DOMAIN gens : Holds(h)' => Holds(h) /\ disp'[h].msg = disp[h].msg
  BY <1>3 DEF Holds
<1>5. \A y : Passed(y)' <=> Passed(y)
  BY <1>1 DEF Passed
<1>6. OneStart' /\ Published'
  BY <1>1 DEF Orderly, OneStart, Published
<1>7. OwnWorker'
  BY <1>1, <1>3 DEF Orderly, OwnWorker
<1>8. Apart'
  BY <1>1, <1>4 DEF Orderly, Apart, Alive, Barren, Sending
<1>9. Upstream'
  BY <1>1, <1>4, <1>5 DEF Orderly, Upstream, Sending
<1>10. Lines'
  BY <1>1, <1>4 DEF Orderly, Lines, Line, Alive, Sending
<1> QED BY <1>6, <1>7, <1>8, <1>9, <1>10 DEF Orderly

\* enqueueOutboundMessage: the queue and the worker hold older messages only.
LEMMA OrderPush ==
  ASSUME Types, Orderly, NEW g \in DOMAIN gens, Push(g)
  PROVE  Orderly'
<1>x. PICK x : x = disp[g].msg
  OBVIOUS
<1>c. PICK c : c = To[x]
  OBVIOUS
<1>1. /\ UNCHANGED <<bus, closed, published, gens, worker, sent>>
      /\ disp[g].pc = "push" /\ disp[g].to = g /\ Holds(g)
  BY DEF Push, registry, Orderly, OwnWorker, Holds
<1>2. /\ g \in Gens /\ x \in Messages /\ Plain(x) /\ c \in Channels
      /\ disp \in [Gens -> [pc : {"off", "recv", "look", "push", "exit"},
                            msg : Messages \cup {None}, to : Gens \cup {None}]]
      /\ \A h \in DOMAIN gens : h \in Gens
  <2>1. /\ g \in Gens /\ x \in Messages /\ Plain(x)
        /\ \A h \in DOMAIN gens : h \in Gens
    BY <1>1, <1>x, Numbers
  <2>2. c \in Channels
    BY <2>1, <1>c, ManagerAssumption
  <2> QED BY <2>1, <2>2 DEF Types, TypeOK
<1>3. /\ \A h \in DOMAIN gens : h # g => disp'[h] = disp[h]
      /\ disp'[g].pc \notin {"look", "push"}
  <2>1. PICK pc \in {"recv", "exit"} : disp' = [disp EXCEPT ![g] = [NoDisp EXCEPT !.pc = pc]]
    BY DEF Push
  <2> QED BY <1>2, <2>1 DEF NoDisp
<1>4. \A h \in DOMAIN gens : Holds(h)' => Holds(h) /\ disp'[h] = disp[h] /\ h # g
  BY <1>3 DEF Holds
<1>5. \/ UNCHANGED queue
      \/ /\ \A h \in DOMAIN gens, d \in Channels :
              <<h, d>> # <<g, c>> => queue'[h][d] = queue[h][d]
         /\ DOMAIN queue'[g][c] = DOMAIN queue[g][c] \cup {Len(queue[g][c]) + 1}
         /\ queue'[g][c][Len(queue[g][c]) + 1] = x
         /\ \A i \in DOMAIN queue[g][c] :
              queue'[g][c][i] = queue[g][c][i] /\ i < Len(queue[g][c]) + 1
         /\ Len(queue[g][c]) \in Nat
  <2>1. CASE UNCHANGED queue
    BY <2>1
  <2>2. CASE queue' = [queue EXCEPT ![g][c] = Append(queue[g][c], x)]
    <3>1. PICK s : s = queue[g][c]
      OBVIOUS
    <3>2. PICK q : q = Append(s, x)
      OBVIOUS
    <3>3. queue \in [Gens -> [Channels -> Seq(Messages)]] /\ s \in Seq(Messages)
      BY <1>2, <3>1 DEF Types, TypeOK
    <3>4. /\ q \in Seq(Messages) /\ DOMAIN q = DOMAIN s \cup {Len(s) + 1} /\ q[Len(s) + 1] = x
          /\ \A i \in DOMAIN s : q[i] = s[i] /\ i < Len(s) + 1
          /\ Len(s) \in Nat
      <4>1. /\ q \in Seq(Messages) /\ DOMAIN q = DOMAIN s \cup {Len(s) + 1} /\ q[Len(s) + 1] = x
            /\ \A i \in DOMAIN s : q[i] = s[i]
            /\ Len(s) \in Nat /\ DOMAIN s = 1 .. Len(s)
        BY <1>2, <3>2, <3>3, AppendKeeps
      <4> QED BY <4>1
    <3>5. queue' = [queue EXCEPT ![g][c] = q]
      BY <2>2, <3>1, <3>2
    <3>6. /\ queue'[g][c] = q
          /\ \A h \in Gens, d \in Channels : <<h, d>> # <<g, c>> => queue'[h][d] = queue[h][d]
      BY <1>2, <3>3, <3>4, <3>5, QueueChanges
    <3> QED BY <1>2, <3>1, <3>4, <3>6
  <2> QED BY <1>1, <1>x, <1>c, <2>1, <2>2 DEF Push
<1>6. \A y : Passed(y)' <=> Passed(y)
  BY <1>1 DEF Passed
<1>7. OneStart' /\ Published'
  BY <1>1 DEF Orderly, OneStart, Published
<1>8. OwnWorker'
  BY <1>1, <1>3 DEF Orderly, OwnWorker
<1>9. Passed(x)
  BY <1>1, <1>x DEF Orderly, Upstream
<1>10. \A h \in DOMAIN gens, d \in Channels : \A i \in DOMAIN queue'[h][d] :
         \/ i \in DOMAIN queue[h][d] /\ queue'[h][d][i] = queue[h][d][i]
         \/ h = g /\ d = c /\ queue'[h][d][i] = x
  <2> TAKE h \in DOMAIN gens, d \in Channels
  <2>1. CASE <<h, d>> = <<g, c>>
    BY <1>5, <2>1
  <2>2. CASE <<h, d>> # <<g, c>>
    BY <1>5, <2>2
  <2> QED BY <2>1, <2>2
<1>11. Apart'
  <2>1. \A h \in DOMAIN gens, d \in Channels : Barren(h, d) => Barren(h, d)'
    <3> TAKE h \in DOMAIN gens, d \in Channels
    <3>1. CASE h = g
      BY <1>1, <3>1 DEF Barren
    <3>2. CASE h # g
      <4>1. UNCHANGED queue \/ queue'[h][d] = queue[h][d]
        BY <1>5, <3>2
      <4> QED BY <1>1, <1>4, <3>2, <4>1 DEF Barren, Sending
    <3> QED BY <3>1, <3>2
  <2> QED BY <1>1, <2>1 DEF Orderly, Apart, Alive
<1>12. Upstream'
  <2>1. \A h \in DOMAIN gens, d \in Channels : \A i \in DOMAIN queue'[h][d] :
          Plain(queue'[h][d][i]) => Passed(queue'[h][d][i])
    BY <1>9, <1>10 DEF Orderly, Upstream
  <2> QED BY <1>1, <1>4, <1>6, <2>1 DEF Orderly, Upstream, Sending
<1>13. Lines'
  <2> SUFFICES ASSUME NEW h \in DOMAIN gens, NEW d \in Channels, Alive(h, d)
               PROVE  Line(h, d)'
    BY <1>1 DEF Lines, Alive
  <2>1. Line(h, d)
    BY DEF Orderly, Lines
  <2>2. CASE UNCHANGED queue
    BY <1>1, <1>4, <2>1, <2>2 DEF Line, Sending
  <2>3. CASE <<h, d>> # <<g, c>> /\ queue'[h][d] = queue[h][d]
    BY <1>1, <1>4, <2>1, <2>3 DEF Line, Sending
  <2>4. CASE <<h, d>> = <<g, c>> /\ ~UNCHANGED queue
    <3>1. Line(g, c) /\ ~Holds(g)'
      BY <1>4, <2>1, <2>4
    <3>2. \A i, j \in DOMAIN queue'[g][c] :
            i < j /\ Plain(queue'[g][c][i]) /\ Plain(queue'[g][c][j])
              => queue'[g][c][i] < queue'[g][c][j]
      <4> TAKE i, j \in DOMAIN queue'[g][c]
      <4>0. \A k \in DOMAIN queue[g][c] : k \in Nat
        BY <1>2, Numbers
      <4>1. CASE i \in DOMAIN queue[g][c] /\ j \in DOMAIN queue[g][c]
        BY <1>5, <2>4, <3>1, <4>1 DEF Line
      <4>2. CASE i \in DOMAIN queue[g][c] /\ j = Len(queue[g][c]) + 1
        BY <1>1, <1>5, <1>x, <2>4, <3>1, <4>2 DEF Line
      <4>3. CASE i = Len(queue[g][c]) + 1
        BY <1>5, <2>4, <4>0, <4>3
      <4> QED BY <1>5, <2>4, <4>1, <4>2, <4>3
    <3>3. \A i \in DOMAIN queue'[g][c] : Plain(queue'[g][c][i]) /\ Sending(g, c) /\ Plain(worker[g][c].msg)
            => worker[g][c].msg < queue'[g][c][i]
      BY <1>1, <1>2, <1>10, <1>x, <3>1 DEF Line
    <3>4. \A j \in DOMAIN queue'[g][c] : Plain(queue'[g][c][j]) => sent[c].msg < queue'[g][c][j]
      BY <1>1, <1>2, <1>10, <1>x, <3>1 DEF Line
    <3>5. Line(g, c)'
      BY <1>1, <3>1, <3>2, <3>3, <3>4 DEF Line, Sending
    <3> QED BY <2>4, <3>5
  <2> QED BY <1>5, <2>2, <2>3, <2>4
<1> QED BY <1>7, <1>8, <1>11, <1>12, <1>13 DEF Orderly

\* StartAll of a candidate: its queue is empty and its dispatcher has nothing.
LEMMA OrderStart ==
  ASSUME Base, Orderly, NEW ok \in SUBSET Channels, Start(used, "root", ok),
         NEW g, g = Len(gens) + 1, MovesTo("reload", "idle"),
         caller["reload"].pc = "start", current' = used,
         UNCHANGED <<bus, closed, published, queue, notify, used, rootDone, sent>>
  PROVE  Orderly'
<1>1. Types /\ used \in Managers /\ "reload" \in Callers
  BY CallerType DEF Base, Callers
<1>2. PICK v : v = "idle"
  OBVIOUS
<1>3. PICK m : m = used
  OBVIOUS
<1>4. /\ used # current
      /\ \A h \in DOMAIN gens, c \in Channels : Alive(h, c) => closed
  BY <1>1, <1>2, <1>3, BaseStart
<1>5. /\ ~Holds(g)' /\ \A c \in Channels : queue'[g][c] = <<>> /\ ~Sending(g, c)'
      /\ \A h \in DOMAIN gens : disp'[h] = disp[h] /\ worker'[h] = worker[h]
  <2>1. PICK r : r = caller'["reload"]
    OBVIOUS
  <2>2. caller' = [caller EXCEPT !["reload"] = r] /\ r \in CallerStates
    BY <1>1, <1>2, <2>1, CallerMoves
  <2> QED BY <1>1, <1>3, <2>2, TypesStart
<1>6. /\ g \notin DOMAIN gens /\ DOMAIN gens' = DOMAIN gens \cup {g} /\ gens'[g].mgr = used
      /\ \A h \in DOMAIN gens : gens'[h] = gens[h] /\ h < g /\ h \in Nat /\ g \in Nat
  <2>1. /\ g \in Gens /\ g \notin DOMAIN gens /\ DOMAIN gens' = DOMAIN gens \cup {g}
        /\ gens'[g].mgr = used
        /\ \A h \in DOMAIN gens : gens'[h] = gens[h] /\ h < g /\ h \in Gens
    BY <1>1, StartKeeps
  <2> QED BY <2>1 DEF Gens
<1>7. OneStart'
  BY <1>4, <1>6 DEF Orderly, OneStart, Base, Registry
<1>8. OwnWorker'
  BY <1>5, <1>6 DEF Orderly, OwnWorker, Holds
<1>9. Apart'
  <2> SUFFICES ASSUME NEW h \in DOMAIN gens', NEW k \in DOMAIN gens', NEW c \in Channels,
                      h < k, Alive(h, c)', Alive(k, c)'
               PROVE  closed' /\ Barren(k, c)'
    BY DEF Apart
  <2>1. h \in DOMAIN gens
    BY <1>6
  <2>2. Alive(h, c)
    BY <1>5, <2>1 DEF Alive
  <2>3. CASE k = g
    <3>1. Barren(g, c)'
      <4>1. \A i \in DOMAIN queue'[g][c] : FALSE
        BY <1>5
      <4> QED BY <1>5, <4>1 DEF Barren
    <3> QED BY <1>4, <2>1, <2>2, <2>3, <3>1
  <2>4. CASE k # g
    <3>1. k \in DOMAIN gens /\ disp'[k] = disp[k] /\ worker'[k] = worker[k] /\ Alive(k, c)
      BY <1>5, <1>6, <2>4 DEF Alive
    <3>2. closed /\ Barren(k, c)
      BY <2>1, <2>2, <3>1 DEF Orderly, Apart
    <3> QED BY <3>1, <3>2 DEF Barren, Holds, Sending
  <2> QED BY <2>3, <2>4
<1>10. Published'
  BY DEF Orderly, Published
<1>11. \A y : Passed(y)' <=> Passed(y)
  BY DEF Passed
<1>12. \A c \in Channels : \A i \in DOMAIN queue'[g][c] : FALSE
  BY <1>5
<1>13. Upstream'
  <2>1. \A h \in DOMAIN gens' : Holds(h)' => h \in DOMAIN gens /\ Holds(h) /\ disp'[h] = disp[h]
    BY <1>5, <1>6 DEF Holds
  <2>2. \A h \in DOMAIN gens', c \in Channels : Sending(h, c)' =>
          h \in DOMAIN gens /\ Sending(h, c) /\ worker'[h] = worker[h]
    BY <1>5, <1>6 DEF Sending
  <2>3. \A h \in DOMAIN gens', c \in Channels : \A i \in DOMAIN queue'[h][c] :
          h \in DOMAIN gens /\ i \in DOMAIN queue[h][c] /\ queue'[h][c] = queue[h][c]
    BY <1>6, <1>12
  <2> QED BY <1>11, <2>1, <2>2, <2>3 DEF Orderly, Upstream
<1>14. Lines'
  <2> SUFFICES ASSUME NEW h \in DOMAIN gens', NEW c \in Channels, Alive(h, c)'
               PROVE  Line(h, c)'
    BY DEF Lines
  <2>1. CASE h = g
    <3>1. Line(g, c)'
      BY <1>5, <1>12 DEF Line
    <3> QED BY <2>1, <3>1
  <2>2. CASE h # g
    <3>1. h \in DOMAIN gens /\ disp'[h] = disp[h] /\ worker'[h] = worker[h] /\ Alive(h, c)
      BY <1>5, <1>6, <2>2 DEF Alive
    <3>2. Line(h, c)
      BY <3>1 DEF Orderly, Lines
    <3> QED BY <3>1, <3>2 DEF Line, Holds, Sending
  <2> QED BY <2>1, <2>2
<1> QED BY <1>7, <1>8, <1>9, <1>10, <1>13, <1>14 DEF Orderly

-----------------------------------------------------------------------------
(* The whole invariant.                                                    *)

LEMMA InvInit == Init => Inv
<1> SUFFICES ASSUME Init PROVE Inv
  OBVIOUS
<1>1. /\ 1 \in Managers /\ Managers \subseteq Nat \ {0} /\ 1 \in Gens
      /\ MaxStarts \in Nat \ {0} /\ 0 \in 0 .. MaxRetries /\ QueueSize \in Nat
  <2>1. /\ 1 \in Managers /\ IsFiniteSet(Managers) /\ Managers = 1 .. Cardinality(Managers)
        /\ MaxStarts \in Nat \ {0} /\ MaxRetries \in Nat /\ QueueSize \in Nat
    BY ManagerAssumption
  <2>2. Cardinality(Managers) \in Nat
    BY <2>1, FS_CardinalityType
  <2> QED BY <2>1, <2>2 DEF Gens
<1>2. /\ Len(gens) = 1 /\ DOMAIN gens = {1} /\ gens[1].mgr = 1 /\ gens[1].parent = "root"
      /\ gens \in Seq([mgr : Managers, parent : {"root", "restore"}, live : BOOLEAN])
  <2>1. PICK e : e = [mgr |-> 1, parent |-> "root", live |-> TRUE]
    OBVIOUS
  <2>2. PICK R : R = [mgr : Managers, parent : {"root", "restore"}, live : BOOLEAN]
    OBVIOUS
  <2>3. e \in R /\ gens = <<e>> /\ e.mgr = 1 /\ e.parent = "root"
    BY <1>1, <2>1, <2>2 DEF Init
  <2>4. gens \in Seq(R) /\ Len(gens) = 1 /\ DOMAIN gens = {1} /\ gens[1] = e
    BY <2>3
  <2> QED BY <2>2, <2>3, <2>4
<1>3. /\ disp \in [Gens -> [pc : {"off", "recv", "look", "push", "exit"},
                            msg : Messages \cup {None}, to : Gens \cup {None}]]
      /\ \A g \in Gens : disp[g].pc \in {"recv", "off"}
  BY DEF Init, NoDisp
<1>4. /\ worker \in [Gens -> [Channels -> WorkerStates]]
      /\ \A g \in Gens, c \in Channels :
           /\ worker[g][c].pc \in {"idle", "off"} /\ (g # 1 => worker[g][c].pc = "off")
  <2>1. NoWorker \in WorkerStates /\ NoWorker.pc = "off"
    BY <1>1 DEF NoWorker, WorkerStates
  <2>2. worker = [g \in Gens |-> [c \in Channels |-> IF g = 1 THEN Idle ELSE NoWorker]]
    BY DEF Init
  <2> HIDE DEF WorkerStates
  <2> QED BY <2>1, <2>2, IdleState
<1>5. /\ queue \in [Gens -> [Channels -> Seq(Messages)]]
      /\ \A g \in Gens, c \in Channels : queue[g][c] = <<>> /\ Len(queue[g][c]) <= QueueSize
  BY <1>1 DEF Init
<1>6. /\ workers \in [Managers -> [Channels -> Gens \cup {None}]]
      /\ \A m \in Managers, c \in Channels : workers[m][c] = IF m = 1 THEN 1 ELSE None
      /\ task \in [Managers -> Gens \cup {None}]
      /\ \A m \in Managers : task[m] = IF m = 1 THEN 1 ELSE None
      /\ platform \in [Managers -> [Channels -> BOOLEAN]]
  BY <1>1 DEF Init
<1>7. /\ notify \in [Notified -> [pc : {"idle", "push", "ok", "failed"}, to : Gens \cup {None}]]
      /\ \A x \in Notified : notify[x].pc = "idle"
  BY DEF Init
<1>8. /\ caller \in [Callers -> CallerStates]
      /\ \A p \in Callers : caller[p].pc = "idle" /\ caller[p].mgr = None /\ caller[p].waits = {}
  BY DEF Init, CallerStates
<1>9. /\ sent \in [Channels -> SentStates] /\ \A c \in Channels : sent[c].msg = None
      /\ bus \in Seq(Messages) /\ bus \in Seq(Messages \ Notified)
  <2>1. NoPiece \in SentStates /\ NoPiece.msg = None
    BY ManagerAssumption DEF NoPiece, SentStates
  <2> HIDE DEF SentStates
  <2> QED BY <2>1 DEF Init
<1>10. /\ bus = <<>> /\ closed = FALSE /\ published = {} /\ current = 1 /\ used = 1
       /\ rootDone = FALSE
  BY DEF Init
<1>11. TypeOK
  <2>1. closed \in BOOLEAN /\ published \subseteq Messages /\ rootDone \in BOOLEAN
        /\ current \in Managers /\ used \in Managers
    BY <1>1, <1>10
  <2>2. \A g \in Gens, c \in Channels : Len(queue[g][c]) <= QueueSize
    BY <1>5
  <2>3. worker \in [Gens -> [Channels ->
           [pc : {"off", "idle", "limit", "send", "backoff", "exit"},
            msg : Messages \cup {None}, chunk : Nat, attempt : 0 .. MaxRetries]]]
    BY <1>4 DEF WorkerStates
  <2>4. caller \in [Callers ->
           [pc : {"idle", "bus", "stop", "wait", "close", "start", "restore", "return", "done"},
            mgr : Managers \cup {None}, waits : SUBSET (Gens \X Channels)]]
    BY <1>8 DEF CallerStates
  <2> QED BY <1>2, <1>3, <1>5, <1>6, <1>7, <1>9, <2>1, <2>2, <2>3, <2>4, Zenon DEF TypeOK, SentStates
<1>12. Types
  <2>1. Len(gens) <= MaxStarts
    BY <1>1, <1>2
  <2>2. \A g \in Gens : ~Holds(g) /\ disp[g].pc # "push"
    BY <1>3 DEF Holds
  <2>3. \A g \in Gens, c \in Channels : ~Sending(g, c)
    BY <1>4 DEF Sending
  <2>4. \A g \in Gens \ DOMAIN gens :
          /\ ~Holds(g)
          /\ \A c \in Channels : worker[g][c].pc = "off" /\ queue[g][c] = <<>>
    BY <1>1, <1>2, <1>4, <1>5, <2>2
  <2> QED BY <1>7, <1>9, <1>11, <2>1, <2>2, <2>3, <2>4, Zenon DEF Types
<1>13. Registry
  BY <1>1, <1>2, <1>6, <1>10 DEF Registry, None
<1>14. Callings
  <2>1. "reload" \in Callers /\ "shutdown" \in Callers
    BY DEF Callers
  <2> QED BY <1>8, <1>10, <2>1 DEF Callings, None
<1>15. Tracked
  BY <1>1, <1>2, <1>6 DEF Tracked
<1>16. OneStart /\ OwnWorker /\ Apart
  BY <1>1, <1>2, <1>3 DEF OneStart, OwnWorker, Apart
<1>17. DOMAIN bus = {}
  BY <1>10
<1>18. Published
  BY <1>10, <1>17 DEF Published
<1>19. \A g \in DOMAIN gens : /\ ~Holds(g)
                              /\ \A c \in Channels : ~Sending(g, c) /\ DOMAIN queue[g][c] = {}
  <2>1. \A g \in DOMAIN gens : g \in Gens
    BY <1>1, <1>2
  <2>2. \A g \in Gens : ~Holds(g)
    BY <1>3 DEF Holds
  <2>3. \A g \in Gens, c \in Channels : ~Sending(g, c)
    BY <1>4 DEF Sending
  <2>4. \A g \in Gens, c \in Channels : DOMAIN queue[g][c] = {}
    BY <1>5
  <2> QED BY <2>1, <2>2, <2>3, <2>4, Zenon
<1>20. Upstream /\ Lines
  BY <1>9, <1>17, <1>19 DEF Upstream, Lines, Line
<1> QED BY <1>12, <1>13, <1>14, <1>15, <1>16, <1>18, <1>20 DEF Inv, Base, Order, Orderly

LEMMA SameRollback == SameGens => (RolledBack => RolledBack')
BY DEF SameGens, RolledBack

\* The steps of reload and shutdown that start nothing.
LEMMA InvCallers ==
  ASSUME Inv,
         \/ Reload \/ StopWait("reload") \/ StopChannels("reload") \/ ReloadFail
         \/ RestoreReturn \/ ShutdownCancel \/ ShutdownBus \/ ShutdownStop
         \/ StopWait("shutdown") \/ StopChannels("shutdown")
  PROVE  Inv'
<1>1. "reload" \in Callers /\ "shutdown" \in Callers /\ Base /\ Types
  BY DEF Callers, Inv, Base
<1>2. Base' /\ SameGens
  BY <1>1, BaseReload, BaseWaitEnds, BaseStopChannels, BaseReloadFail, BaseRestoreReturn,
     BaseShutdownCancel, BaseShutdownBus, BaseShutdownStop
<1>3. /\ UNCHANGED <<published, disp, queue, worker, sent>>
      /\ closed => closed' /\ (bus' = bus \/ bus' = <<>>)
  BY DEF Reload, StopWait, StopChannels, ReloadFail, RestoreReturn, ShutdownCancel, ShutdownBus,
         ShutdownStop
<1>4. bus' = bus \/ bus' = <<>>
  BY DEF Reload, StopWait, StopChannels, ReloadFail, RestoreReturn, ShutdownCancel, ShutdownBus,
         ShutdownStop
<1>5. Order'
  BY <1>1, <1>2, <1>3, <1>4, OrderFrame, SameRollback DEF Inv, Order
<1> QED BY <1>2, <1>5 DEF Inv

\* The candidate takes over.
LEMMA InvApply ==
  ASSUME Inv, ReloadApply
  PROVE  Inv'
<1>1. PICK ok \in SUBSET Channels : Start(used, "root", ok)
  BY DEF ReloadApply
<1>2. /\ caller["reload"].pc = "start" /\ current' = used /\ MovesTo("reload", "idle")
      /\ UNCHANGED <<bus, closed, published, queue, notify, used, rootDone, sent>>
  BY DEF ReloadApply, MovesTo
<1>3. PICK g : g = Len(gens) + 1
  OBVIOUS
<1>4. PICK v : v = "idle"
  OBVIOUS
<1>5. Base /\ used \in Managers
  BY TypesUnmoved DEF Inv, Base
<1>6. Base'
  <2>1. PICK m : m = used
    OBVIOUS
  <2> QED BY <1>1, <1>2, <1>3, <1>4, <1>5, <2>1, BaseStart
<1>7. CASE RolledBack
  <2>1. \A h \in DOMAIN gens : gens'[h] = gens[h] /\ h \in DOMAIN gens'
    <3>1. PICK m : m = used
      OBVIOUS
    <3> QED BY <1>1, <1>5, <3>1, StartKeeps DEF Base
  <2> QED BY <1>6, <1>7, <2>1 DEF Inv, Order, RolledBack
<1>8. CASE ~RolledBack
  <2>1. Orderly
    BY <1>8 DEF Inv, Order
  <2> QED BY <1>1, <1>2, <1>3, <1>5, <1>6, <2>1, OrderStart DEF Inv, Order
<1> QED BY <1>7, <1>8

\* A rollback: the exception of InOrder.
LEMMA InvRestore ==
  ASSUME Inv, Restore
  PROVE  Inv'
<1>1. /\ caller["reload"].pc = "restore" /\ MovesTo("reload", "return")
      /\ UNCHANGED <<bus, closed, published, queue, notify, current, used, rootDone, sent>>
  BY DEF Restore, MovesTo
<1>2. Base /\ current \in Managers /\ "reload" \in Callers /\ "shutdown" \in Callers
      /\ Callers = {"reload", "shutdown"} /\ Types
  BY CallerType DEF Inv, Base, Callers
<1>3. CASE \E ok \in SUBSET Channels : Start(current, "restore", ok)
  <2>1. PICK ok \in SUBSET Channels : Start(current, "restore", ok)
    BY <1>3
  <2>2. PICK g : g = Len(gens) + 1
    OBVIOUS
  <2>3. PICK m : m = current
    OBVIOUS
  <2>4. PICK v : v = "return"
    OBVIOUS
  <2>5. PICK parent : parent = "restore"
    OBVIOUS
  <2>6. Base'
    BY <1>1, <1>2, <2>1, <2>2, <2>3, <2>4, <2>5, BaseStart
  <2>7. g \in DOMAIN gens' /\ gens'[g].parent = "restore"
    BY <1>2, <2>1, <2>2, <2>3, <2>5, StartKeeps
  <2> QED BY <2>6, <2>7 DEF Inv, Order, RolledBack
<1>4. CASE UNCHANGED <<registry, disp, worker>>
  <2>1. UNCHANGED <<gens, workers, task, platform, disp, worker>>
    BY <1>4 DEF registry
  <2>2. /\ caller'["reload"].pc = "return" /\ caller'["reload"].mgr = caller["reload"].mgr
        /\ caller'["reload"].waits = caller["reload"].waits
        /\ caller'["shutdown"] = caller["shutdown"]
    <3>1. PICK r : r = caller'["reload"]
      OBVIOUS
    <3>2. PICK v : v = "return"
      OBVIOUS
    <3> QED BY <1>1, <1>2, <3>1, <3>2, CallerMoves
  <2>3. Callings'
    BY <1>1, <1>2, <2>1, <2>2 DEF Base, Callings
  <2>4. closed' \in BOOLEAN /\ rootDone' \in BOOLEAN
    BY <1>1, <1>2, TypesUnmoved
  <2>5. Base' /\ SameGens
    BY <1>1, <1>2, <2>1, <2>3, <2>4, BaseMoves
  <2>6. Order'
    BY <1>1, <1>2, <2>1, <2>5, OrderFrame, SameRollback DEF Inv, Order
  <2> QED BY <2>5, <2>6 DEF Inv
<1> QED BY <1>3, <1>4 DEF Restore

LEMMA InvWorkers ==
  ASSUME Inv, NEW g \in DOMAIN gens, NEW c \in Channels, Worker(g, c)
  PROVE  Inv'
<1>1. Base' /\ Base /\ Types
  BY BaseWorker DEF Inv, Base
<1>2. UNCHANGED gens
  BY DEF Worker, Take, WorkerExit, Admit, Deliver, SendFails, BackoffEnds, Others, registry
<1>3. RolledBack => RolledBack'
  BY <1>2 DEF RolledBack
<1>4. ASSUME Orderly PROVE Orderly'
  <2>1. CASE Take(g, c)
    BY <1>1, <1>4, <2>1, OrderTake
  <2>2. CASE \/ WorkerExit(g, c) \/ Admit(g, c) \/ SendFails(g, c) \/ BackoffEnds(g, c)
             \/ Deliver(g, c)
    <3>1. PICK w \in WorkerStates : StepTo(g, c, w) /\ Shows(g, c, w)
      BY <1>1, <2>2, WorkStep
    <3>2. UNCHANGED <<Others, queue>>
      BY <2>2 DEF WorkerExit, Admit, SendFails, BackoffEnds, Deliver
    <3> QED BY <1>1, <1>4, <3>1, <3>2, OrderWork
  <2> QED BY <2>1, <2>2 DEF Worker
<1> QED BY <1>1, <1>3, <1>4 DEF Inv, Order

LEMMA InvDispatchers ==
  ASSUME Inv, NEW g \in DOMAIN gens, Dispatcher(g)
  PROVE  Inv'
<1>1. Base' /\ Base /\ Types /\ Registry /\ (closed => bus = <<>>)
  BY BaseDispatcher DEF Inv, Base, Callings
<1>2. UNCHANGED gens
  BY DEF Dispatcher, Receive, DispatchExit, Look, Push, registry
<1>3. RolledBack => RolledBack'
  BY <1>2 DEF RolledBack
<1>4. ASSUME Orderly PROVE Orderly'
  BY <1>1, <1>4, OrderReceive, OrderLook, OrderPush DEF Dispatcher
<1> QED BY <1>1, <1>3, <1>4 DEF Inv, Order

LEMMA InvProducers ==
  ASSUME Inv, NEW x \in Messages, Publish(x) \/ NotifyLook(x) \/ NotifyPush(x)
  PROVE  Inv'
<1>1. Base' /\ Base /\ Types
  BY BaseProducer DEF Inv, Base
<1>2. UNCHANGED gens
  BY DEF Publish, NotifyLook, NotifyPush, registry
<1>3. RolledBack => RolledBack'
  BY <1>2 DEF RolledBack
<1>4. ASSUME Orderly PROVE Orderly'
  BY <1>1, <1>4, OrderPublish, OrderNotifyLook, OrderNotifyPush
<1> QED BY <1>1, <1>3, <1>4 DEF Inv, Order

LEMMA InvNext == Inv /\ [Next]_vars => Inv'
<1> SUFFICES ASSUME Inv, [Next]_vars PROVE Inv'
  OBVIOUS
<1>1. CASE UNCHANGED vars
  <2>1. UNCHANGED <<bus, closed, published, gens, disp, worker, queue, workers, task,
                    platform, notify, caller, current, used, rootDone, sent>>
    BY <1>1 DEF vars
  <2>2. Types' /\ SameGens
    BY <2>1 DEF Inv, Base, Types, TypeOK, Holds, Sending, SameGens
  <2>3. closed => bus' = <<>>
    BY <2>1 DEF Inv, Base, Callings
  <2>4. \A g \in DOMAIN gens, c \in Channels : Alive(g, c)' => Alive(g, c)
    BY <2>1 DEF Alive
  <2>5. Base'
    BY <2>1, <2>2, <2>3, <2>4, BaseQuiet DEF Inv, registry, callers
  <2>6. Order'
    BY <2>1, <2>2, OrderFrame, SameRollback DEF Inv, Base, Order
  <2> QED BY <2>5, <2>6 DEF Inv
<1>2. CASE Reload \/ ReloadSteps \/ ShutdownCancel \/ ShutdownSteps
  BY <1>2, InvCallers, InvApply, InvRestore DEF ReloadSteps, ShutdownSteps
<1>3. ASSUME NEW x \in Messages, Publish(x) \/ NotifyLook(x) \/ NotifyPush(x) PROVE Inv'
  BY <1>3, InvProducers
<1>4. ASSUME NEW g \in DOMAIN gens, Dispatcher(g) \/ \E c \in Channels : Worker(g, c) PROVE Inv'
  BY <1>4, InvDispatchers, InvWorkers
<1> QED BY <1>1, <1>2, <1>3, <1>4 DEF Next

\* The invariant holds in every behaviour.
THEOREM Invariance == Spec => []Inv
BY InvInit, InvNext, PTL DEF Spec

\* Every field keeps its type, and no worker's queue is ever over its capacity.
THEOREM TypeCorrect == Spec => []TypeOK
<1>1. Inv => TypeOK
  BY DEF Inv, Base, Types
<1> QED BY <1>1, Invariance, PTL

\* A chat reads the answers in the order they were published, and a piece again
\* only from a later attempt at it while every earlier one went unanswered: neither
\* a reload nor the workers and the dispatcher a reload or a shutdown leaves behind
\* duplicate or overtake, unless a reload was rolled back (manager_dispatch.go,
\* manager_send.go:50-129).
THEOREM DeliveredInOrder == Spec => []InOrder
<1>1. Inv => InOrder
  BY DEF Inv, Order, Orderly, Lines, Line, InOrder, Alive, Sending
<1> QED BY <1>1, Invariance, PTL

\* StopAll stops a channel only when no worker is in the middle of a send on it,
\* except in a shutdown that meets a reload under way or failed
\* (manager_lifecycle.go:196-262).
THEOREM ChannelsStopQuietly == Spec => QuietStop
<1>1. ASSUME Inv, [Next]_vars
      PROVE  [\A g \in DOMAIN gens, c \in Channels :
                platform[gens[g].mgr][c] /\ ~platform'[gens[g].mgr][c] /\ Sending(g, c)
                  => rootDone /\ used # current]_vars
  <2> SUFFICES ASSUME Next, NEW g \in DOMAIN gens, NEW c \in Channels,
                      platform[gens[g].mgr][c], ~platform'[gens[g].mgr][c], Sending(g, c)
               PROVE  rootDone /\ used # current
    BY <1>1
  <2> DEFINE m == gens[g].mgr
  <2>1. /\ Base /\ Types /\ m \in Managers /\ g # None
        /\ "reload" \in Callers /\ "shutdown" \in Callers /\ Callers = {"reload", "shutdown"}
    BY <1>1, Cell DEF Inv, Base, Callers, None, Gens
  <2>2. platform \in [Managers -> [Channels -> BOOLEAN]]
    BY <2>1, TypesUnmoved
  <2>3. PICK p \in Callers : StopChannels(p) /\ caller[p].mgr = m
    <3>1. /\ ~ \E ok \in (SUBSET Channels) \ {{}} : Start(used, "root", ok)
          /\ ~ \E ok \in (SUBSET Channels) \ {{}} : Start(current, "restore", ok)
      <4>1. ASSUME NEW n, NEW parent, NEW ok, Start(n, parent, ok)
            PROVE  FALSE
        BY <2>1, <2>2, <4>1 DEF Start
      <4> QED BY <4>1
    <3>2. platform' # platform
      OBVIOUS
    <3>3. StopChannels("reload") \/ StopChannels("shutdown")
      <4>1. ReloadSteps => StopChannels("reload")
        <5>1. ~ReloadApply /\ (Restore => platform' = platform)
          BY <3>1 DEF ReloadApply, Restore, registry
        <5>2. StopWait("reload") \/ ReloadFail \/ RestoreReturn => platform' = platform
          BY DEF StopWait, ReloadFail, RestoreReturn, registry
        <5> QED BY <3>2, <5>1, <5>2 DEF ReloadSteps
      <4>2. ShutdownSteps => StopChannels("shutdown")
        BY <3>2 DEF ShutdownSteps, ShutdownBus, ShutdownStop, StopCancel, StopWait, registry
      <4>3. ~Reload /\ ~ShutdownCancel
        BY <3>2 DEF Reload, StopCancel, ShutdownCancel
      <4>4. ASSUME NEW x, Publish(x) \/ NotifyLook(x) \/ NotifyPush(x)
            PROVE  platform' = platform
        BY <4>4 DEF Publish, NotifyLook, NotifyPush, registry
      <4>5. ASSUME NEW h, Dispatcher(h)
            PROVE  platform' = platform
        BY <4>5 DEF Dispatcher, Receive, DispatchExit, Look, Push, registry
      <4>6. ASSUME NEW h, NEW d, Worker(h, d)
            PROVE  platform' = platform
        BY <4>6 DEF Worker, Take, WorkerExit, Admit, Deliver, SendFails, BackoffEnds,
           Others, registry
      <4> QED BY <3>2, <4>1, <4>2, <4>3, <4>4, <4>5, <4>6 DEF Next
    <3> QED BY <2>1, <2>2, <3>3 DEF StopChannels
  <2>4. caller[p].pc = "close" /\ Alive(g, c)
    BY <2>3 DEF StopChannels, Alive, Sending
  <2>5. workers[m][c] = g \/ WaitedFor(g, c)
    BY <2>1, <2>4 DEF Base, Tracked
  <2>6. CASE p = "reload"
    <3>1. used # current /\ m = current /\ workers[m][c] = None
      BY <2>1, <2>3, <2>4, <2>6 DEF Base, Callings, NoWorkers
    <3>2. caller["shutdown"].pc = "wait"
      BY <2>1, <2>4, <2>5, <2>6, <3>1 DEF WaitedFor
    <3> QED BY <2>1, <3>1, <3>2 DEF Base, Callings
  <2>7. CASE p = "shutdown"
    <3>1. rootDone
      BY <2>1, <2>4, <2>7 DEF Base, Callings
    <3>2. CASE workers[m][c] = g
      <4>1. m = current /\ workers[current] # NoWorkers
        BY <2>1, <3>2 DEF Base, Registry, NoWorkers
      <4> QED BY <2>1, <2>3, <2>4, <2>7, <3>1, <4>1 DEF Base, Callings
    <3>3. CASE WaitedFor(g, c)
      <4>1. caller["reload"].pc = "wait"
        BY <2>1, <2>4, <2>7, <3>3 DEF WaitedFor
      <4> QED BY <2>1, <3>1, <4>1 DEF Base, Callings
    <3> QED BY <2>5, <3>2, <3>3
  <2> QED BY <2>1, <2>6, <2>7
<1> QED BY <1>1, Invariance, PTL DEF Spec, QuietStop

=============================================================================
