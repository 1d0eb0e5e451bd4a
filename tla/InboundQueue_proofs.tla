------------------------- MODULE InboundQueue_proofs -------------------------
(***************************************************************************)
(* Proofs about InboundQueue for every set of messages, keys and jobs and  *)
(* every capacity.  The inductive invariant Inv gives the types, the       *)
(* lengths of the channels, which goroutines hold a message, that answers  *)
(* belong to runs that resolved a session, and the count of run tokens;    *)
(* OrderInv has the order of the messages, on which the refinement of      *)
(* SessionQueues rests.                                                    *)
(***************************************************************************)
EXTENDS InboundQueue, FiniteSetTheorems, SequenceTheorems, TLAPS

Holding == {"route", "steer", "send"}
Busy == {"taken", "sem", "run", "reply", "release"}

\* The types of the variables, without the capacities and the token count.
Types ==
  /\ inbound \in Seq(Msg)
  /\ closing \in {"open", "flagged", "draining", "drained"}
  /\ ctxDone \in BOOLEAN /\ running \in BOOLEAN /\ queue \in BOOLEAN
  /\ disp \in [at : DispPlaces, msg : Msg \cup {NoMsg}]
  /\ ch \in [Key -> Seq(Msg)]
  /\ steer \in [Key -> Seq(Msg)]
  /\ active \in [Key -> BOOLEAN]
  /\ worker \in [Key -> WorkerPlaces]
  /\ wmsg \in [Key -> Msg \cup {NoMsg}]
  /\ iter \in [Key -> 0..MaxIter]
  /\ sem \in Nat
  /\ job \in [Job -> {"idle", "run", "done"}]
  /\ session \in [Source -> Key \cup {NoQuote}]
  /\ answer \in [Source -> {"none", "queued", "shown", "lost", "silent"}]
  /\ fate \in [Msg -> Fates]
  /\ acc \in [Msg -> Nat]

Capacities ==
  /\ Len(inbound) <= InboundCap
  /\ \A k \in Key : Len(ch[k]) <= SessionCap
  /\ \A k \in Key : Len(steer[k]) <= SteerCap

\* The dispatcher and the workers hold a message exactly where they work on one.
Hands ==
  /\ disp.at \in Holding \cup {"inline"} => disp.msg \in Msg
  /\ \A k \in Key : worker[k] \in Busy <=> wmsg[k] # NoMsg

\* Answers exist only for runs that resolved a session.
Sessions ==
  /\ \A k \in Key : worker[k] \in InRun => session[wmsg[k]] \in Key
  /\ disp.at = "inline" => session[disp.msg] \in Key
  /\ \A j \in Job : job[j] = "run" => session[j] \in Key
  /\ \A s \in Source : answer[s] \in {"queued", "shown"} => session[s] \in Key

Inv == Types /\ Capacities /\ Hands /\ Sessions /\ ConcurrencyBound

USE DEF busUnchanged, loopUnchanged, runUnchanged, Fates, DispPlaces, WorkerPlaces, InRun, Source

-----------------------------------------------------------------------------
(* Types.                                                                   *)

\* A resolved session is a key: reply contexts only carry resolved sessions.
LEMMA ResolveSessionType ==
  ASSUME Types, Sessions, NEW m \in Msg
  PROVE  ResolveSession(m) \in Key
BY InboundQueueAssumption DEF Types, Sessions, ResolveSession

\* The number of accepted messages is a number: Msg is finite.
LEMMA NumAcceptedType == NumAccepted \in Nat
<1>1. IsFiniteSet({m \in Msg : acc[m] # 0})
  BY InboundQueueAssumption, FS_Subset
<1>2. QED
  BY <1>1, FS_CardinalityType DEF NumAccepted

Answers == {"none", "queued", "shown", "lost", "silent"}

\* PublishOutbound changes the answer of its run and no other variable's type.
LEMMA AnswerType ==
  ASSUME Types, NEW s \in Source, Answer(s)
  PROVE  answer' \in [Source -> Answers]
<1>1. PICK a \in Answers : answer' = [answer EXCEPT ![s] = a]
  BY DEF Answer, Answers
<1>2. QED
  BY <1>1 DEF Types, Answers

\* A worker at release holds a token.
LEMMA HolderPositive ==
  ASSUME Types, ConcurrencyBound, NEW k \in Holders
  PROVE  sem \in Nat \ {0}
<1>1. IsFiniteSet(Holders)
  BY InboundQueueAssumption, FS_Subset DEF Holders
<1>2. Cardinality(Holders) # 0
  BY <1>1, FS_EmptySet
<1>3. QED
  BY <1>2 DEF Types, ConcurrencyBound

\* The variables keep their types in every step.
LEMMA TypesStep == Inv /\ [Next]_vars => Types'
<1> SUFFICES ASSUME Inv, [Next]_vars PROVE Types'
  OBVIOUS
<1> USE InboundQueueAssumption
<1>0. Types /\ Hands /\ Sessions /\ ConcurrencyBound
  BY DEF Inv
<1>1. ASSUME NEW m \in Msg, PublishCheck(m) PROVE Types'
  BY <1>0, <1>1 DEF Types, PublishCheck
<1>2. ASSUME NEW m \in Msg, PublishSend(m) PROVE Types'
  BY <1>0, <1>2, NumAcceptedType DEF Types, PublishSend
<1>3. ASSUME NEW m \in Msg, PublishGiveUp(m) PROVE Types'
  BY <1>0, <1>3 DEF Types, PublishGiveUp
<1>4. ASSUME NEW s \in Source, Deliver(s) PROVE Types'
  BY <1>0, <1>4 DEF Types, Deliver
<1>5. ASSUME NEW j \in Job, JobBegin(j) PROVE Types'
  BY <1>0, <1>5 DEF Types, JobBegin
<1>6. ASSUME NEW j \in Job, JobEnd(j) PROVE Types'
  <2>1. answer' \in [Source -> Answers]
    <3>1. CASE Answer(j)
      BY <1>0, <3>1, AnswerType
    <3>2. CASE \E a \in {"lost", "silent"} : answer' = [answer EXCEPT ![j] = a]
      BY <1>0, <3>2 DEF Types, Answers
    <3>3. QED
      BY <1>6, <3>1, <3>2 DEF JobEnd
  <2>2. job' \in [Job -> {"idle", "run", "done"}]
    BY <1>0, <1>6 DEF Types, JobEnd
  <2>3. QED
    BY <1>0, <1>6, <2>1, <2>2 DEF Types, JobEnd, Answers
<1>7. ASSUME NEW k \in Key, WorkerTake(k) PROVE Types'
  <2>1. Head(ch[k]) \in Msg /\ Tail(ch[k]) \in Seq(Msg)
    BY <1>0, <1>7 DEF Types, WorkerTake
  <2>2. fate' \in [Msg -> Fates]
    BY <1>0, <1>7 DEF Types, WorkerTake
  <2>3. ch' \in [Key -> Seq(Msg)]
    <3>1. ch \in [Key -> Seq(Msg)] /\ ch' = [ch EXCEPT ![k] = Tail(ch[k])]
      BY <1>0, <1>7 DEF Types, WorkerTake
    <3>2. QED
      BY <2>1, <3>1
  <2>4. steer' \in [Key -> Seq(Msg)]
    BY <1>0, <1>7 DEF Types, WorkerTake
  <2>5. wmsg' \in [Key -> Msg \cup {NoMsg}] /\ worker' \in [Key -> WorkerPlaces]
    BY <1>0, <1>7, <2>1 DEF Types, WorkerTake
  <2>6. QED
    BY <1>0, <1>7, <2>2, <2>3, <2>4, <2>5 DEF Types, WorkerTake
<1>8. ASSUME NEW k \in Key, WorkerExit(k) PROVE Types'
  BY <1>0, <1>8 DEF Types, WorkerExit
<1>9. ASSUME NEW k \in Key, WorkerActivate(k) PROVE Types'
  BY <1>0, <1>9 DEF Types, WorkerActivate
<1>10. ASSUME NEW k \in Key, WorkerAcquire(k) PROVE Types'
  <2>1. wmsg[k] \in Msg
    BY <1>0, <1>10 DEF Types, Hands, Busy, WorkerAcquire
  <2>2. ResolveSession(wmsg[k]) \in Key
    BY <1>0, <2>1, ResolveSessionType
  <2>3. session' \in [Source -> Key \cup {NoQuote}]
    BY <1>0, <1>10, <2>2 DEF Types, WorkerAcquire
  <2>4. worker' \in [Key -> WorkerPlaces] /\ iter' \in [Key -> 0..MaxIter] /\ sem' \in Nat
    BY <1>0, <1>10 DEF Types, WorkerAcquire
  <2>5. QED
    BY <1>0, <1>10, <2>3, <2>4 DEF Types, WorkerAcquire
<1>11. ASSUME NEW k \in Key, RunIterate(k) PROVE Types'
  <2>1. iter' \in [Key -> 0..MaxIter]
    BY <1>0, <1>11 DEF Types, RunIterate
  <2>2. steer' \in [Key -> Seq(Msg)] /\ fate' \in [Msg -> Fates]
    BY <1>0, <1>11 DEF Types, RunIterate
  <2>3. QED
    BY <1>0, <1>11, <2>1, <2>2 DEF Types, RunIterate
<1>12. ASSUME NEW k \in Key, RunEnd(k) PROVE Types'
  <2>1. wmsg[k] \in Msg
    BY <1>0, <1>12 DEF Types, Hands, Busy, RunEnd
  <2>2. answer' \in [Source -> Answers]
    BY <1>0, <1>12, <2>1 DEF Types, RunEnd, Answers
  <2>3. iter' \in [Key -> 0..MaxIter]
    BY <1>0, <1>12 DEF Types, RunEnd
  <2>4. PICK p \in {"reply", "release"} : worker' = [worker EXCEPT ![k] = p]
    BY <1>12 DEF RunEnd
  <2>5. worker' \in [Key -> WorkerPlaces]
    BY <1>0, <2>4 DEF Types
  <2>6. QED
    BY <1>0, <1>12, <2>2, <2>3, <2>5 DEF Types, RunEnd, Answers
<1>13. ASSUME NEW k \in Key, RunReply(k) PROVE Types'
  <2>1. wmsg[k] \in Source
    BY <1>0, <1>13 DEF Types, Hands, Busy, RunReply
  <2>2. answer' \in [Source -> Answers]
    BY <1>0, <1>13, <2>1, AnswerType DEF RunReply
  <2>3. worker' \in [Key -> WorkerPlaces]
    BY <1>0, <1>13 DEF Types, RunReply
  <2>4. QED
    BY <1>0, <1>13, <2>2, <2>3 DEF Types, RunReply, Answers
<1>14. ASSUME NEW k \in Key, WorkerRelease(k) PROVE Types'
  <2>1. k \in Holders
    BY <1>14 DEF Holders, WorkerRelease
  <2>2. sem - 1 \in Nat
    BY <1>0, <2>1, HolderPositive
  <2>3. /\ fate' \in [Msg -> Fates] /\ worker' \in [Key -> WorkerPlaces]
        /\ wmsg' \in [Key -> Msg \cup {NoMsg}]
    BY <1>0, <1>14 DEF Types, WorkerRelease
  <2>4. QED
    BY <1>0, <1>14, <2>2, <2>3 DEF Types, WorkerRelease
<1>15. ASSUME NEW k \in Key, WorkerDeactivate(k) PROVE Types'
  BY <1>0, <1>15 DEF Types, WorkerDeactivate
<1>16. ASSUME DispConsume PROVE Types'
  <2>1. Head(inbound) \in Msg /\ Tail(inbound) \in Seq(Msg)
    BY <1>0, <1>16 DEF Types, DispConsume
  <2>2. inbound' \in Seq(Msg) /\ disp' \in [at : DispPlaces, msg : Msg \cup {NoMsg}]
    BY <1>16, <2>1 DEF DispConsume, Take
  <2>3. fate' \in [Msg -> Fates] /\ worker' \in [Key -> WorkerPlaces]
    BY <1>0, <1>16, <2>1 DEF Types, DispConsume
  <2>4. QED
    BY <1>0, <1>16, <2>2, <2>3 DEF Types, DispConsume
<1>17. ASSUME DispReturn PROVE Types'
  BY <1>0, <1>17 DEF Types, DispReturn
<1>18. ASSUME DispRoute PROVE Types'
  BY <1>0, <1>18 DEF Types, DispRoute
<1>19. ASSUME DispSteer PROVE Types'
  <2>1. disp.msg \in Msg /\ Bucket[disp.msg] \in Key
    BY <1>0, <1>19 DEF Hands, Holding, DispSteer
  <2>2. UNCHANGED <<ctxDone, running, queue, acc, ch, active, worker, wmsg, iter, sem>>
    BY <1>19 DEF DispSteer
  <2>3. busUnchanged /\ runUnchanged
    BY <1>19 DEF DispSteer
  <2>4. CASE Len(steer[Bucket[disp.msg]]) < SteerCap
    <3>1. /\ steer' = [steer EXCEPT ![Bucket[disp.msg]] = Append(@, disp.msg)]
          /\ fate' = [fate EXCEPT ![disp.msg] = "steer"]
          /\ disp' = [at |-> "consume", msg |-> NoMsg]
      BY <1>19, <2>4 DEF DispSteer
    <3>2. steer' \in [Key -> Seq(Msg)]
      BY <1>0, <2>1, <3>1 DEF Types
    <3>3. fate' \in [Msg -> Fates] /\ disp' \in [at : DispPlaces, msg : Msg \cup {NoMsg}]
      BY <1>0, <3>1 DEF Types
    <3>4. QED
      BY <1>0, <2>2, <2>3, <3>2, <3>3 DEF Types
  <2>5. CASE ~(Len(steer[Bucket[disp.msg]]) < SteerCap)
    <3>1. disp' = [disp EXCEPT !.at = "send"] /\ UNCHANGED <<steer, fate>>
      BY <1>19, <2>5 DEF DispSteer
    <3>2. disp' \in [at : DispPlaces, msg : Msg \cup {NoMsg}]
      BY <1>0, <3>1 DEF Types
    <3>3. QED
      BY <1>0, <2>2, <2>3, <3>1, <3>2 DEF Types
  <2>6. QED
    BY <2>4, <2>5
<1>20. ASSUME DispSend PROVE Types'
  <2>1. disp.msg \in Msg /\ Bucket[disp.msg] \in Key
    BY <1>0, <1>20 DEF Hands, Holding, DispSend
  <2>2. ch' \in [Key -> Seq(Msg)]
    <3>1. /\ ch \in [Key -> Seq(Msg)]
          /\ ch' = [ch EXCEPT ![Bucket[disp.msg]] = Append(@, disp.msg)]
      BY <1>0, <1>20 DEF Types, DispSend
    <3>2. QED
      BY <2>1, <3>1
  <2>3. fate' \in [Msg -> Fates] /\ disp' \in [at : DispPlaces, msg : Msg \cup {NoMsg}]
    BY <1>0, <1>20 DEF Types, DispSend
  <2>4. QED
    BY <1>0, <1>20, <2>2, <2>3 DEF Types, DispSend
<1>21. ASSUME InlineBegin PROVE Types'
  <2>1. Head(inbound) \in Msg
    BY <1>0, <1>21 DEF Types, InlineBegin
  <2>2. ResolveSession(Head(inbound)) \in Key
    BY <1>0, <2>1, ResolveSessionType
  <2>3. inbound' \in Seq(Msg) /\ disp' \in [at : DispPlaces, msg : Msg \cup {NoMsg}]
    BY <1>0, <1>21, <2>1 DEF Types, InlineBegin, Take
  <2>4. fate' \in [Msg -> Fates] /\ session' \in [Source -> Key \cup {NoQuote}]
    BY <1>0, <1>21, <2>1, <2>2 DEF Types, InlineBegin
  <2>5. QED
    BY <1>0, <1>21, <2>3, <2>4 DEF Types, InlineBegin
<1>22. ASSUME InlineEnd PROVE Types'
  <2>1. disp.msg \in Msg
    BY <1>0, <1>22 DEF Hands, InlineEnd
  <2>2. answer' \in [Source -> Answers]
    <3>1. CASE Answer(disp.msg)
      BY <1>0, <2>1, <3>1, AnswerType
    <3>2. CASE answer' = [answer EXCEPT ![disp.msg] = "silent"]
      BY <1>0, <2>1, <3>2 DEF Types, Answers
    <3>3. QED
      BY <1>22, <3>1, <3>2 DEF InlineEnd
  <2>3. QED
    BY <1>0, <1>22, <2>1, <2>2 DEF Types, InlineEnd, Answers
<1>23. ASSUME Cancel PROVE Types'
  BY <1>0, <1>23 DEF Types, Cancel
<1>24. ASSUME CloseFlag PROVE Types'
  BY <1>0, <1>24 DEF Types, CloseFlag
<1>25. ASSUME CloseDone PROVE Types'
  BY <1>0, <1>25 DEF Types, CloseDone
<1>26. ASSUME CloseDrain PROVE Types'
  <2>1. CASE inbound = <<>>
    BY <1>0, <1>26, <2>1 DEF Types, CloseDrain
  <2>2. CASE inbound # <<>>
    <3>1. /\ inbound' = Tail(inbound) /\ UNCHANGED <<closing, answer>>
          /\ fate' = [fate EXCEPT ![Head(inbound)] = "drained"]
      BY <1>26, <2>2 DEF CloseDrain
    <3>2. inbound' \in Seq(Msg)
      BY <1>0, <2>2, <3>1 DEF Types
    <3>3. fate' \in [Msg -> Fates]
      BY <1>0, <3>1 DEF Types
    <3>4. UNCHANGED <<ctxDone, running, queue, acc, job, session>> /\ loopUnchanged
      BY <1>26 DEF CloseDrain
    <3>5. QED
      BY <1>0, <3>1, <3>2, <3>3, <3>4 DEF Types
  <2>3. QED
    BY <2>1, <2>2
<1>27. ASSUME Stop PROVE Types'
  BY <1>0, <1>27 DEF Types, Stop
<1>28. CASE UNCHANGED vars
  BY <1>0, <1>28 DEF Types, vars
<1>29. QED
  BY <1>1, <1>2, <1>3, <1>4, <1>5, <1>6, <1>7, <1>8, <1>9, <1>10, <1>11, <1>12,
     <1>13, <1>14, <1>15, <1>16, <1>17, <1>18, <1>19, <1>20, <1>21, <1>22, <1>23,
     <1>24, <1>25, <1>26, <1>27, <1>28
  DEF Next, Publisher, Worker, Dispatcher, Shutdown

\* Every initial state satisfies the invariant: nothing is queued or running.
LEMMA InitInv == Init => Inv
<1> SUFFICES ASSUME Init PROVE Inv
  OBVIOUS
<1> USE InboundQueueAssumption
<1>1. Types
  <2>1. inbound \in Seq(Msg) /\ ch \in [Key -> Seq(Msg)] /\ steer \in [Key -> Seq(Msg)]
    BY DEF Init
  <2>2. session \in [Source -> Key \cup {NoQuote}] /\ iter \in [Key -> 0..MaxIter]
    BY DEF Init
  <2>3. QED
    BY <2>1, <2>2 DEF Init, Types
<1>2. Capacities
  BY DEF Init, Capacities
<1>3. Hands
  BY DEF Init, Hands, Holding, Busy
<1>4. Sessions
  BY DEF Init, Sessions
<1>5. ConcurrencyBound
  <2>1. Holders = {}
    BY DEF Init, Holders
  <2>2. QED
    BY <2>1, FS_EmptySet DEF Init, ConcurrencyBound
<1>6. QED
  BY <1>1, <1>2, <1>3, <1>4, <1>5 DEF Inv

-----------------------------------------------------------------------------
(* Capacities: every send is guarded by the room left in its channel.       *)

LEMMA CapacitiesStep == Inv /\ [Next]_vars => Capacities'
<1> SUFFICES ASSUME Inv, [Next]_vars PROVE Capacities'
  OBVIOUS
<1> USE InboundQueueAssumption
<1>0. Types /\ Capacities /\ Hands
  BY DEF Inv
<1>1. ASSUME UNCHANGED <<inbound, ch, steer>> PROVE Capacities'
  BY <1>0, <1>1 DEF Capacities
<1>2. ASSUME NEW m \in Msg, PublishSend(m) PROVE Capacities'
  BY <1>0, <1>2 DEF Types, Capacities, PublishSend
<1>3. ASSUME CloseDrain PROVE Capacities'
  BY <1>0, <1>3 DEF Types, Capacities, CloseDrain
<1>4. ASSUME DispConsume PROVE Capacities'
  BY <1>0, <1>4 DEF Types, Capacities, DispConsume, Take
<1>5. ASSUME InlineBegin PROVE Capacities'
  BY <1>0, <1>5 DEF Types, Capacities, InlineBegin, Take
<1>6. ASSUME DispSteer PROVE Capacities'
  <2>1. disp.msg \in Msg /\ Bucket[disp.msg] \in Key
    BY <1>0, <1>6 DEF Hands, Holding, DispSteer
  <2>2. inbound' = inbound /\ ch' = ch
    BY <1>6 DEF DispSteer
  <2>3. CASE Len(steer[Bucket[disp.msg]]) < SteerCap
    <3>1. steer' = [steer EXCEPT ![Bucket[disp.msg]] = Append(@, disp.msg)]
      BY <1>6, <2>3 DEF DispSteer
    <3>2. \A k \in Key : Len(steer'[k]) <= SteerCap
      BY <1>0, <2>1, <2>3, <3>1 DEF Types, Capacities
    <3>3. QED
      BY <1>0, <2>2, <3>2 DEF Capacities
  <2>4. CASE ~(Len(steer[Bucket[disp.msg]]) < SteerCap)
    <3>1. steer' = steer
      BY <1>6, <2>4 DEF DispSteer
    <3>2. QED
      BY <1>0, <2>2, <3>1 DEF Capacities
  <2>5. QED
    BY <2>3, <2>4
<1>7. ASSUME DispSend PROVE Capacities'
  BY <1>0, <1>7 DEF Types, Capacities, Hands, Holding, DispSend
<1>8. ASSUME NEW k \in Key, WorkerTake(k) PROVE Capacities'
  <2>1. /\ inbound' = inbound /\ ch[k] # <<>>
        /\ ch' = [ch EXCEPT ![k] = Tail(@)] /\ steer' = [steer EXCEPT ![k] = <<>>]
    BY <1>8 DEF WorkerTake
  <2>2. \A l \in Key : Len(ch'[l]) <= SessionCap
    BY <1>0, <2>1 DEF Types, Capacities
  <2>3. \A l \in Key : Len(steer'[l]) <= SteerCap
    BY <1>0, <2>1 DEF Types, Capacities
  <2>4. QED
    BY <1>0, <2>1, <2>2, <2>3 DEF Capacities
<1>9. ASSUME NEW k \in Key, RunIterate(k) PROVE Capacities'
  BY <1>0, <1>9 DEF Types, Capacities, RunIterate
<1>10. ASSUME NEW m \in Msg, Publisher(m) PROVE Capacities'
  BY <1>10, <1>1, <1>2 DEF Publisher, PublishCheck, PublishGiveUp
<1>11. ASSUME NEW s \in Source, Deliver(s) PROVE Capacities'
  BY <1>11, <1>1 DEF Deliver
<1>12. ASSUME NEW j \in Job, JobBegin(j) \/ JobEnd(j) PROVE Capacities'
  BY <1>12, <1>1 DEF JobBegin, JobEnd
<1>13. ASSUME NEW k \in Key, Worker(k) PROVE Capacities'
  BY <1>13, <1>1, <1>8, <1>9 DEF Worker, WorkerExit, WorkerActivate, WorkerAcquire,
     RunEnd, RunReply, WorkerRelease, WorkerDeactivate
<1>14. ASSUME Dispatcher PROVE Capacities'
  BY <1>14, <1>1, <1>4, <1>5, <1>6, <1>7 DEF Dispatcher, DispReturn, DispRoute, InlineEnd
<1>15. ASSUME Shutdown PROVE Capacities'
  BY <1>15, <1>1, <1>3 DEF Shutdown, Cancel, CloseFlag, CloseDone, Stop
<1>16. CASE UNCHANGED vars
  BY <1>16, <1>1 DEF vars
<1>17. QED
  BY <1>10, <1>11, <1>12, <1>13, <1>14, <1>15, <1>16 DEF Next

-----------------------------------------------------------------------------
(* Hands: who works on a message holds one.                                 *)

LEMMA HandsStep == Inv /\ [Next]_vars => Hands'
<1> SUFFICES ASSUME Inv, [Next]_vars PROVE Hands'
  OBVIOUS
<1> USE InboundQueueAssumption DEF Holding, Busy
<1>0. Types /\ Hands
  BY DEF Inv
<1>1. ASSUME UNCHANGED <<disp, worker, wmsg>> PROVE Hands'
  BY <1>0, <1>1 DEF Hands
<1>2. ASSUME UNCHANGED <<worker, wmsg>>,
             disp'.at \in Holding \cup {"inline"} => disp'.msg \in Msg
      PROVE  Hands'
  BY <1>0, <1>2 DEF Hands
<1>3. ASSUME UNCHANGED disp, NEW k \in Key, NEW p \in WorkerPlaces,
             worker' = [worker EXCEPT ![k] = p], UNCHANGED wmsg,
             worker[k] \in Busy <=> p \in Busy
      PROVE  Hands'
  BY <1>0, <1>3 DEF Types, Hands
<1>4. ASSUME DispConsume PROVE Hands'
  <2>1. Head(inbound) \in Msg /\ Bucket[Head(inbound)] \in Key
    BY <1>0, <1>4 DEF Types, DispConsume
  <2>2. disp' = [at |-> "route", msg |-> Head(inbound)] /\ wmsg' = wmsg
    BY <1>4 DEF DispConsume, Take
  <2>3. \A k \in Key : worker'[k] \in Busy <=> worker[k] \in Busy
    BY <1>0, <1>4, <2>1 DEF Types, DispConsume
  <2>4. QED
    BY <1>0, <2>1, <2>2, <2>3 DEF Hands
<1>5. ASSUME DispReturn PROVE Hands'
  BY <1>0, <1>2, <1>5 DEF Types, DispReturn
<1>6. ASSUME DispRoute PROVE Hands'
  BY <1>0, <1>2, <1>6 DEF Types, Hands, DispRoute
<1>7. ASSUME DispSteer PROVE Hands'
  <2>1. UNCHANGED <<worker, wmsg>> /\ disp.msg \in Msg
    BY <1>0, <1>7 DEF Hands, DispSteer
  <2>2. disp' = [at |-> "consume", msg |-> NoMsg] \/ disp' = [disp EXCEPT !.at = "send"]
    BY <1>7 DEF DispSteer
  <2>3. CASE disp' = [at |-> "consume", msg |-> NoMsg]
    BY <1>2, <2>1, <2>3
  <2>4. CASE disp' = [disp EXCEPT !.at = "send"]
    <3>1. disp'.msg = disp.msg
      BY <1>0, <2>4 DEF Types
    <3>2. QED
      BY <1>2, <2>1, <3>1
  <2>5. QED
    BY <2>2, <2>3, <2>4
<1>8. ASSUME DispSend PROVE Hands'
  BY <1>2, <1>8 DEF DispSend
<1>9. ASSUME InlineBegin PROVE Hands'
  BY <1>0, <1>2, <1>9 DEF Types, InlineBegin, Take
<1>10. ASSUME InlineEnd PROVE Hands'
  BY <1>2, <1>10 DEF InlineEnd
<1>11. ASSUME NEW k \in Key, WorkerTake(k) PROVE Hands'
  <2>1. Head(ch[k]) \in Msg
    BY <1>0, <1>11 DEF Types, WorkerTake
  <2>2. /\ disp' = disp /\ worker' = [worker EXCEPT ![k] = "taken"]
        /\ wmsg' = [wmsg EXCEPT ![k] = Head(ch[k])]
    BY <1>11 DEF WorkerTake
  <2>3. wmsg'[k] # NoMsg /\ worker'[k] \in Busy
    BY <1>0, <2>1, <2>2 DEF Types
  <2>4. \A l \in Key \ {k} : wmsg'[l] = wmsg[l] /\ worker'[l] = worker[l]
    BY <1>0, <2>2 DEF Types
  <2>5. QED
    BY <1>0, <2>2, <2>3, <2>4 DEF Hands
<1>12. ASSUME NEW k \in Key, WorkerExit(k) PROVE Hands'
  BY <1>3, <1>12 DEF WorkerExit
<1>13. ASSUME NEW k \in Key, WorkerActivate(k) PROVE Hands'
  BY <1>3, <1>13 DEF WorkerActivate
<1>14. ASSUME NEW k \in Key, WorkerAcquire(k) PROVE Hands'
  BY <1>3, <1>14 DEF WorkerAcquire
<1>15. ASSUME NEW k \in Key, RunIterate(k) PROVE Hands'
  BY <1>1, <1>15 DEF RunIterate
<1>16. ASSUME NEW k \in Key, RunEnd(k) PROVE Hands'
  <2>1. PICK p \in {"reply", "release"} : worker' = [worker EXCEPT ![k] = p]
    BY <1>16 DEF RunEnd
  <2>2. UNCHANGED <<disp, wmsg>> /\ worker[k] = "run"
    BY <1>16 DEF RunEnd
  <2>3. QED
    BY <1>3, <2>1, <2>2
<1>17. ASSUME NEW k \in Key, RunReply(k) PROVE Hands'
  BY <1>3, <1>17 DEF RunReply
<1>18. ASSUME NEW k \in Key, WorkerRelease(k) PROVE Hands'
  BY <1>0, <1>18 DEF Types, Hands, WorkerRelease
<1>19. ASSUME NEW k \in Key, WorkerDeactivate(k) PROVE Hands'
  BY <1>3, <1>19 DEF WorkerDeactivate
<1>20. ASSUME NEW m \in Msg, Publisher(m) PROVE Hands'
  BY <1>20, <1>1 DEF Publisher, PublishCheck, PublishSend, PublishGiveUp
<1>21. ASSUME NEW s \in Source, Deliver(s) PROVE Hands'
  BY <1>21, <1>1 DEF Deliver
<1>22. ASSUME NEW j \in Job, JobBegin(j) \/ JobEnd(j) PROVE Hands'
  BY <1>22, <1>1 DEF JobBegin, JobEnd
<1>23. ASSUME NEW k \in Key, Worker(k) PROVE Hands'
  BY <1>23, <1>11, <1>12, <1>13, <1>14, <1>15, <1>16, <1>17, <1>18, <1>19 DEF Worker
<1>24. ASSUME Dispatcher PROVE Hands'
  BY <1>24, <1>4, <1>5, <1>6, <1>7, <1>8, <1>9, <1>10 DEF Dispatcher
<1>25. ASSUME Shutdown PROVE Hands'
  BY <1>25, <1>1 DEF Shutdown, Cancel, CloseFlag, CloseDone, CloseDrain, Stop
<1>26. CASE UNCHANGED vars
  BY <1>26, <1>1 DEF vars
<1>27. QED
  BY <1>20, <1>21, <1>22, <1>23, <1>24, <1>25, <1>26 DEF Next

-----------------------------------------------------------------------------
(* Sessions: an answer exists only for a run that resolved its session.     *)

LEMMA SessionsStep == Inv /\ [Next]_vars => Sessions'
<1> SUFFICES ASSUME Inv, [Next]_vars PROVE Sessions'
  OBVIOUS
<1> USE InboundQueueAssumption
<1>0. Types /\ Hands /\ Sessions
  BY DEF Inv
<1>1. ASSUME UNCHANGED <<disp, worker, wmsg, job, session, answer>> PROVE Sessions'
  BY <1>0, <1>1 DEF Sessions
\* A worker or the dispatcher moves on without a run to resolve.
<1>2. ASSUME UNCHANGED <<disp, job, session, answer>>,
             \A k \in Key : worker'[k] \in InRun => worker[k] \in InRun /\ wmsg'[k] = wmsg[k]
      PROVE  Sessions'
  BY <1>0, <1>2 DEF Sessions
<1>3. ASSUME UNCHANGED <<worker, wmsg, job, session, answer>>, disp'.at # "inline"
      PROVE  Sessions'
  BY <1>0, <1>3 DEF Sessions
\* A run that holds a session gets its answer.
<1>4. ASSUME NEW s \in Source, session[s] \in Key, UNCHANGED session,
             NEW a \in Answers, answer' = [answer EXCEPT ![s] = a]
      PROVE  \A r \in Source : answer'[r] \in {"queued", "shown"} => session'[r] \in Key
  BY <1>0, <1>4 DEF Types, Sessions
<1>5. ASSUME NEW s \in Source, Answer(s)
      PROVE  \E a \in Answers : answer' = [answer EXCEPT ![s] = a]
  BY <1>5 DEF Answer, Answers
<1>6. ASSUME NEW s \in Source, Deliver(s) PROVE Sessions'
  BY <1>0, <1>6 DEF Types, Sessions, Deliver
<1>7. ASSUME NEW j \in Job, JobBegin(j) PROVE Sessions'
  <2>1. /\ session' = [session EXCEPT ![j] = JobSession[j]] /\ JobSession[j] \in Key
        /\ UNCHANGED <<disp, worker, wmsg, answer>>
        /\ job' = [job EXCEPT ![j] = "run"]
    BY <1>7 DEF JobBegin
  <2>2. \A s \in Source : session[s] \in Key => session'[s] \in Key
    BY <1>0, <2>1 DEF Types
  <2>3. \A k \in Key : worker[k] \in InRun => wmsg[k] \in Source
    BY <1>0 DEF Types, Hands, Busy
  <2>4. \A i \in Job : job'[i] = "run" => session'[i] \in Key
    BY <1>0, <2>1 DEF Types, Sessions
  <2>5. disp.at = "inline" => disp.msg \in Source
    BY <1>0 DEF Hands
  <2>6. QED
    BY <1>0, <2>1, <2>2, <2>3, <2>4, <2>5 DEF Sessions
<1>8. ASSUME NEW j \in Job, JobEnd(j) PROVE Sessions'
  <2>1. PICK a \in Answers : answer' = [answer EXCEPT ![j] = a]
    BY <1>5, <1>8 DEF JobEnd, Answers
  <2>2. /\ UNCHANGED <<disp, worker, wmsg, session>> /\ session[j] \in Key
        /\ job' = [job EXCEPT ![j] = "done"]
    BY <1>0, <1>8 DEF Sessions, JobEnd
  <2>3. \A i \in Job : job'[i] = "run" => session'[i] \in Key
    BY <1>0, <2>2 DEF Types, Sessions
  <2>4. QED
    BY <1>0, <1>4, <2>1, <2>2, <2>3 DEF Sessions
<1>9. ASSUME CloseDrain PROVE Sessions'
  <2>1. UNCHANGED <<disp, worker, wmsg, job, session>>
    BY <1>9 DEF CloseDrain
  <2>2. \A s \in Source : answer'[s] \in {"queued", "shown"} => answer[s] \in {"queued", "shown"}
    BY <1>0, <1>9 DEF Types, CloseDrain
  <2>3. QED
    BY <1>0, <2>1, <2>2 DEF Sessions
<1>10. ASSUME DispConsume PROVE Sessions'
  <2>1. Head(inbound) \in Msg /\ Bucket[Head(inbound)] \in Key
    BY <1>0, <1>10 DEF Types, DispConsume
  <2>2. disp' = [at |-> "route", msg |-> Head(inbound)]
    BY <1>10 DEF DispConsume, Take
  <2>3. UNCHANGED <<wmsg, job, session, answer>>
    BY <1>10 DEF DispConsume
  <2>4. \A k \in Key : worker'[k] \in InRun => worker[k] \in InRun
    BY <1>0, <1>10, <2>1 DEF Types, DispConsume
  <2>5. QED
    BY <1>0, <2>2, <2>3, <2>4 DEF Sessions
<1>11. ASSUME InlineBegin PROVE Sessions'
  <2>1. Head(inbound) \in Msg
    BY <1>0, <1>11 DEF Types, InlineBegin
  <2>2. /\ session' = [session EXCEPT ![Head(inbound)] = ResolveSession(Head(inbound))]
        /\ disp' = [at |-> "inline", msg |-> Head(inbound)]
        /\ UNCHANGED <<worker, wmsg, job, answer>>
    BY <1>11 DEF InlineBegin, Take
  <2>3. ResolveSession(Head(inbound)) \in Key
    BY <1>0, <2>1, ResolveSessionType
  <2>4. \A s \in Source : session[s] \in Key => session'[s] \in Key
    BY <1>0, <2>1, <2>2, <2>3 DEF Types
  <2>5. \A k \in Key : worker[k] \in InRun => wmsg[k] \in Source
    BY <1>0 DEF Types, Hands, Busy
  <2>6. session'[disp'.msg] \in Key
    BY <1>0, <2>1, <2>2, <2>3 DEF Types
  <2>7. QED
    BY <1>0, <2>2, <2>4, <2>5, <2>6 DEF Sessions
<1>12. ASSUME InlineEnd PROVE Sessions'
  <2>1. disp.msg \in Source /\ session[disp.msg] \in Key
    BY <1>0, <1>12 DEF Hands, Sessions, InlineEnd
  <2>2. PICK a \in Answers : answer' = [answer EXCEPT ![disp.msg] = a]
    BY <1>5, <1>12, <2>1 DEF InlineEnd, Answers
  <2>3. UNCHANGED <<worker, wmsg, job, session>> /\ disp'.at # "inline"
    BY <1>12 DEF InlineEnd
  <2>4. QED
    BY <1>0, <1>4, <2>1, <2>2, <2>3 DEF Sessions
<1>13. ASSUME NEW k \in Key, WorkerAcquire(k) PROVE Sessions'
  <2>1. wmsg[k] \in Msg
    BY <1>0, <1>13 DEF Types, Hands, Busy, WorkerAcquire
  <2>2. /\ session' = [session EXCEPT ![wmsg[k]] = ResolveSession(wmsg[k])]
        /\ worker' = [worker EXCEPT ![k] = "run"]
        /\ UNCHANGED <<disp, wmsg, job, answer>>
    BY <1>13 DEF WorkerAcquire
  <2>3. ResolveSession(wmsg[k]) \in Key
    BY <1>0, <2>1, ResolveSessionType
  <2>4. \A s \in Source : session[s] \in Key => session'[s] \in Key
    BY <1>0, <2>1, <2>2, <2>3 DEF Types
  <2>5. \A l \in Key : worker'[l] \in InRun => session'[wmsg'[l]] \in Key
    <3>1. session'[wmsg[k]] \in Key
      BY <1>0, <2>1, <2>2, <2>3 DEF Types
    <3>2. \A l \in Key \ {k} : worker'[l] = worker[l]
      BY <1>0, <2>2 DEF Types
    <3>3. \A l \in Key : worker[l] \in InRun => wmsg[l] \in Source
      BY <1>0 DEF Types, Hands, Busy
    <3>4. QED
      BY <1>0, <2>2, <2>4, <3>1, <3>2, <3>3 DEF Sessions
  <2>6. disp.at = "inline" => disp.msg \in Source
    BY <1>0 DEF Hands
  <2>7. QED
    BY <1>0, <2>2, <2>4, <2>5, <2>6 DEF Sessions
<1>14. ASSUME NEW k \in Key, RunEnd(k) PROVE Sessions'
  <2>1. wmsg[k] \in Source /\ session[wmsg[k]] \in Key
    BY <1>0, <1>14 DEF Types, Hands, Busy, Sessions, RunEnd
  <2>2. PICK p \in {"reply", "release"} : worker' = [worker EXCEPT ![k] = p]
    BY <1>14 DEF RunEnd
  <2>3. UNCHANGED <<disp, wmsg, job, session>> /\ worker[k] = "run"
    BY <1>14 DEF RunEnd
  <2>4. \A l \in Key : worker'[l] \in InRun => worker[l] \in InRun
    BY <1>0, <2>2, <2>3 DEF Types
  <2>5. \A r \in Source : answer'[r] \in {"queued", "shown"} => session'[r] \in Key
    BY <1>0, <1>4, <1>14, <2>1 DEF Sessions, RunEnd, Answers
  <2>6. QED
    BY <1>0, <2>3, <2>4, <2>5 DEF Sessions
<1>15. ASSUME NEW k \in Key, RunReply(k) PROVE Sessions'
  <2>1. wmsg[k] \in Source /\ session[wmsg[k]] \in Key
    BY <1>0, <1>15 DEF Types, Hands, Busy, Sessions, RunReply
  <2>2. PICK a \in Answers : answer' = [answer EXCEPT ![wmsg[k]] = a]
    BY <1>5, <1>15, <2>1 DEF RunReply
  <2>3. /\ UNCHANGED <<disp, wmsg, job, session>> /\ worker[k] = "reply"
        /\ worker' = [worker EXCEPT ![k] = "release"]
    BY <1>15 DEF RunReply
  <2>4. \A l \in Key : worker'[l] \in InRun => worker[l] \in InRun
    BY <1>0, <2>3 DEF Types
  <2>5. QED
    BY <1>0, <1>4, <2>1, <2>2, <2>3, <2>4 DEF Sessions
<1>16. ASSUME NEW k \in Key, WorkerTake(k) PROVE Sessions'
  BY <1>0, <1>2, <1>16 DEF Types, WorkerTake
<1>17. ASSUME NEW k \in Key, WorkerExit(k) PROVE Sessions'
  BY <1>0, <1>2, <1>17 DEF Types, WorkerExit
<1>18. ASSUME NEW k \in Key, WorkerActivate(k) PROVE Sessions'
  BY <1>0, <1>2, <1>18 DEF Types, WorkerActivate
<1>19. ASSUME NEW k \in Key, WorkerRelease(k) PROVE Sessions'
  BY <1>0, <1>2, <1>19 DEF Types, WorkerRelease
<1>20. ASSUME NEW k \in Key, WorkerDeactivate(k) PROVE Sessions'
  BY <1>0, <1>2, <1>20 DEF Types, WorkerDeactivate
<1>21. ASSUME NEW k \in Key, RunIterate(k) PROVE Sessions'
  BY <1>1, <1>21 DEF RunIterate
<1>22. ASSUME NEW k \in Key, Worker(k) PROVE Sessions'
  BY <1>22, <1>13, <1>14, <1>15, <1>16, <1>17, <1>18, <1>19, <1>20, <1>21 DEF Worker
<1>23. ASSUME DispSteer PROVE Sessions'
  <2>1. UNCHANGED <<worker, wmsg, job, session, answer>>
    BY <1>23 DEF DispSteer
  <2>2. disp' = [at |-> "consume", msg |-> NoMsg] \/ disp' = [disp EXCEPT !.at = "send"]
    BY <1>23 DEF DispSteer
  <2>3. QED
    BY <1>0, <1>3, <2>1, <2>2 DEF Types
<1>24. ASSUME Dispatcher PROVE Sessions'
  <2>1. CASE DispReturn
    BY <1>0, <1>3, <2>1 DEF Types, DispReturn
  <2>2. CASE DispRoute
    BY <1>0, <1>3, <2>2 DEF Types, DispRoute
  <2>3. CASE DispSend
    BY <1>3, <2>3 DEF DispSend
  <2>4. QED
    BY <1>24, <1>10, <1>11, <1>12, <1>23, <2>1, <2>2, <2>3 DEF Dispatcher
<1>25. ASSUME NEW m \in Msg, Publisher(m) PROVE Sessions'
  BY <1>25, <1>1 DEF Publisher, PublishCheck, PublishSend, PublishGiveUp
<1>26. ASSUME Shutdown PROVE Sessions'
  BY <1>26, <1>1, <1>9 DEF Shutdown, Cancel, CloseFlag, CloseDone, Stop
<1>27. CASE UNCHANGED vars
  BY <1>27, <1>1 DEF vars
<1>28. QED
  BY <1>6, <1>7, <1>8, <1>22, <1>24, <1>25, <1>26, <1>27 DEF Next

-----------------------------------------------------------------------------
(* The semaphore counts its holders.                                        *)

LEMMA ConcurrencyStep == Inv /\ [Next]_vars => ConcurrencyBound'
<1> SUFFICES ASSUME Inv, [Next]_vars PROVE ConcurrencyBound'
  OBVIOUS
<1> USE InboundQueueAssumption
<1>0. Types /\ ConcurrencyBound
  BY DEF Inv
<1>f. IsFiniteSet(Holders)
  BY FS_Subset DEF Holders
<1>1. ASSUME UNCHANGED sem, \A k \in Key : worker'[k] \in InRun <=> worker[k] \in InRun
      PROVE  ConcurrencyBound'
  <2>1. Holders' = Holders
    BY <1>1 DEF Holders
  <2>2. QED
    BY <1>0, <1>1, <2>1 DEF ConcurrencyBound
<1>2. ASSUME UNCHANGED <<sem, worker>> PROVE ConcurrencyBound'
  BY <1>1, <1>2
<1>3. ASSUME NEW k \in Key, NEW p \in WorkerPlaces, UNCHANGED sem,
             worker' = [worker EXCEPT ![k] = p], worker[k] \in InRun <=> p \in InRun
      PROVE  ConcurrencyBound'
  BY <1>0, <1>1, <1>3 DEF Types
<1>4. ASSUME NEW k \in Key, WorkerAcquire(k) PROVE ConcurrencyBound'
  <2>1. k \notin Holders /\ Holders' = Holders \cup {k}
    BY <1>0, <1>4 DEF Types, Holders, WorkerAcquire
  <2>2. Cardinality(Holders') = Cardinality(Holders) + 1
    BY <1>f, <2>1, FS_AddElement
  <2>3. QED
    BY <1>0, <1>4, <2>2 DEF Types, ConcurrencyBound, WorkerAcquire
<1>5. ASSUME NEW k \in Key, WorkerRelease(k) PROVE ConcurrencyBound'
  <2>1. k \in Holders /\ Holders' = Holders \ {k}
    BY <1>0, <1>5 DEF Types, Holders, WorkerRelease
  <2>2. Cardinality(Holders') = Cardinality(Holders) - 1
    BY <1>f, <2>1, FS_RemoveElement
  <2>3. QED
    BY <1>0, <1>5, <2>2 DEF Types, ConcurrencyBound, WorkerRelease
<1>6. ASSUME NEW k \in Key, WorkerTake(k) PROVE ConcurrencyBound'
  BY <1>3, <1>6 DEF WorkerTake
<1>7. ASSUME NEW k \in Key, WorkerExit(k) PROVE ConcurrencyBound'
  BY <1>3, <1>7 DEF WorkerExit
<1>8. ASSUME NEW k \in Key, WorkerActivate(k) PROVE ConcurrencyBound'
  BY <1>3, <1>8 DEF WorkerActivate
<1>9. ASSUME NEW k \in Key, RunIterate(k) PROVE ConcurrencyBound'
  BY <1>2, <1>9 DEF RunIterate
<1>10. ASSUME NEW k \in Key, RunEnd(k) PROVE ConcurrencyBound'
  <2>1. PICK p \in {"reply", "release"} : worker' = [worker EXCEPT ![k] = p]
    BY <1>10 DEF RunEnd
  <2>2. UNCHANGED sem /\ worker[k] = "run"
    BY <1>10 DEF RunEnd
  <2>3. QED
    BY <1>3, <2>1, <2>2
<1>11. ASSUME NEW k \in Key, RunReply(k) PROVE ConcurrencyBound'
  BY <1>3, <1>11 DEF RunReply
<1>12. ASSUME NEW k \in Key, WorkerDeactivate(k) PROVE ConcurrencyBound'
  BY <1>3, <1>12 DEF WorkerDeactivate
<1>13. ASSUME NEW k \in Key, Worker(k) PROVE ConcurrencyBound'
  BY <1>13, <1>4, <1>5, <1>6, <1>7, <1>8, <1>9, <1>10, <1>11, <1>12 DEF Worker
<1>14. ASSUME DispConsume PROVE ConcurrencyBound'
  <2>1. Head(inbound) \in Msg /\ Bucket[Head(inbound)] \in Key
    BY <1>0, <1>14 DEF Types, DispConsume
  <2>2. QED
    BY <1>0, <1>1, <1>14, <2>1 DEF Types, DispConsume
<1>15. ASSUME Dispatcher PROVE ConcurrencyBound'
  BY <1>15, <1>2, <1>14 DEF Dispatcher, DispReturn, DispRoute, DispSteer, DispSend,
     InlineBegin, InlineEnd
<1>16. ASSUME NEW m \in Msg, Publisher(m) PROVE ConcurrencyBound'
  BY <1>16, <1>2 DEF Publisher, PublishCheck, PublishSend, PublishGiveUp
<1>17. ASSUME NEW s \in Source, Deliver(s) PROVE ConcurrencyBound'
  BY <1>17, <1>2 DEF Deliver
<1>18. ASSUME NEW j \in Job, JobBegin(j) \/ JobEnd(j) PROVE ConcurrencyBound'
  BY <1>18, <1>2 DEF JobBegin, JobEnd
<1>19. ASSUME Shutdown PROVE ConcurrencyBound'
  BY <1>19, <1>2 DEF Shutdown, Cancel, CloseFlag, CloseDone, CloseDrain, Stop
<1>20. CASE UNCHANGED vars
  BY <1>20, <1>2 DEF vars
<1>21. QED
  BY <1>13, <1>15, <1>16, <1>17, <1>18, <1>19, <1>20 DEF Next

-----------------------------------------------------------------------------
\* Inv is an invariant: every reachable state of the bus, the dispatcher, the
\* workers and the direct runs satisfies it.
THEOREM Invariant == Spec => []Inv
<1>1. Inv /\ [Next]_vars => Inv'
  BY TypesStep, CapacitiesStep, HandsStep, SessionsStep, ConcurrencyStep DEF Inv
<1>2. QED
  BY <1>1, InitInv, PTL DEF Spec

\* The channels never exceed their capacities, and the message in the hands of
\* the dispatcher or of a worker is a real one wherever the code uses it.
THEOREM TypeCorrect == Spec => []TypeOK
<1>1. Inv => TypeOK
  BY DEF Inv, Types, Capacities, TypeOK
<1>2. QED
  BY <1>1, Invariant, PTL

\* However the workers interleave, globalSem counts the runs in progress and
\* never admits more than MaxConcurrency of them.
THEOREM ConcurrencyBounded == Spec => []ConcurrencyBound
<1>1. Inv => ConcurrencyBound
  BY DEF Inv
<1>2. QED
  BY <1>1, Invariant, PTL

-----------------------------------------------------------------------------
(***************************************************************************)
(* The order of the messages of a bucket.  The invariant OrderInv says     *)
(* that fate agrees with the channel or the goroutine that holds each      *)
(* message, that every channel holds its messages in the order the bus     *)
(* accepted them, and that no message passes an earlier one of its bucket. *)
(***************************************************************************)
\* fate tells which goroutine holds a message, and a worker only holds
\* messages of its bucket.
Places ==
  /\ \A m \in Msg : fate[m] = "disp" <=> disp.at \in Holding /\ disp.msg = m
  /\ \A k \in Key : wmsg[k] # NoMsg => Bucket[wmsg[k]] = k
  /\ \A m \in Msg : fate[m] = "run" <=> \/ wmsg[Bucket[m]] = m
                                        \/ disp.at = "inline" /\ disp.msg = m

\* Run works either through the buckets or inline, never both.
Modes ==
  /\ queue => disp.at # "inline"
  /\ ~queue => /\ \A k \in Key : worker[k] = "none"
               /\ \A m \in Msg : fate[m] \notin {"disp", "ch", "steer"}

\* acc numbers the accepted messages without repetition.
Numbers ==
  /\ \A m \in Msg : acc[m] = 0 <=> fate[m] \in {"new", "select", "rejected"}
  /\ \A m \in Msg : acc[m] <= NumAccepted
  /\ \A m, n \in Msg : acc[m] = acc[n] /\ acc[m] # 0 => m = n

Ordered(s, f) == \A i, j \in 1..Len(s) : i < j => f[s[i]] < f[s[j]]
Member(m, s) == \E i \in 1..Len(s) : s[i] = m

\* bus.inbound and the channel of each bucket are in acceptance order.
Lines ==
  /\ \A m \in Msg : fate[m] = "inbound" <=> Member(m, inbound)
  /\ Ordered(inbound, acc)
  /\ \A k \in Key, m \in Msg : fate[m] = "ch" /\ Bucket[m] = k <=> Member(m, ch[k])
  /\ \A k \in Key : Ordered(ch[k], acc)

\* A later message of the bucket is not ahead of an earlier one.
NoPassing ==
  \A m, n \in Msg :
    Bucket[m] = Bucket[n] /\ acc[m] # 0 /\ acc[m] < acc[n] =>
      /\ fate[n] \in {"disp", "ch", "steer", "run", "done"} => fate[m] # "inbound"
      /\ fate[n] \in {"ch", "steer", "run", "done"} => fate[m] # "disp"
      /\ fate[n] \in {"run", "done"} => fate[m] \notin {"ch", "run"}

OrderInv == Places /\ Modes /\ Numbers /\ Lines /\ NoPassing /\ SteersEarlierRun

-----------------------------------------------------------------------------
(* Queues in order.                                                         *)

\* A message that leaves the head of an ordered queue was before all others.
LEMMA Departure ==
  ASSUME NEW s \in Seq(Msg), NEW f \in [Msg -> Nat], s # <<>>, Ordered(s, f)
  PROVE  /\ Head(s) \in Msg /\ Member(Head(s), s)
         /\ \A m \in Msg : Member(m, Tail(s)) <=> Member(m, s) /\ m # Head(s)
         /\ Ordered(Tail(s), f)
         /\ \A m \in Msg : Member(m, s) /\ m # Head(s) => f[Head(s)] < f[m]
<1>1. /\ Len(s) \in Nat \ {0} /\ Head(s) = s[1] /\ \A i \in 1..Len(s) : s[i] \in Msg
      /\ Tail(s) \in Seq(Msg) /\ Len(Tail(s)) = Len(s) - 1
      /\ \A i \in 1..Len(Tail(s)) : Tail(s)[i] = s[i + 1]
  OBVIOUS
<1>2. \A i \in 2..Len(s) : f[Head(s)] < f[s[i]]
  BY <1>1 DEF Ordered
<1>3. \A i \in 2..Len(s) : s[i] # Head(s)
  <2>1. \A i \in 1..Len(s) : f[s[i]] \in Nat
    BY <1>1
  <2> QED BY <1>1, <1>2, <2>1
<1>4. ASSUME NEW m \in Msg PROVE Member(m, Tail(s)) <=> Member(m, s) /\ m # Head(s)
  <2>1. ASSUME Member(m, Tail(s)) PROVE Member(m, s) /\ m # Head(s)
    BY <1>1, <1>3, <2>1 DEF Member
  <2>2. ASSUME Member(m, s), m # Head(s) PROVE Member(m, Tail(s))
    <3>1. PICK i \in 1..Len(s) : s[i] = m
      BY <2>2 DEF Member
    <3>2. i - 1 \in 1..Len(Tail(s)) /\ Tail(s)[i - 1] = m
      BY <1>1, <2>2, <3>1
    <3> QED BY <3>2 DEF Member
  <2> QED BY <2>1, <2>2
<1>5. Ordered(Tail(s), f)
  BY <1>1 DEF Ordered
<1>6. Member(Head(s), s)
  BY <1>1 DEF Member
<1>7. \A m \in Msg : Member(m, s) /\ m # Head(s) => f[Head(s)] < f[m]
  BY <1>1, <1>2 DEF Member
<1> QED BY <1>1, <1>4, <1>5, <1>6, <1>7

\* A message accepted after all others may join an ordered queue at its end.
LEMMA Arrival ==
  ASSUME NEW s \in Seq(Msg), NEW f \in [Msg -> Nat], NEW e \in Msg, Ordered(s, f),
         \A m \in Msg : Member(m, s) => f[m] < f[e]
  PROVE  /\ \A m \in Msg : Member(m, Append(s, e)) <=> Member(m, s) \/ m = e
         /\ Ordered(Append(s, e), f)
<1>1. /\ Len(s) \in Nat /\ Len(Append(s, e)) = Len(s) + 1
      /\ \A i \in 1..Len(s) : s[i] \in Msg /\ Append(s, e)[i] = s[i]
      /\ Append(s, e)[Len(s) + 1] = e
  OBVIOUS
<1>2. \A m \in Msg : Member(m, Append(s, e)) <=> Member(m, s) \/ m = e
  <2>1. ASSUME NEW m \in Msg, Member(m, Append(s, e)) PROVE Member(m, s) \/ m = e
    BY <1>1, <2>1 DEF Member
  <2>2. ASSUME NEW m \in Msg, Member(m, s) PROVE Member(m, Append(s, e))
    <3>1. PICK i \in 1..Len(s) : s[i] = m
      BY <2>2 DEF Member
    <3> QED BY <1>1, <3>1 DEF Member
  <2>3. Member(e, Append(s, e))
    BY <1>1 DEF Member
  <2> QED BY <2>1, <2>2, <2>3
<1>3. \A i \in 1..Len(s) : f[s[i]] < f[e]
  BY <1>1 DEF Member
<1>4. ASSUME NEW i \in 1..Len(Append(s, e)), NEW j \in 1..Len(Append(s, e)), i < j
      PROVE  f[Append(s, e)[i]] < f[Append(s, e)[j]]
  <2>1. i \in 1..Len(s) /\ Append(s, e)[i] = s[i]
    BY <1>1, <1>4
  <2>2. CASE j \in 1..Len(s)
    <3>1. Append(s, e)[j] = s[j]
      BY <1>1, <2>2
    <3> QED BY <1>4, <2>1, <2>2, <3>1 DEF Ordered
  <2>3. CASE j = Len(s) + 1
    BY <1>1, <1>3, <2>1, <2>3
  <2> QED BY <1>1, <2>2, <2>3
<1> QED BY <1>2, <1>4 DEF Ordered

-----------------------------------------------------------------------------
(* Steps that take no message along the way to its run.                     *)

\* The message is refused before the bus took it, or leaves the steering inbox.
Leaves(m) ==
  \/ fate[m] \in {"new", "select"} /\ fate'[m] \in {"select", "rejected"}
  \/ fate[m] = "steer" /\ fate'[m] \in {"absorbed", "discarded"}

Quiet ==
  /\ UNCHANGED <<inbound, ch, wmsg, acc, queue>>
  /\ disp'.at \in Holding <=> disp.at \in Holding
  /\ disp'.at = "inline" <=> disp.at = "inline"
  /\ disp.at \in Holding \cup {"inline"} => disp'.msg = disp.msg
  /\ \A k \in Key : worker[k] = "none" => worker'[k] = "none"
  /\ \A m \in Msg : fate'[m] = fate[m] \/ Leaves(m)

LEMMA QuietStep == ASSUME Inv, OrderInv, Quiet PROVE OrderInv'
<1>1. Places'
  BY DEF OrderInv, Places, Quiet, Leaves
<1>2. Modes'
  BY DEF OrderInv, Modes, Quiet, Leaves
<1>3. Numbers'
  BY DEF OrderInv, Numbers, NumAccepted, Quiet, Leaves
<1>4. Lines'
  BY DEF OrderInv, Lines, Member, Ordered, Quiet, Leaves
<1>5. NoPassing'
  BY DEF OrderInv, NoPassing, Quiet, Leaves
<1>6. SteersEarlierRun'
  BY DEF OrderInv, SteersEarlierRun, Quiet, Leaves
<1> QED BY <1>1, <1>2, <1>3, <1>4, <1>5, <1>6 DEF OrderInv

LEMMA QuietPublisher ==
  ASSUME Inv, NEW m \in Msg, PublishCheck(m) \/ PublishGiveUp(m) PROVE Quiet
<1>1. fate \in [Msg -> Fates]
  BY DEF Inv, Types
<1>2. UNCHANGED <<inbound, disp, ch, wmsg, acc, queue, worker>>
  BY DEF PublishCheck, PublishGiveUp
<1>3. \A n \in Msg : fate'[n] = fate[n] \/ Leaves(n)
  BY <1>1 DEF PublishCheck, PublishGiveUp, Leaves
<1> QED BY <1>2, <1>3 DEF Quiet

LEMMA QuietOthers ==
  ASSUME Inv,
         \/ \E s \in Source : Deliver(s)
         \/ \E j \in Job : JobBegin(j) \/ JobEnd(j)
         \/ Cancel \/ CloseFlag \/ CloseDone \/ Stop
         \/ UNCHANGED vars
  PROVE  Quiet
<1>1. UNCHANGED <<inbound, disp, ch, wmsg, acc, queue, worker, fate>>
  BY DEF Deliver, JobBegin, JobEnd, Cancel, CloseFlag, CloseDone, Stop, vars
<1> QED BY <1>1 DEF Quiet

LEMMA QuietDispatcher == ASSUME Inv, DispReturn \/ DispRoute PROVE Quiet
<1>1. UNCHANGED <<inbound, ch, wmsg, acc, queue, worker, fate>>
  BY DEF DispReturn, DispRoute
<1>2. disp \in [at : DispPlaces, msg : Msg \cup {NoMsg}]
  BY DEF Inv, Types
<1>3. CASE DispReturn
  BY <1>1, <1>2, <1>3 DEF Quiet, DispReturn, Holding
<1>4. CASE DispRoute
  BY <1>1, <1>2, <1>4 DEF Quiet, DispRoute, Holding
<1> QED BY <1>3, <1>4

LEMMA QuietWorker ==
  ASSUME Inv, NEW k \in Key,
         \/ WorkerExit(k) \/ WorkerActivate(k) \/ WorkerAcquire(k) \/ RunIterate(k)
         \/ RunEnd(k) \/ RunReply(k) \/ WorkerDeactivate(k)
  PROVE  Quiet
<1>1. UNCHANGED <<inbound, disp, ch, wmsg, acc, queue>>
  BY DEF WorkerExit, WorkerActivate, WorkerAcquire, RunIterate, RunEnd, RunReply,
         WorkerDeactivate
<1>2. worker[k] # "none" /\ \A l \in Key : l # k => worker'[l] = worker[l]
  BY DEF Inv, Types, WorkerExit, WorkerActivate, WorkerAcquire, RunIterate, RunEnd,
         RunReply, WorkerDeactivate
<1>3. \A n \in Msg : fate'[n] = fate[n] \/ Leaves(n)
  BY DEF WorkerExit, WorkerActivate, WorkerAcquire, RunIterate, RunEnd, RunReply,
         WorkerDeactivate, Leaves
<1> QED BY <1>1, <1>2, <1>3 DEF Quiet

-----------------------------------------------------------------------------
(* The bus takes a message, or drops one at shutdown.                       *)

LEMMA PublishSendOrder ==
  ASSUME Inv, OrderInv, NEW m \in Msg, PublishSend(m) PROVE OrderInv'
<1>1. /\ fate[m] = "select" /\ inbound' = Append(inbound, m)
      /\ fate' = [fate EXCEPT ![m] = "inbound"]
      /\ acc' = [acc EXCEPT ![m] = NumAccepted + 1]
      /\ UNCHANGED <<disp, ch, wmsg, queue, worker>>
  BY DEF PublishSend
<1>2. /\ fate \in [Msg -> Fates] /\ acc \in [Msg -> Nat] /\ inbound \in Seq(Msg)
      /\ disp \in [at : DispPlaces, msg : Msg \cup {NoMsg}]
      /\ wmsg \in [Key -> Msg \cup {NoMsg}] /\ ch \in [Key -> Seq(Msg)]
  BY DEF Inv, Types
<1>3. NumAccepted \in Nat /\ acc[m] = 0 /\ \A n \in Msg : acc[n] <= NumAccepted
  BY <1>1, NumAcceptedType DEF OrderInv, Numbers
<1>4. /\ fate'[m] = "inbound" /\ acc'[m] = NumAccepted + 1
      /\ \A n \in Msg : n # m => fate'[n] = fate[n] /\ acc'[n] = acc[n]
      /\ acc' \in [Msg -> Nat]
  BY <1>1, <1>2, <1>3
<1>5. NumAccepted' = NumAccepted + 1
  <2>1. {n \in Msg : acc'[n] # 0} = {n \in Msg : acc[n] # 0} \cup {m}
    BY <1>3, <1>4
  <2>2. IsFiniteSet({n \in Msg : acc[n] # 0}) /\ m \notin {n \in Msg : acc[n] # 0}
    BY <1>3, InboundQueueAssumption, FS_Subset
  <2> QED BY <2>1, <2>2, FS_AddElement DEF NumAccepted
<1>6. Places'
  BY <1>1, <1>4 DEF OrderInv, Places
<1>7. Modes'
  BY <1>1, <1>4 DEF OrderInv, Modes
<1>8. Numbers'
  <2>1. \A n \in Msg : acc'[n] = 0 <=> fate'[n] \in {"new", "select", "rejected"}
    BY <1>3, <1>4 DEF OrderInv, Numbers
  <2>2. \A n \in Msg : acc'[n] <= NumAccepted'
    <3> TAKE n \in Msg
    <3>1. CASE n = m
      BY <1>3, <1>4, <1>5, <3>1
    <3>2. CASE n # m
      <4>1. acc'[n] = acc[n] /\ acc[n] \in Nat /\ acc[n] <= NumAccepted
        BY <1>2, <1>3, <1>4, <3>2
      <4> QED BY <1>3, <1>5, <4>1
    <3> QED BY <3>1, <3>2
  <2>3. \A n, p \in Msg : acc'[n] = acc'[p] /\ acc'[n] # 0 => n = p
    BY <1>2, <1>3, <1>4 DEF OrderInv, Numbers
  <2> QED BY <2>1, <2>2, <2>3 DEF Numbers
<1>9. Lines'
  <2>1. ~Member(m, inbound) /\ \A k \in Key : ~Member(m, ch[k])
    BY <1>1 DEF OrderInv, Lines
  <2>2. Ordered(inbound, acc') /\ \A n \in Msg : Member(n, inbound) => acc'[n] < acc'[m]
    <3>1. \A i \in 1..Len(inbound) : inbound[i] \in Msg /\ inbound[i] # m
      BY <1>2, <2>1 DEF Member
    <3>2. Ordered(inbound, acc')
      BY <1>4, <3>1 DEF OrderInv, Lines, Ordered
    <3>3. \A n \in Msg : Member(n, inbound) => acc'[n] < acc'[m]
      <4> SUFFICES ASSUME NEW n \in Msg, Member(n, inbound) PROVE acc'[n] < acc'[m]
        OBVIOUS
      <4>1. n # m /\ acc[n] \in Nat /\ acc[n] <= NumAccepted
        BY <1>2, <1>3, <2>1
      <4> QED BY <1>3, <1>4, <4>1
    <3> QED BY <3>2, <3>3
  <2>3. /\ \A n \in Msg : Member(n, inbound') <=> Member(n, inbound) \/ n = m
        /\ Ordered(inbound', acc')
    <3> DEFINE f == acc'
    <3>2. f \in [Msg -> Nat] /\ Ordered(inbound, f) /\ \A n \in Msg : Member(n, inbound) => f[n] < f[m]
      BY <1>4, <2>2
    <3> HIDE DEF f
    <3>3. /\ \A n \in Msg : Member(n, Append(inbound, m)) <=> Member(n, inbound) \/ n = m
          /\ Ordered(Append(inbound, m), f)
      BY <1>2, <3>2, Arrival
    <3> QED BY <1>1, <3>3 DEF f
  <2>4. \A n \in Msg : fate'[n] = "inbound" <=> Member(n, inbound')
    BY <1>4, <2>3 DEF OrderInv, Lines
  <2>5. \A k \in Key : Ordered(ch[k], acc')
    <3> TAKE k \in Key
    <3>1. \A i \in 1..Len(ch[k]) : ch[k][i] \in Msg /\ ch[k][i] # m
      BY <1>2, <2>1 DEF Member
    <3> QED BY <1>4, <3>1 DEF OrderInv, Lines, Ordered
  <2>6. \A k \in Key, n \in Msg : fate'[n] = "ch" /\ Bucket[n] = k <=> Member(n, ch[k])
    BY <1>4, <2>1 DEF OrderInv, Lines
  <2> QED BY <1>1, <2>3, <2>4, <2>5, <2>6 DEF Lines
<1>10. NoPassing'
  <2> SUFFICES ASSUME NEW n \in Msg, NEW p \in Msg, Bucket[n] = Bucket[p],
                      acc'[n] # 0, acc'[n] < acc'[p]
               PROVE  /\ fate'[p] \in {"disp", "ch", "steer", "run", "done"} => fate'[n] # "inbound"
                      /\ fate'[p] \in {"ch", "steer", "run", "done"} => fate'[n] # "disp"
                      /\ fate'[p] \in {"run", "done"} => fate'[n] \notin {"ch", "run"}
    BY DEF NoPassing
  <2>1. n # m
    <3>1. acc'[p] \in Nat /\ acc'[p] <= NumAccepted + 1
      <4>1. acc[p] \in Nat /\ acc[p] <= NumAccepted
        BY <1>2, <1>3
      <4> QED BY <1>3, <1>4, <4>1
    <3> QED BY <1>3, <1>4, <3>1
  <2> QED BY <1>4, <2>1 DEF OrderInv, NoPassing
<1>11. SteersEarlierRun'
  <2> SUFFICES ASSUME NEW k \in Key, NEW n \in Msg, fate'[n] = "steer", Bucket[n] = k,
                      wmsg[k] # NoMsg
               PROVE  acc'[wmsg[k]] < acc'[n]
    BY <1>1 DEF SteersEarlierRun
  <2>1. wmsg[k] \in Msg /\ fate[wmsg[k]] = "run"
    <3>1. wmsg[k] \in Msg /\ Bucket[wmsg[k]] = k
      BY <1>2 DEF OrderInv, Places
    <3> QED BY <3>1 DEF OrderInv, Places
  <2>2. wmsg[k] # m /\ n # m /\ fate[n] = "steer"
    BY <1>1, <1>4, <2>1
  <2>3. acc[wmsg[k]] < acc[n]
    BY <2>2 DEF OrderInv, SteersEarlierRun
  <2> QED BY <1>4, <2>1, <2>2, <2>3
<1> QED BY <1>6, <1>7, <1>8, <1>9, <1>10, <1>11 DEF OrderInv

\* The oldest message of the bus leaves it.
LEMMA BusDeparture ==
  ASSUME Inv, OrderInv, inbound # <<>>
  PROVE  /\ Head(inbound) \in Msg /\ fate[Head(inbound)] = "inbound"
         /\ \A m \in Msg : Member(m, Tail(inbound)) <=> Member(m, inbound) /\ m # Head(inbound)
         /\ Ordered(Tail(inbound), acc)
         /\ \A m \in Msg : fate[m] = "inbound" /\ m # Head(inbound) => acc[Head(inbound)] < acc[m]
<1>1. inbound \in Seq(Msg) /\ acc \in [Msg -> Nat] /\ Ordered(inbound, acc)
  BY DEF Inv, Types, OrderInv, Lines
<1>2. \A m \in Msg : fate[m] = "inbound" <=> Member(m, inbound)
  BY DEF OrderInv, Lines
<1> QED BY <1>1, <1>2, Departure

\* The same, for a step that moves that message to another place p.
LEMMA BusTaken ==
  ASSUME Inv, OrderInv, inbound # <<>>, inbound' = Tail(inbound),
         NEW p \in Fates \ {"inbound", "ch", "new", "select", "rejected"},
         fate' = [fate EXCEPT ![Head(inbound)] = p],
         UNCHANGED <<ch, acc>>
  PROVE  /\ Numbers' /\ Lines'
         /\ Head(inbound) \in Msg /\ fate'[Head(inbound)] = p
         /\ \A m \in Msg : m # Head(inbound) => fate'[m] = fate[m]
<1>1. fate \in [Msg -> Fates]
  BY DEF Inv, Types
<1>2. Head(inbound) \in Msg /\ fate[Head(inbound)] = "inbound"
  BY BusDeparture
<1>3. /\ fate'[Head(inbound)] = p
      /\ \A m \in Msg : m # Head(inbound) => fate'[m] = fate[m]
  BY <1>1, <1>2
<1>4. Numbers'
  BY <1>2, <1>3 DEF OrderInv, Numbers, NumAccepted
<1>5. Lines'
  <2>1. \A m \in Msg : fate'[m] = "inbound" <=> Member(m, inbound')
    BY <1>2, <1>3, BusDeparture DEF OrderInv, Lines
  <2>2. Ordered(inbound', acc')
    BY BusDeparture
  <2>3. \A k \in Key, m \in Msg : fate'[m] = "ch" /\ Bucket[m] = k <=> Member(m, ch'[k])
    BY <1>2, <1>3 DEF OrderInv, Lines
  <2>4. \A k \in Key : Ordered(ch'[k], acc')
    BY DEF OrderInv, Lines
  <2> QED BY <2>1, <2>2, <2>3, <2>4 DEF Lines
<1> QED BY <1>2, <1>3, <1>4, <1>5

LEMMA CloseDrainOrder == ASSUME Inv, OrderInv, CloseDrain PROVE OrderInv'
<1>1. CASE inbound = <<>>
  <2>1. Quiet
    BY <1>1 DEF CloseDrain, Quiet
  <2> QED BY <2>1, QuietStep
<1>2. CASE inbound # <<>>
  <2>1. /\ inbound' = Tail(inbound) /\ fate' = [fate EXCEPT ![Head(inbound)] = "drained"]
        /\ UNCHANGED <<disp, ch, wmsg, acc, queue, worker>>
    BY <1>2 DEF CloseDrain
  <2>2. /\ Numbers' /\ Lines'
        /\ Head(inbound) \in Msg /\ fate'[Head(inbound)] = "drained"
        /\ \A m \in Msg : m # Head(inbound) => fate'[m] = fate[m]
    BY <1>2, <2>1, BusTaken
  <2>3. fate[Head(inbound)] = "inbound"
    BY <1>2, BusDeparture
  <2>4. Places'
    BY <2>1, <2>2, <2>3 DEF OrderInv, Places
  <2>5. Modes'
    BY <2>1, <2>2 DEF OrderInv, Modes
  <2>6. NoPassing'
    BY <2>1, <2>2 DEF OrderInv, NoPassing
  <2>7. SteersEarlierRun'
    BY <2>1, <2>2 DEF OrderInv, SteersEarlierRun
  <2> QED BY <2>2, <2>4, <2>5, <2>6, <2>7 DEF OrderInv
<1> QED BY <1>1, <1>2

-----------------------------------------------------------------------------
(* The dispatcher moves the oldest message to the channel of its bucket.    *)

LEMMA DispConsumeOrder == ASSUME Inv, OrderInv, DispConsume PROVE OrderInv'
<1>1. /\ queue /\ disp.at = "consume" /\ inbound # <<>>
      /\ inbound' = Tail(inbound) /\ disp' = [at |-> "route", msg |-> Head(inbound)]
      /\ fate' = [fate EXCEPT ![Head(inbound)] = "disp"]
      /\ UNCHANGED <<ch, wmsg, acc, queue>>
  BY DEF DispConsume, Take
<1>2. /\ Numbers' /\ Lines'
      /\ Head(inbound) \in Msg /\ fate'[Head(inbound)] = "disp"
      /\ \A m \in Msg : m # Head(inbound) => fate'[m] = fate[m]
  BY <1>1, BusTaken
<1>3. /\ fate[Head(inbound)] = "inbound"
      /\ \A m \in Msg : fate[m] = "inbound" /\ m # Head(inbound) => acc[Head(inbound)] < acc[m]
  BY <1>1, BusDeparture
<1>4. Places'
  BY <1>1, <1>2, <1>3 DEF OrderInv, Places, Holding
<1>5. Modes'
  BY <1>1 DEF OrderInv, Modes
<1>6. NoPassing'
  <2>1. acc \in [Msg -> Nat]
    BY DEF Inv, Types
  <2>2. \A m \in Msg : fate[m] # "disp"
    BY <1>1 DEF OrderInv, Places, Holding
  <2> SUFFICES ASSUME NEW m \in Msg, NEW n \in Msg, Bucket[m] = Bucket[n],
                      acc[m] # 0, acc[m] < acc[n]
               PROVE  /\ fate'[n] \in {"disp", "ch", "steer", "run", "done"} => fate'[m] # "inbound"
                      /\ fate'[n] \in {"ch", "steer", "run", "done"} => fate'[m] # "disp"
                      /\ fate'[n] \in {"run", "done"} => fate'[m] \notin {"ch", "run"}
    BY <1>1 DEF NoPassing
  <2>3. CASE n = Head(inbound)
    <3>1. fate[m] # "inbound" \/ m = n
      BY <1>2, <1>3, <2>1, <2>3
    <3> QED BY <1>2, <2>1, <2>3, <3>1
  <2>4. CASE n # Head(inbound)
    <3>1. CASE m = Head(inbound)
      BY <1>2, <1>3, <2>2, <2>4, <3>1 DEF OrderInv, NoPassing
    <3>2. CASE m # Head(inbound)
      BY <1>2, <2>4, <3>2 DEF OrderInv, NoPassing
    <3> QED BY <3>1, <3>2
  <2> QED BY <2>3, <2>4
<1>7. SteersEarlierRun'
  BY <1>1, <1>2 DEF OrderInv, SteersEarlierRun
<1> QED BY <1>2, <1>4, <1>5, <1>6, <1>7 DEF OrderInv

\* What holds when the dispatcher puts the message it holds in place p.
LEMMA Placed ==
  ASSUME Inv, OrderInv, disp.at \in Holding,
         disp' = [at |-> "consume", msg |-> NoMsg],
         NEW p \in {"ch", "steer"}, fate' = [fate EXCEPT ![disp.msg] = p],
         UNCHANGED <<inbound, wmsg, acc, queue, worker>>
  PROVE  /\ Places' /\ Modes' /\ Numbers' /\ NoPassing'
         /\ disp.msg \in Msg /\ fate[disp.msg] = "disp" /\ fate'[disp.msg] = p
         /\ \A m \in Msg : m # disp.msg => fate'[m] = fate[m]
<1>1. fate \in [Msg -> Fates] /\ acc \in [Msg -> Nat] /\ disp.msg \in Msg
  BY DEF Inv, Types, Hands
<1>2. fate[disp.msg] = "disp" /\ \A m \in Msg : fate[m] = "disp" => m = disp.msg
  BY <1>1 DEF OrderInv, Places
<1>3. /\ fate'[disp.msg] = p
      /\ \A m \in Msg : m # disp.msg => fate'[m] = fate[m]
  BY <1>1
<1>4. Places'
  BY <1>1, <1>2, <1>3 DEF OrderInv, Places, Holding
<1>5. Modes'
  BY <1>1, <1>2 DEF OrderInv, Modes
<1>6. Numbers'
  BY <1>2, <1>3 DEF OrderInv, Numbers, NumAccepted
<1>7. NoPassing'
  <2> SUFFICES ASSUME NEW m \in Msg, NEW n \in Msg, Bucket[m] = Bucket[n],
                      acc[m] # 0, acc[m] < acc[n]
               PROVE  /\ fate'[n] \in {"disp", "ch", "steer", "run", "done"} => fate'[m] # "inbound"
                      /\ fate'[n] \in {"ch", "steer", "run", "done"} => fate'[m] # "disp"
                      /\ fate'[n] \in {"run", "done"} => fate'[m] \notin {"ch", "run"}
    BY DEF NoPassing
  <2>1. m # n
    BY <1>1
  <2>2. CASE n = disp.msg
    BY <1>2, <1>3, <2>1, <2>2 DEF OrderInv, NoPassing
  <2>3. CASE m = disp.msg
    BY <1>2, <1>3, <2>1, <2>3 DEF OrderInv, NoPassing
  <2>4. CASE n # disp.msg /\ m # disp.msg
    BY <1>3, <2>4 DEF OrderInv, NoPassing
  <2> QED BY <2>2, <2>3, <2>4
<1> QED BY <1>1, <1>2, <1>3, <1>4, <1>5, <1>6, <1>7

LEMMA DispSteerOrder == ASSUME Inv, OrderInv, DispSteer PROVE OrderInv'
<1>1. disp.at = "steer" /\ UNCHANGED <<inbound, ch, wmsg, acc, queue, worker>>
  BY DEF DispSteer
<1>2. CASE Len(steer[Bucket[disp.msg]]) < SteerCap
  <2>1. /\ fate' = [fate EXCEPT ![disp.msg] = "steer"]
        /\ disp' = [at |-> "consume", msg |-> NoMsg]
    BY <1>2 DEF DispSteer
  <2>2. /\ Places' /\ Modes' /\ Numbers' /\ NoPassing'
        /\ disp.msg \in Msg /\ fate[disp.msg] = "disp" /\ fate'[disp.msg] = "steer"
        /\ \A m \in Msg : m # disp.msg => fate'[m] = fate[m]
    BY <1>1, <2>1, Placed DEF Holding
  <2>3. Lines'
    BY <1>1, <2>2 DEF OrderInv, Lines, Member, Ordered
  <2>4. SteersEarlierRun'
    <3> SUFFICES ASSUME NEW k \in Key, NEW m \in Msg,
                        fate'[m] = "steer", Bucket[m] = k, wmsg[k] # NoMsg
                 PROVE  acc[wmsg[k]] < acc[m]
      BY <1>1 DEF SteersEarlierRun
    <3>1. wmsg[k] \in Msg /\ fate[wmsg[k]] = "run" /\ Bucket[wmsg[k]] = k
      BY DEF Inv, Types, OrderInv, Places
    <3>2. CASE m = disp.msg
      <4>1. acc[wmsg[k]] # acc[m]
        BY <2>2, <3>1, <3>2 DEF OrderInv, Numbers
      <4>2. ~(acc[m] < acc[wmsg[k]])
        BY <2>2, <3>1, <3>2 DEF OrderInv, Numbers, NoPassing
      <4>3. acc[m] \in Nat /\ acc[wmsg[k]] \in Nat
        BY <3>1 DEF Inv, Types
      <4> QED BY <4>1, <4>2, <4>3
    <3>3. CASE m # disp.msg
      BY <2>2, <3>3 DEF OrderInv, SteersEarlierRun
    <3> QED BY <3>2, <3>3
  <2> QED BY <2>2, <2>3, <2>4 DEF OrderInv
<1>3. CASE ~(Len(steer[Bucket[disp.msg]]) < SteerCap)
  <2>1. disp' = [disp EXCEPT !.at = "send"] /\ UNCHANGED fate
    BY <1>3 DEF DispSteer
  <2>2. disp \in [at : DispPlaces, msg : Msg \cup {NoMsg}]
    BY DEF Inv, Types
  <2>3. Quiet
    BY <1>1, <2>1, <2>2 DEF Quiet, Holding
  <2> QED BY <2>3, QuietStep
<1> QED BY <1>2, <1>3

LEMMA DispSendOrder == ASSUME Inv, OrderInv, DispSend PROVE OrderInv'
<1> DEFINE k == Bucket[disp.msg]
<1>1. /\ disp.at = "send" /\ ch' = [ch EXCEPT ![k] = Append(@, disp.msg)]
      /\ fate' = [fate EXCEPT ![disp.msg] = "ch"]
      /\ disp' = [at |-> "consume", msg |-> NoMsg]
      /\ UNCHANGED <<inbound, wmsg, acc, queue, worker>>
  BY DEF DispSend
<1>2. /\ Places' /\ Modes' /\ Numbers' /\ NoPassing'
      /\ disp.msg \in Msg /\ fate[disp.msg] = "disp" /\ fate'[disp.msg] = "ch"
      /\ \A m \in Msg : m # disp.msg => fate'[m] = fate[m]
  BY <1>1, Placed DEF Holding
<1>3. /\ k \in Key /\ ch \in [Key -> Seq(Msg)] /\ acc \in [Msg -> Nat]
  BY <1>2, InboundQueueAssumption DEF Inv, Types
<1>4. ch'[k] = Append(ch[k], disp.msg) /\ \A l \in Key : l # k => ch'[l] = ch[l]
  BY <1>1, <1>3
<1>5. /\ \A m \in Msg : Member(m, ch'[k]) <=> Member(m, ch[k]) \/ m = disp.msg
      /\ Ordered(ch'[k], acc)
  <2>1. Ordered(ch[k], acc) /\ \A m \in Msg : Member(m, ch[k]) <=> fate[m] = "ch" /\ Bucket[m] = k
    BY <1>3 DEF OrderInv, Lines
  <2>2. ASSUME NEW m \in Msg, Member(m, ch[k]) PROVE acc[m] < acc[disp.msg]
    <3>1. fate[m] = "ch" /\ Bucket[m] = k /\ m # disp.msg
      BY <1>2, <2>1, <2>2
    <3>2. acc[m] # acc[disp.msg] /\ acc[disp.msg] # 0
      BY <1>2, <3>1 DEF OrderInv, Numbers
    <3>3. ~(acc[disp.msg] < acc[m])
      BY <1>2, <3>1, <3>2 DEF OrderInv, NoPassing
    <3> QED BY <1>2, <1>3, <3>2, <3>3
  <2>3. ch[k] \in Seq(Msg)
    BY <1>3
  <2> HIDE DEF k
  <2> QED BY <1>2, <1>3, <1>4, <2>1, <2>2, <2>3, Arrival
<1>6. Lines'
  <2>1. \A m \in Msg : fate'[m] = "inbound" <=> Member(m, inbound)
    BY <1>2 DEF OrderInv, Lines
  <2>2. Ordered(inbound, acc)
    BY DEF OrderInv, Lines
  <2>3. ASSUME NEW l \in Key, NEW m \in Msg
        PROVE  fate'[m] = "ch" /\ Bucket[m] = l <=> Member(m, ch'[l])
    <3>1. CASE l = k
      BY <1>2, <1>3, <1>5, <3>1 DEF OrderInv, Lines
    <3>2. CASE l # k
      BY <1>2, <1>4, <3>2 DEF OrderInv, Lines
    <3> QED BY <3>1, <3>2
  <2>4. ASSUME NEW l \in Key PROVE Ordered(ch'[l], acc)
    <3>1. CASE l = k
      BY <1>5, <3>1
    <3>2. CASE l # k
      BY <1>4, <3>2 DEF OrderInv, Lines
    <3> QED BY <3>1, <3>2
  <2> QED BY <1>1, <2>1, <2>2, <2>3, <2>4 DEF Lines
<1>7. SteersEarlierRun'
  BY <1>1, <1>2 DEF OrderInv, SteersEarlierRun
<1> QED BY <1>2, <1>6, <1>7 DEF OrderInv

-----------------------------------------------------------------------------
(* A message begins and ends its run.                                       *)

LEMMA WorkerTakeOrder ==
  ASSUME Inv, OrderInv, NEW k \in Key, WorkerTake(k) PROVE OrderInv'
<1> DEFINE h == Head(ch[k])
<1>1. /\ worker[k] = "idle" /\ ch[k] # <<>>
      /\ ch' = [ch EXCEPT ![k] = Tail(@)] /\ wmsg' = [wmsg EXCEPT ![k] = h]
      /\ fate' = [m \in Msg |->
                    IF m = h THEN "run"
                    ELSE IF Bucket[m] = k /\ fate[m] = "steer" THEN "discarded"
                    ELSE fate[m]]
      /\ worker' = [worker EXCEPT ![k] = "taken"]
      /\ UNCHANGED <<inbound, disp, acc, queue>>
  BY DEF WorkerTake
<1>2. /\ ch \in [Key -> Seq(Msg)] /\ acc \in [Msg -> Nat] /\ fate \in [Msg -> Fates]
      /\ wmsg \in [Key -> Msg \cup {NoMsg}] /\ worker \in [Key -> WorkerPlaces]
  BY DEF Inv, Types
<1>3. /\ h \in Msg /\ Member(h, ch[k]) /\ Ordered(Tail(ch[k]), acc)
      /\ \A m \in Msg : Member(m, Tail(ch[k])) <=> Member(m, ch[k]) /\ m # h
      /\ \A m \in Msg : Member(m, ch[k]) /\ m # h => acc[h] < acc[m]
  <2>1. ch[k] \in Seq(Msg) /\ Ordered(ch[k], acc)
    BY <1>2 DEF OrderInv, Lines
  <2> QED BY <1>1, <1>2, <2>1, Departure
<1>4. \A l \in Key, m \in Msg : fate[m] = "ch" /\ Bucket[m] = l <=> Member(m, ch[l])
  BY DEF OrderInv, Lines
<1>5. fate[h] = "ch" /\ Bucket[h] = k
  BY <1>3, <1>4
<1>6. wmsg[k] = NoMsg /\ disp.at # "inline" /\ queue
  BY <1>1 DEF Inv, Types, Hands, Busy, OrderInv, Modes
<1> HIDE DEF h
<1>7. /\ wmsg'[k] = h /\ \A l \in Key : l # k => wmsg'[l] = wmsg[l]
      /\ ch'[k] = Tail(ch[k]) /\ \A l \in Key : l # k => ch'[l] = ch[l]
  BY <1>1, <1>2
<1>8. /\ fate'[h] = "run"
      /\ \A m \in Msg : m # h => \/ fate'[m] = fate[m] /\ (Bucket[m] = k => fate'[m] # "steer")
                                 \/ fate[m] = "steer" /\ fate'[m] = "discarded"
  BY <1>1, <1>3
<1>9. Places'
  <2>1. \A m \in Msg : fate'[m] = "disp" <=> disp'.at \in Holding /\ disp'.msg = m
    BY <1>1, <1>5, <1>8 DEF OrderInv, Places
  <2>2. \A l \in Key : wmsg'[l] # NoMsg => Bucket[wmsg'[l]] = l
    BY <1>5, <1>7 DEF OrderInv, Places
  <2>3. ASSUME NEW m \in Msg
        PROVE  fate'[m] = "run" <=> wmsg'[Bucket[m]] = m \/ (disp'.at = "inline" /\ disp'.msg = m)
    <3>1. Bucket[m] \in Key /\ m # NoMsg
      BY InboundQueueAssumption
    <3>2. fate[m] = "run" <=> wmsg[Bucket[m]] = m
      BY <1>6 DEF OrderInv, Places
    <3>3. CASE m = h
      BY <1>5, <1>7, <1>8, <3>3
    <3>4. CASE m # h
      BY <1>1, <1>6, <1>7, <1>8, <3>1, <3>2, <3>4
    <3> QED BY <3>3, <3>4
  <2> QED BY <2>1, <2>2, <2>3 DEF Places
<1>10. Modes'
  BY <1>1, <1>6 DEF Modes
<1>11. Numbers'
  BY <1>1, <1>5, <1>8 DEF OrderInv, Numbers, NumAccepted
<1>12. Lines'
  <2>1. \A m \in Msg : fate'[m] = "inbound" <=> Member(m, inbound)
    BY <1>5, <1>8 DEF OrderInv, Lines
  <2>2. Ordered(inbound, acc)
    BY DEF OrderInv, Lines
  <2>3. ASSUME NEW l \in Key, NEW m \in Msg
        PROVE  fate'[m] = "ch" /\ Bucket[m] = l <=> Member(m, ch'[l])
    BY <1>3, <1>4, <1>5, <1>7, <1>8
  <2>4. ASSUME NEW l \in Key PROVE Ordered(ch'[l], acc)
    <3>1. Ordered(ch[l], acc)
      BY DEF OrderInv, Lines
    <3>2. CASE l = k
      BY <1>3, <1>7, <3>2
    <3>3. CASE l # k
      BY <1>7, <3>1, <3>3
    <3> QED BY <3>2, <3>3
  <2> QED BY <1>1, <2>1, <2>2, <2>3, <2>4 DEF Lines
<1>13. NoPassing'
  <2> SUFFICES ASSUME NEW m \in Msg, NEW n \in Msg, Bucket[m] = Bucket[n],
                      acc[m] # 0, acc[m] < acc[n]
               PROVE  /\ fate'[n] \in {"disp", "ch", "steer", "run", "done"} => fate'[m] # "inbound"
                      /\ fate'[n] \in {"ch", "steer", "run", "done"} => fate'[m] # "disp"
                      /\ fate'[n] \in {"run", "done"} => fate'[m] \notin {"ch", "run"}
    BY <1>1 DEF NoPassing
  <2>1. m # n
    BY <1>2
  <2>2. CASE n = h
    <3>1. fate[m] # "ch"
      <4>1. acc[m] \in Nat /\ acc[h] \in Nat
        BY <1>2, <1>3
      <4>2. ~(acc[h] < acc[m])
        BY <2>2, <4>1
      <4> QED BY <1>3, <1>4, <1>5, <2>1, <2>2, <4>2
    <3>2. fate[m] # "run"
      BY <1>5, <1>6, <2>2, InboundQueueAssumption DEF OrderInv, Places
    <3> QED BY <1>5, <1>8, <2>1, <2>2, <3>1, <3>2 DEF OrderInv, NoPassing
  <2>3. CASE m = h
    BY <1>5, <1>8, <2>1, <2>3 DEF OrderInv, NoPassing
  <2>4. CASE n # h /\ m # h
    BY <1>8, <2>4 DEF OrderInv, NoPassing
  <2> QED BY <2>2, <2>3, <2>4
<1>14. SteersEarlierRun'
  BY <1>1, <1>5, <1>7, <1>8 DEF OrderInv, SteersEarlierRun
<1> QED BY <1>9, <1>10, <1>11, <1>12, <1>13, <1>14 DEF OrderInv

\* A run that ends, in a worker or inline, leaves its message behind as done.
LEMMA RunOver ==
  ASSUME Inv, OrderInv, NEW w \in Msg, fate[w] = "run", fate' = [fate EXCEPT ![w] = "done"],
         UNCHANGED <<inbound, ch, acc>>
  PROVE  Numbers' /\ Lines' /\ NoPassing'
         /\ fate'[w] = "done" /\ \A m \in Msg : m # w => fate'[m] = fate[m]
<1>1. fate'[w] = "done" /\ \A m \in Msg : m # w => fate'[m] = fate[m]
  BY DEF Inv, Types
<1>2. Numbers'
  BY <1>1 DEF OrderInv, Numbers, NumAccepted
<1>3. Lines'
  BY <1>1 DEF OrderInv, Lines, Member, Ordered
<1>4. NoPassing'
  BY <1>1 DEF OrderInv, NoPassing
<1> QED BY <1>1, <1>2, <1>3, <1>4

LEMMA WorkerReleaseOrder ==
  ASSUME Inv, OrderInv, NEW k \in Key, WorkerRelease(k) PROVE OrderInv'
<1>1. /\ worker[k] = "release" /\ fate' = [fate EXCEPT ![wmsg[k]] = "done"]
      /\ worker' = [worker EXCEPT ![k] = "deactivate"]
      /\ wmsg' = [wmsg EXCEPT ![k] = NoMsg]
      /\ UNCHANGED <<inbound, disp, ch, acc, queue>>
  BY DEF WorkerRelease
<1>2. wmsg \in [Key -> Msg \cup {NoMsg}] /\ worker \in [Key -> WorkerPlaces]
  BY DEF Inv, Types
<1>3. wmsg[k] \in Msg /\ Bucket[wmsg[k]] = k /\ fate[wmsg[k]] = "run"
  BY <1>1, <1>2 DEF Inv, Hands, Busy, OrderInv, Places
<1>4. queue /\ disp.at # "inline"
  BY <1>1 DEF Inv, Types, OrderInv, Modes
<1>5. /\ Numbers' /\ Lines' /\ NoPassing' /\ fate'[wmsg[k]] = "done"
      /\ \A m \in Msg : m # wmsg[k] => fate'[m] = fate[m]
  BY <1>1, <1>3, RunOver
<1>6. wmsg'[k] = NoMsg /\ \A l \in Key : l # k => wmsg'[l] = wmsg[l]
  BY <1>1, <1>2
<1>7. Places'
  <2>1. \A m \in Msg : fate'[m] = "disp" <=> disp'.at \in Holding /\ disp'.msg = m
    BY <1>1, <1>3, <1>5 DEF OrderInv, Places
  <2>2. \A l \in Key : wmsg'[l] # NoMsg => Bucket[wmsg'[l]] = l
    BY <1>6 DEF OrderInv, Places
  <2>3. ASSUME NEW m \in Msg
        PROVE  fate'[m] = "run" <=> wmsg'[Bucket[m]] = m \/ (disp'.at = "inline" /\ disp'.msg = m)
    <3>1. Bucket[m] \in Key /\ m # NoMsg
      BY InboundQueueAssumption
    <3>2. fate[m] = "run" <=> wmsg[Bucket[m]] = m
      BY <1>4 DEF OrderInv, Places
    <3>3. CASE m = wmsg[k]
      BY <1>1, <1>3, <1>4, <1>5, <1>6, <3>1, <3>3
    <3>4. CASE m # wmsg[k]
      BY <1>1, <1>4, <1>5, <1>6, <3>1, <3>2, <3>4
    <3> QED BY <3>3, <3>4
  <2> QED BY <2>1, <2>2, <2>3 DEF Places
<1>8. Modes'
  BY <1>1, <1>4 DEF Modes
<1>9. SteersEarlierRun'
  BY <1>1, <1>5, <1>6 DEF OrderInv, SteersEarlierRun
<1> QED BY <1>5, <1>7, <1>8, <1>9 DEF OrderInv

\* Without the queue no worker holds a message.
LEMMA InlineAlone ==
  ASSUME Inv, OrderInv, ~queue
  PROVE  /\ \A k \in Key : worker[k] = "none" /\ wmsg[k] = NoMsg
         /\ \A m \in Msg : /\ fate[m] \notin {"disp", "ch", "steer"}
                           /\ fate[m] = "run" <=> disp.at = "inline" /\ disp.msg = m
<1>1. \A k \in Key : worker[k] = "none" /\ wmsg[k] = NoMsg
  BY DEF Inv, Hands, Busy, OrderInv, Modes
<1>2. \A m \in Msg : Bucket[m] \in Key /\ m # NoMsg
  BY InboundQueueAssumption
<1> QED BY <1>1, <1>2 DEF OrderInv, Places, Modes

LEMMA InlineBeginOrder == ASSUME Inv, OrderInv, InlineBegin PROVE OrderInv'
<1>1. /\ ~queue /\ disp.at = "consume" /\ inbound # <<>>
      /\ inbound' = Tail(inbound) /\ disp' = [at |-> "inline", msg |-> Head(inbound)]
      /\ fate' = [fate EXCEPT ![Head(inbound)] = "run"]
      /\ UNCHANGED <<ch, wmsg, worker, acc, queue>>
  BY DEF InlineBegin, Take
<1>2. /\ Numbers' /\ Lines'
      /\ Head(inbound) \in Msg /\ fate'[Head(inbound)] = "run"
      /\ \A m \in Msg : m # Head(inbound) => fate'[m] = fate[m]
  BY <1>1, BusTaken
<1>3. /\ fate[Head(inbound)] = "inbound"
      /\ \A m \in Msg : fate[m] = "inbound" /\ m # Head(inbound) => acc[Head(inbound)] < acc[m]
  BY <1>1, BusDeparture
<1>4. /\ \A k \in Key : worker[k] = "none" /\ wmsg[k] = NoMsg
      /\ \A m \in Msg : fate[m] \notin {"disp", "ch", "steer", "run"}
  <2>1. ~queue /\ disp.at # "inline"
    BY <1>1
  <2>2. /\ \A k \in Key : worker[k] = "none" /\ wmsg[k] = NoMsg
        /\ \A m \in Msg : /\ fate[m] \notin {"disp", "ch", "steer"}
                          /\ fate[m] = "run" <=> disp.at = "inline" /\ disp.msg = m
    BY <2>1, InlineAlone
  <2> QED BY <2>1, <2>2
<1>5. \A m \in Msg : Bucket[m] \in Key /\ m # NoMsg
  BY InboundQueueAssumption
<1>6. Places'
  BY <1>1, <1>2, <1>4, <1>5 DEF Places, Holding
<1>7. Modes'
  BY <1>1, <1>2, <1>4 DEF Modes
<1>8. NoPassing'
  <2>1. acc \in [Msg -> Nat]
    BY DEF Inv, Types
  <2> SUFFICES ASSUME NEW m \in Msg, NEW n \in Msg, Bucket[m] = Bucket[n],
                      acc[m] # 0, acc[m] < acc[n]
               PROVE  /\ fate'[n] \in {"disp", "ch", "steer", "run", "done"} => fate'[m] # "inbound"
                      /\ fate'[n] \in {"ch", "steer", "run", "done"} => fate'[m] # "disp"
                      /\ fate'[n] \in {"run", "done"} => fate'[m] \notin {"ch", "run"}
    BY <1>1 DEF NoPassing
  <2>2. m # n
    BY <2>1
  <2>3. CASE n = Head(inbound)
    <3>1. fate[m] # "inbound"
      BY <1>2, <1>3, <2>1, <2>2, <2>3
    <3> QED BY <1>2, <1>4, <2>2, <2>3, <3>1
  <2>4. CASE m = Head(inbound)
    BY <1>2, <1>3, <2>2, <2>4 DEF OrderInv, NoPassing
  <2>5. CASE n # Head(inbound) /\ m # Head(inbound)
    BY <1>2, <2>5 DEF OrderInv, NoPassing
  <2> QED BY <2>3, <2>4, <2>5
<1>9. SteersEarlierRun'
  BY <1>1, <1>4 DEF SteersEarlierRun
<1> QED BY <1>2, <1>6, <1>7, <1>8, <1>9 DEF OrderInv

LEMMA InlineEndOrder == ASSUME Inv, OrderInv, InlineEnd PROVE OrderInv'
<1>1. /\ disp.at = "inline" /\ fate' = [fate EXCEPT ![disp.msg] = "done"]
      /\ disp' = [at |-> "consume", msg |-> NoMsg]
      /\ UNCHANGED <<inbound, ch, wmsg, worker, acc, queue>>
  BY DEF InlineEnd
<1>2. ~queue /\ disp.msg \in Msg
  BY <1>1 DEF Inv, Types, Hands, OrderInv, Modes
<1>3. /\ \A k \in Key : worker[k] = "none" /\ wmsg[k] = NoMsg
      /\ \A m \in Msg : /\ fate[m] \notin {"disp", "ch", "steer"}
                        /\ fate[m] = "run" <=> disp.msg = m
  BY <1>1, <1>2, InlineAlone
<1>4. /\ Numbers' /\ Lines' /\ NoPassing' /\ fate'[disp.msg] = "done"
      /\ \A m \in Msg : m # disp.msg => fate'[m] = fate[m]
  BY <1>1, <1>2, <1>3, RunOver
<1>5. \A m \in Msg : Bucket[m] \in Key /\ m # NoMsg
  BY InboundQueueAssumption
<1>6. \A m \in Msg : fate'[m] \notin {"disp", "ch", "steer", "run"}
  BY <1>3, <1>4
<1>7. Places'
  BY <1>1, <1>3, <1>5, <1>6 DEF Places, Holding
<1>8. Modes'
  BY <1>1, <1>2, <1>3, <1>6 DEF Modes
<1>9. SteersEarlierRun'
  BY <1>1, <1>3 DEF SteersEarlierRun
<1> QED BY <1>4, <1>7, <1>8, <1>9 DEF OrderInv

-----------------------------------------------------------------------------
LEMMA InitOrder == Init => OrderInv
<1> SUFFICES ASSUME Init PROVE OrderInv
  OBVIOUS
<1> USE InboundQueueAssumption
<1>1. Places
  BY DEF Init, Places, Holding
<1>2. Modes
  BY DEF Init, Modes
<1>3. Numbers
  <2>1. {m \in Msg : acc[m] # 0} = {}
    BY DEF Init
  <2>2. NumAccepted = 0
    BY <2>1, FS_EmptySet DEF NumAccepted
  <2> QED BY <2>2 DEF Init, Numbers
<1>4. Lines
  BY DEF Init, Lines, Member, Ordered
<1>5. NoPassing
  BY DEF Init, NoPassing
<1>6. SteersEarlierRun
  BY DEF Init, SteersEarlierRun
<1> QED BY <1>1, <1>2, <1>3, <1>4, <1>5, <1>6 DEF OrderInv

LEMMA OrderStep == Inv /\ OrderInv /\ [Next]_vars => OrderInv'
<1> SUFFICES ASSUME Inv, OrderInv, [Next]_vars PROVE OrderInv'
  OBVIOUS
<1>1. ASSUME NEW m \in Msg, Publisher(m) PROVE OrderInv'
  <2>1. CASE PublishSend(m)
    BY <2>1, PublishSendOrder
  <2>2. CASE PublishCheck(m) \/ PublishGiveUp(m)
    BY <2>2, QuietPublisher, QuietStep
  <2> QED BY <1>1, <2>1, <2>2 DEF Publisher
<1>2. ASSUME NEW s \in Source, Deliver(s) PROVE OrderInv'
  BY <1>2, QuietOthers, QuietStep
<1>3. ASSUME NEW j \in Job, JobBegin(j) \/ JobEnd(j) PROVE OrderInv'
  BY <1>3, QuietOthers, QuietStep
<1>4. ASSUME NEW k \in Key, Worker(k) PROVE OrderInv'
  <2>1. CASE WorkerTake(k)
    BY <2>1, WorkerTakeOrder
  <2>2. CASE WorkerRelease(k)
    BY <2>2, WorkerReleaseOrder
  <2>3. CASE \/ WorkerExit(k) \/ WorkerActivate(k) \/ WorkerAcquire(k) \/ RunIterate(k)
             \/ RunEnd(k) \/ RunReply(k) \/ WorkerDeactivate(k)
    BY <2>3, QuietWorker, QuietStep
  <2> QED BY <1>4, <2>1, <2>2, <2>3 DEF Worker
<1>5. ASSUME Dispatcher PROVE OrderInv'
  <2>1. CASE DispReturn \/ DispRoute
    BY <2>1, QuietDispatcher, QuietStep
  <2>2. CASE DispConsume \/ DispSteer \/ DispSend
    BY <2>2, DispConsumeOrder, DispSteerOrder, DispSendOrder
  <2>3. CASE InlineBegin \/ InlineEnd
    BY <2>3, InlineBeginOrder, InlineEndOrder
  <2> QED BY <1>5, <2>1, <2>2, <2>3 DEF Dispatcher
<1>6. ASSUME Shutdown PROVE OrderInv'
  BY <1>6, QuietOthers, QuietStep, CloseDrainOrder DEF Shutdown
<1>7. CASE UNCHANGED vars
  BY <1>7, QuietOthers, QuietStep
<1> QED BY <1>1, <1>2, <1>3, <1>4, <1>5, <1>6, <1>7 DEF Next

\* In every reachable state fate and the channels agree, every channel is in
\* the order in which the bus took its messages, and no message of a bucket
\* is ahead of an earlier one (loop.go:378-429).
THEOREM InOrder == Spec => []OrderInv
<1>1. Inv /\ OrderInv /\ [Next]_vars => OrderInv'
  BY OrderStep
<1> QED BY <1>1, Invariant, InitOrder, PTL DEF Spec

\* One bucket runs its messages one at a time, in the order the bus took them,
\* whatever the number of messages, buckets and run slots and the capacities
\* of the channels (loop.go:378, "strict in-order processing").
THEOREM BucketInOrder == Spec => []BucketFIFO
<1>1. Inv /\ OrderInv => BucketFIFO
  <2> SUFFICES ASSUME Inv, OrderInv, NEW m \in Msg, NEW n \in Msg,
                      Bucket[m] = Bucket[n], acc[m] # 0, acc[m] < acc[n],
                      fate[n] \in {"run", "done"}
               PROVE  fate[m] \notin {"inbound", "disp", "ch", "run"}
    BY DEF BucketFIFO
  <2> QED BY DEF OrderInv, NoPassing
<1> QED BY <1>1, Invariant, InOrder, PTL

\* Steering only reaches the run of a message the user sent before it
\* (loop.go:385-394).
THEOREM SteeringReachesEarlierRun == Spec => []SteersEarlierRun
<1>1. OrderInv => SteersEarlierRun
  BY DEF OrderInv
<1> QED BY <1>1, InOrder, PTL

-----------------------------------------------------------------------------
(***************************************************************************)
(* InboundQueue implements SessionQueues, for every instance: each step of *)
(* the bus, the dispatcher, the workers and the shutdown is a step of the  *)
(* abstract queues or changes nothing they see.                            *)
(***************************************************************************)

\* Only steering is offered to the inbox, and only a cancelled gateway closes
\* its bus.
Guards ==
  /\ disp.at = "steer" => disp.msg \in Steering
  /\ closing # "open" => ctxDone

GInv == Inv /\ OrderInv /\ Guards

LEMMA GuardsStep == Inv /\ Guards /\ [Next]_vars => Guards'
<1> SUFFICES ASSUME Inv, Guards, [Next]_vars PROVE Guards'
  OBVIOUS
<1>0. disp \in [at : DispPlaces, msg : Msg \cup {NoMsg}]
  BY DEF Inv, Types
<1>1. ASSUME UNCHANGED <<disp, closing, ctxDone>> PROVE Guards'
  BY <1>1 DEF Guards
<1>2. ASSUME NEW m \in Msg, Publisher(m) PROVE Guards'
  BY <1>1, <1>2 DEF Publisher, PublishCheck, PublishSend, PublishGiveUp
<1>3. ASSUME NEW s \in Source, Deliver(s) PROVE Guards'
  BY <1>1, <1>3 DEF Deliver
<1>4. ASSUME NEW j \in Job, JobBegin(j) \/ JobEnd(j) PROVE Guards'
  BY <1>1, <1>4 DEF JobBegin, JobEnd
<1>5. ASSUME NEW k \in Key, Worker(k) PROVE Guards'
  BY <1>1, <1>5 DEF Worker, WorkerTake, WorkerExit, WorkerActivate, WorkerAcquire,
     RunIterate, RunEnd, RunReply, WorkerRelease, WorkerDeactivate
<1>6. ASSUME Dispatcher PROVE Guards'
  <2>1. UNCHANGED <<closing, ctxDone>>
    BY <1>6 DEF Dispatcher, DispConsume, DispReturn, DispRoute, DispSteer, DispSend,
       InlineBegin, InlineEnd
  <2>2. disp'.at = "steer" => disp'.msg \in Steering
    <3>1. CASE DispRoute
      BY <1>0, <3>1 DEF DispRoute
    <3>2. CASE DispConsume \/ DispReturn \/ DispSteer \/ DispSend \/ InlineBegin \/ InlineEnd
      BY <1>0, <3>2 DEF DispConsume, DispReturn, DispSteer, DispSend, InlineBegin,
         InlineEnd, Take
    <3> QED BY <1>6, <3>1, <3>2 DEF Dispatcher
  <2> QED BY <2>1, <2>2 DEF Guards
<1>7. ASSUME Shutdown PROVE Guards'
  BY <1>7 DEF Guards, Shutdown, Cancel, CloseFlag, CloseDone, CloseDrain, Stop
<1>8. CASE UNCHANGED vars
  BY <1>1, <1>8 DEF vars
<1> QED BY <1>2, <1>3, <1>4, <1>5, <1>6, <1>7, <1>8 DEF Next

LEMMA Reachable == Spec => []GInv
<1>1. Init => Guards
  BY DEF Init, Guards
<1>2. Inv /\ Guards /\ [Next]_vars => Guards'
  BY GuardsStep
<1>3. Spec => []Guards
  BY <1>1, <1>2, Invariant, PTL DEF Spec
<1> QED BY <1>3, Invariant, InOrder, PTL DEF GInv

-----------------------------------------------------------------------------
\* The abstract queues count with the same operator.
LEMMA SameCount == ASSUME NEW S PROVE SQ!Cardinality(S) = Cardinality(S)
BY DEF SQ!Cardinality, Cardinality

LEMMA InitMaps == Init => SQ!Init
<1> SUFFICES ASSUME Init PROVE SQ!Init
  OBVIOUS
<1>1. acc = [m \in Msg |-> 0] /\ ~ctxDone
  BY DEF Init
<1>2. {m \in Msg : Waiting(m)} = {}
  BY DEF Init, Waiting
<1>3. \A k \in Key : Current(k) = NoMsg
  BY DEF Init, Current
<1>4. {m \in Msg : fate[m] = "steer"} = {}
  BY DEF Init
<1> QED BY <1>1, <1>2, <1>3, <1>4 DEF SQ!Init

\* A step that moves no message as far as the abstract queues see.
LEMMA Stays ==
  ASSUME UNCHANGED <<acc, ctxDone>>,
         \A m \in Msg : Waiting(m)' <=> Waiting(m),
         \A k \in Key : Current(k)' = Current(k),
         \A m \in Msg : fate'[m] = "steer" <=> fate[m] = "steer"
  PROVE  UNCHANGED SQ!vars
BY DEF SQ!vars

\* The worker moves without beginning or ending a run.
LEMMA WorkerMoves ==
  ASSUME UNCHANGED <<acc, ctxDone, disp, wmsg, fate>>,
         \A k \in Key : /\ worker'[k] \in {"taken", "sem"} <=> worker[k] \in {"taken", "sem"}
                        /\ worker'[k] \in InRun <=> worker[k] \in InRun
  PROVE  UNCHANGED SQ!vars
<1>1. \A m \in Msg : Bucket[m] \in Key
  BY InboundQueueAssumption
<1>2. \A m \in Msg : Waiting(m)' <=> Waiting(m)
  BY <1>1 DEF Waiting
<1>3. \A k \in Key : Current(k)' = Current(k)
  BY DEF Current
<1> QED BY <1>2, <1>3, Stays

LEMMA PublisherMaps ==
  ASSUME GInv, NEW m \in Msg, Publisher(m) PROVE [SQ!Next]_SQ!vars
<1>0. fate \in [Msg -> Fates] /\ acc \in [Msg -> Nat]
  BY DEF GInv, Inv, Types
<1>1. CASE PublishCheck(m) \/ PublishGiveUp(m)
  <2>1. /\ UNCHANGED <<acc, ctxDone, disp, wmsg, worker>>
        /\ fate[m] \in {"new", "select"} /\ fate'[m] \in {"select", "rejected"}
        /\ \A n \in Msg : n # m => fate'[n] = fate[n]
    BY <1>0, <1>1 DEF PublishCheck, PublishGiveUp
  <2>2. \A n \in Msg : Waiting(n)' <=> Waiting(n)
    BY <2>1 DEF Waiting
  <2>3. \A k \in Key : Current(k)' = Current(k)
    BY <2>1 DEF Current
  <2>4. \A n \in Msg : fate'[n] = "steer" <=> fate[n] = "steer"
    BY <2>1
  <2> QED BY <2>1, <2>2, <2>3, <2>4, Stays
<1>2. CASE PublishSend(m)
  <2>1. /\ UNCHANGED <<ctxDone, disp, wmsg, worker>> /\ fate[m] = "select"
        /\ fate' = [fate EXCEPT ![m] = "inbound"]
        /\ acc' = [acc EXCEPT ![m] = NumAccepted + 1]
    BY <1>2 DEF PublishSend
  <2>2. fate'[m] = "inbound" /\ \A n \in Msg : n # m => fate'[n] = fate[n]
    BY <1>0, <2>1
  <2>3. acc[m] = 0
    BY <2>1 DEF GInv, OrderInv, Numbers
  <2>4. \A n \in Msg : Waiting(n)' <=> Waiting(n) \/ n = m
    BY <2>1, <2>2 DEF Waiting
  <2>5. \A k \in Key : Current(k)' = Current(k)
    BY <2>1 DEF Current
  <2>6. \A n \in Msg : fate'[n] = "steer" <=> fate[n] = "steer"
    BY <2>1, <2>2
  <2>7. SQ!Accept(m)
    <3>1. acc' = [acc EXCEPT ![m] = SQ!Cardinality({n \in Msg : acc[n] # 0}) + 1]
      BY <2>1, SameCount DEF NumAccepted
    <3>2. {n \in Msg : Waiting(n)}' = {n \in Msg : Waiting(n)} \cup {m}
      BY <2>4
    <3>3. UNCHANGED [k \in Key |-> Current(k)]
      BY <2>5
    <3>4. UNCHANGED {n \in Msg : fate[n] = "steer"} /\ UNCHANGED ~ctxDone
      BY <2>1, <2>6
    <3> QED BY <2>3, <3>1, <3>2, <3>3, <3>4 DEF SQ!Accept
  <2> QED BY <2>7 DEF SQ!Next
<1> QED BY <1>1, <1>2 DEF Publisher

LEMMA OthersMap ==
  ASSUME GInv,
         \/ \E s \in Source : Deliver(s)
         \/ \E j \in Job : JobBegin(j) \/ JobEnd(j)
         \/ UNCHANGED vars
  PROVE  UNCHANGED SQ!vars
<1>1. UNCHANGED <<acc, ctxDone, disp, wmsg, worker, fate>>
  BY DEF Deliver, JobBegin, JobEnd, vars
<1> QED BY <1>1, WorkerMoves

LEMMA ShutdownMaps == ASSUME GInv, Shutdown PROVE [SQ!Next]_SQ!vars
<1>1. CASE CloseFlag \/ CloseDone \/ Stop
  <2>1. UNCHANGED <<acc, ctxDone, disp, wmsg, worker, fate>>
    BY <1>1 DEF CloseFlag, CloseDone, Stop
  <2> QED BY <2>1, WorkerMoves
<1>2. CASE Cancel
  <2>1. UNCHANGED <<acc, disp, wmsg, worker, fate>> /\ ctxDone'
    BY <1>2 DEF Cancel
  <2>2. \A m \in Msg : Waiting(m)' <=> Waiting(m)
    BY <2>1 DEF Waiting
  <2>3. \A k \in Key : Current(k)' = Current(k)
    BY <2>1 DEF Current
  <2>4. SQ!Shut
    BY <2>1, <2>2, <2>3 DEF SQ!Shut
  <2> QED BY <2>4 DEF SQ!Next
<1>3. CASE CloseDrain /\ inbound = <<>>
  <2>1. UNCHANGED <<acc, ctxDone, disp, wmsg, worker, fate>>
    BY <1>3 DEF CloseDrain
  <2> QED BY <2>1, WorkerMoves
<1>4. CASE CloseDrain /\ inbound # <<>>
  <2>1. /\ UNCHANGED <<acc, ctxDone, disp, wmsg, worker>>
        /\ fate' = [fate EXCEPT ![Head(inbound)] = "drained"]
    BY <1>4 DEF CloseDrain
  <2>2. Head(inbound) \in Msg /\ fate[Head(inbound)] = "inbound" /\ ctxDone
    BY <1>4, BusDeparture DEF GInv, Guards, CloseDrain
  <2>3. fate'[Head(inbound)] = "drained" /\ \A n \in Msg : n # Head(inbound) => fate'[n] = fate[n]
    BY <2>1, <2>2 DEF GInv, Inv, Types
  <2>4. \A n \in Msg : Waiting(n)' <=> Waiting(n) /\ n # Head(inbound)
    BY <2>1, <2>3 DEF Waiting
  <2>5. \A k \in Key : Current(k)' = Current(k)
    BY <2>1 DEF Current
  <2>6. \A n \in Msg : fate'[n] = "steer" <=> fate[n] = "steer"
    BY <2>2, <2>3
  <2>7. Waiting(Head(inbound))
    BY <2>2 DEF Waiting
  <2>8. SQ!Drop(Head(inbound))
    BY <2>1, <2>2, <2>4, <2>5, <2>6, <2>7 DEF SQ!Drop
  <2> QED BY <2>2, <2>8 DEF SQ!Next
<1> QED BY <1>1, <1>2, <1>3, <1>4 DEF Shutdown

-----------------------------------------------------------------------------
(* The dispatcher.                                                          *)

\* The dispatcher moves a waiting message to another place where it waits.
LEMMA StillWaits ==
  ASSUME GInv, NEW m \in Msg, fate[m] \in {"inbound", "disp"},
         NEW p \in {"disp", "ch"}, fate' = [fate EXCEPT ![m] = p],
         UNCHANGED <<acc, ctxDone, wmsg>>,
         \A k \in Key : worker'[k] \in InRun \cup {"taken", "sem"} \/ worker[k] \in InRun \cup {"taken", "sem"}
                        => worker'[k] = worker[k],
         disp.at # "inline" /\ disp'.at # "inline"
  PROVE  UNCHANGED SQ!vars
<1>1. fate'[m] = p /\ \A n \in Msg : n # m => fate'[n] = fate[n]
  BY DEF GInv, Inv, Types
<1>2. \A n \in Msg : Bucket[n] \in Key
  BY InboundQueueAssumption
<1>3. \A n \in Msg : Waiting(n)' <=> Waiting(n)
  BY <1>1, <1>2 DEF Waiting
<1>4. \A k \in Key : Current(k)' = Current(k)
  BY DEF Current
<1>5. \A n \in Msg : fate'[n] = "steer" <=> fate[n] = "steer"
  BY <1>1
<1> QED BY <1>3, <1>4, <1>5, Stays

LEMMA DispConsumeMaps == ASSUME GInv, DispConsume PROVE UNCHANGED SQ!vars
<1>1. /\ UNCHANGED <<acc, ctxDone, wmsg>> /\ disp.at # "inline" /\ disp'.at # "inline"
      /\ fate' = [fate EXCEPT ![Head(inbound)] = "disp"] /\ inbound # <<>>
      /\ worker' = [worker EXCEPT ![Bucket[Head(inbound)]] = IF @ = "none" THEN "idle" ELSE @]
  BY DEF DispConsume, Take
<1>2. Head(inbound) \in Msg /\ fate[Head(inbound)] = "inbound"
  BY <1>1, BusDeparture DEF GInv
<1>3. \A k \in Key : worker'[k] = worker[k] \/ (worker[k] = "none" /\ worker'[k] = "idle")
  BY <1>1, <1>2, InboundQueueAssumption DEF GInv, Inv, Types
<1>4. \A k \in Key : worker'[k] \in InRun \cup {"taken", "sem"} \/ worker[k] \in InRun \cup {"taken", "sem"}
                     => worker'[k] = worker[k]
  BY <1>3
<1> QED BY <1>1, <1>2, <1>4, StillWaits

LEMMA DispSendMaps == ASSUME GInv, DispSend PROVE UNCHANGED SQ!vars
<1>1. /\ UNCHANGED <<acc, ctxDone, wmsg, worker>> /\ disp.at = "send" /\ disp'.at # "inline"
      /\ fate' = [fate EXCEPT ![disp.msg] = "ch"]
  BY DEF DispSend
<1>2. disp.msg \in Msg
  BY <1>1 DEF GInv, Inv, Hands, Holding
<1>3. fate[disp.msg] = "disp"
  BY <1>1, <1>2 DEF GInv, OrderInv, Places, Holding
<1> QED BY <1>1, <1>2, <1>3, StillWaits

LEMMA DispSteerMaps == ASSUME GInv, DispSteer PROVE [SQ!Next]_SQ!vars
<1>0. /\ UNCHANGED <<acc, ctxDone, wmsg, worker>> /\ disp.at = "steer"
      /\ disp.msg \in Msg /\ disp.msg \in Steering
  BY DEF DispSteer, GInv, Guards, Inv, Hands, Holding
<1>1. fate[disp.msg] = "disp"
  BY <1>0 DEF GInv, OrderInv, Places, Holding
<1>2. CASE Len(steer[Bucket[disp.msg]]) < SteerCap
  <2>1. fate' = [fate EXCEPT ![disp.msg] = "steer"] /\ disp'.at = "consume"
    BY <1>2 DEF DispSteer
  <2>2. /\ fate'[disp.msg] = "steer"
        /\ \A n \in Msg : n # disp.msg => fate'[n] = fate[n]
    BY <1>0, <2>1 DEF GInv, Inv, Types
  <2>3. \A n \in Msg : Waiting(n)' <=> Waiting(n) /\ n # disp.msg
    BY <1>0, <2>2 DEF Waiting
  <2>4. Waiting(disp.msg)
    BY <1>1 DEF Waiting
  <2>5. \A k \in Key : Current(k)' = Current(k)
    BY <1>0, <2>1 DEF Current
  <2>6. PICK m \in Msg : m = disp.msg
    BY <1>0
  <2>7. SQ!SetAside(m)
    <3>1. {n \in Msg : Waiting(n)}' = {n \in Msg : Waiting(n)} \ {m}
      BY <2>3, <2>6
    <3>2. m \in {n \in Msg : Waiting(n)} \cap Steering
      BY <1>0, <2>4, <2>6
    <3>3. {n \in Msg : fate[n] = "steer"}' = {n \in Msg : fate[n] = "steer"} \cup {m}
      BY <1>0, <2>2, <2>6
    <3> QED BY <1>0, <2>5, <3>1, <3>2, <3>3 DEF SQ!SetAside
  <2> QED BY <2>7 DEF SQ!Next
<1>3. CASE ~(Len(steer[Bucket[disp.msg]]) < SteerCap)
  <2>1. disp' = [disp EXCEPT !.at = "send"] /\ UNCHANGED fate
    BY <1>3 DEF DispSteer
  <2>2. disp'.at # "inline"
    BY <2>1 DEF GInv, Inv, Types
  <2>3. \A m \in Msg : Waiting(m)' <=> Waiting(m)
    BY <1>0, <2>1 DEF Waiting
  <2>4. \A k \in Key : Current(k)' = Current(k)
    BY <1>0, <2>2 DEF Current
  <2> QED BY <1>0, <2>1, <2>3, <2>4, Stays
<1> QED BY <1>2, <1>3

LEMMA DispIdleMaps == ASSUME GInv, DispReturn \/ DispRoute PROVE UNCHANGED SQ!vars
<1>1. UNCHANGED <<acc, ctxDone, wmsg, worker, fate>> /\ disp.at # "inline"
  BY DEF DispReturn, DispRoute
<1>2. disp'.at # "inline"
  BY DEF DispReturn, DispRoute, GInv, Inv, Types
<1>3. \A m \in Msg : Waiting(m)' <=> Waiting(m)
  BY <1>1 DEF Waiting
<1>4. \A k \in Key : Current(k)' = Current(k)
  BY <1>1, <1>2 DEF Current
<1> QED BY <1>1, <1>3, <1>4, Stays

LEMMA InlineBeginMaps == ASSUME GInv, InlineBegin PROVE [SQ!Next]_SQ!vars
<1> DEFINE h == Head(inbound)
<1>1. /\ ~queue /\ disp.at = "consume" /\ inbound # <<>>
      /\ fate' = [fate EXCEPT ![h] = "run"] /\ disp' = [at |-> "inline", msg |-> h]
      /\ UNCHANGED <<acc, ctxDone, wmsg, worker>>
  BY DEF InlineBegin, Take
<1>2. h \in Msg /\ fate[h] = "inbound" /\ Bucket[h] \in Key
  BY <1>1, BusDeparture, InboundQueueAssumption DEF GInv
<1>3. \A m \in Msg : fate[m] = "inbound" /\ m # h => acc[h] < acc[m]
  BY <1>1, BusDeparture DEF GInv
<1>4. \A k \in Key : worker[k] = "none" /\ wmsg[k] = NoMsg
  BY <1>1, InlineAlone DEF GInv
<1>5. \A m \in Msg : fate[m] \notin {"disp", "ch"}
  BY <1>1, InlineAlone DEF GInv
<1> HIDE DEF h
<1>6. fate'[h] = "run" /\ \A n \in Msg : n # h => fate'[n] = fate[n]
  BY <1>1, <1>2 DEF GInv, Inv, Types
<1>7. \A n \in Msg : Waiting(n) <=> fate[n] = "inbound"
  BY <1>4, <1>5, InboundQueueAssumption DEF Waiting
<1>8. \A n \in Msg : Waiting(n)' <=> Waiting(n) /\ n # h
  <2>1. \A n \in Msg : Waiting(n)' <=> fate'[n] = "inbound"
    BY <1>1, <1>2, <1>4, <1>5, <1>6, InboundQueueAssumption DEF Waiting
  <2> QED BY <1>6, <1>7, <2>1
<1>9. \A k \in Key : Current(k) = NoMsg /\ Current(k)' = IF k = Bucket[h] THEN h ELSE NoMsg
  BY <1>1, <1>4 DEF Current
<1>10. SQ!Start(h)
  <2>1. h \in {n \in Msg : Waiting(n)}
    BY <1>2, <1>7
  <2>2. \A n \in {p \in Msg : Waiting(p)} : Bucket[n] = Bucket[h] => acc[h] <= acc[n]
    <3>1. acc \in [Msg -> Nat]
      BY DEF GInv, Inv, Types
    <3> QED BY <1>2, <1>3, <1>7, <3>1
  <2>3. [k \in Key |-> Current(k)][Bucket[h]] = NoMsg
    BY <1>2, <1>9
  <2>4. SQ!Cardinality(SQ!Running) < MaxConcurrency
    <3>1. SQ!Running = {}
      BY <1>9 DEF SQ!Running
    <3> QED BY <3>1, SameCount, FS_EmptySet, InboundQueueAssumption
  <2>5. {n \in Msg : Waiting(n)}' = {n \in Msg : Waiting(n)} \ {h}
    BY <1>8
  <2>6. [k \in Key |-> Current(k)]' = [[k \in Key |-> Current(k)] EXCEPT ![Bucket[h]] = h]
    BY <1>2, <1>9
  <2>7. UNCHANGED <<acc, {n \in Msg : fate[n] = "steer"}, ~ctxDone>>
    BY <1>1, <1>2, <1>6
  <2> QED BY <2>1, <2>2, <2>3, <2>4, <2>5, <2>6, <2>7 DEF SQ!Start
<1> QED BY <1>2, <1>10 DEF SQ!Next

LEMMA InlineEndMaps == ASSUME GInv, InlineEnd PROVE [SQ!Next]_SQ!vars
<1> DEFINE h == disp.msg
<1>1. /\ disp.at = "inline" /\ fate' = [fate EXCEPT ![h] = "done"]
      /\ disp' = [at |-> "consume", msg |-> NoMsg]
      /\ UNCHANGED <<acc, ctxDone, wmsg, worker>>
  BY DEF InlineEnd
<1>2. ~queue /\ h \in Msg /\ Bucket[h] \in Key /\ h # NoMsg
  BY <1>1, InboundQueueAssumption DEF GInv, Inv, Types, Hands, OrderInv, Modes
<1>3. \A k \in Key : worker[k] = "none" /\ wmsg[k] = NoMsg
  BY <1>2, InlineAlone DEF GInv
<1>4. fate[h] = "run"
  BY <1>1, <1>2, InlineAlone DEF GInv
<1>5. fate'[h] = "done" /\ \A n \in Msg : n # h => fate'[n] = fate[n]
  BY <1>1, <1>2 DEF GInv, Inv, Types
<1>6. \A n \in Msg : Waiting(n)' <=> Waiting(n)
  BY <1>1, <1>3, <1>4, <1>5, InboundQueueAssumption DEF Waiting
<1>7. \A k \in Key : /\ Current(k) = IF k = Bucket[h] THEN h ELSE NoMsg
                     /\ Current(k)' = NoMsg
  BY <1>1, <1>3 DEF Current
<1>8. \A n \in Msg : fate'[n] = "steer" <=> fate[n] = "steer"
  BY <1>4, <1>5
<1> HIDE DEF h
<1>9. SQ!Finish(Bucket[h])
  <2>1. [k \in Key |-> Current(k)][Bucket[h]] # NoMsg
    BY <1>2, <1>7
  <2>2. [k \in Key |-> Current(k)]' = [[k \in Key |-> Current(k)] EXCEPT ![Bucket[h]] = NoMsg]
    BY <1>2, <1>7
  <2>3. UNCHANGED <<{n \in Msg : Waiting(n)}, {n \in Msg : fate[n] = "steer"}>>
    BY <1>6, <1>8
  <2> QED BY <1>1, <2>1, <2>2, <2>3 DEF SQ!Finish
<1> QED BY <1>2, <1>9 DEF SQ!Next

-----------------------------------------------------------------------------
(* The workers.                                                             *)

\* With the queue, the conversations that run are those that hold a token.
LEMMA RunningHolds ==
  ASSUME GInv, queue PROVE SQ!Cardinality(SQ!Running) = sem
<1>1. disp.at # "inline"
  BY DEF GInv, OrderInv, Modes
<1>2. \A k \in Key : worker[k] \in InRun => wmsg[k] # NoMsg
  BY DEF GInv, Inv, Hands, Busy
<1>3. \A k \in Key : Current(k) # NoMsg <=> worker[k] \in InRun
  BY <1>1, <1>2 DEF Current
<1>4. SQ!Running = Holders
  BY <1>3 DEF SQ!Running, Holders
<1> QED BY <1>4, SameCount DEF GInv, Inv, ConcurrencyBound

\* The message in the hands of the worker of k.
LEMMA Held ==
  ASSUME GInv, NEW k \in Key, worker[k] \in Busy
  PROVE  /\ queue /\ disp.at # "inline"
         /\ wmsg[k] \in Msg /\ Bucket[wmsg[k]] = k /\ fate[wmsg[k]] = "run"
<1>1. queue /\ disp.at # "inline"
  BY DEF GInv, Inv, Types, Busy, OrderInv, Modes
<1>2. wmsg[k] \in Msg /\ Bucket[wmsg[k]] = k
  BY DEF GInv, Inv, Types, Hands, OrderInv, Places
<1>3. fate[wmsg[k]] = "run"
  BY <1>2 DEF GInv, OrderInv, Places
<1> QED BY <1>1, <1>2, <1>3

LEMMA WorkerAcquireMaps ==
  ASSUME GInv, NEW k \in Key, WorkerAcquire(k) PROVE [SQ!Next]_SQ!vars
<1> DEFINE w == wmsg[k]
<1>1. /\ worker[k] = "sem" /\ sem < MaxConcurrency /\ worker' = [worker EXCEPT ![k] = "run"]
      /\ UNCHANGED <<acc, ctxDone, disp, wmsg, fate>>
  BY DEF WorkerAcquire
<1>2. queue /\ disp.at # "inline" /\ w \in Msg /\ Bucket[w] = k /\ fate[w] = "run"
  BY <1>1, Held DEF Busy
<1>3. worker'[k] = "run" /\ \A l \in Key : l # k => worker'[l] = worker[l]
  BY <1>1 DEF GInv, Inv, Types
<1>4. \A m \in Msg : Bucket[m] \in Key
  BY InboundQueueAssumption
<1>5. Waiting(w)
  BY <1>1, <1>2 DEF Waiting
<1>6. ASSUME NEW n \in Msg PROVE Waiting(n)' <=> Waiting(n) /\ n # w
  <2>1. CASE n = w
    BY <1>1, <1>2, <1>3, <2>1 DEF Waiting
  <2>2. CASE n # w /\ Bucket[n] = k
    BY <1>1, <1>3, <2>2 DEF Waiting
  <2>3. CASE Bucket[n] # k
    BY <1>1, <1>2, <1>3, <1>4, <2>3 DEF Waiting
  <2> QED BY <2>1, <2>2, <2>3
<1>7. Current(k) = NoMsg /\ Current(k)' = w
  BY <1>1, <1>2, <1>3 DEF Current
<1>8. \A l \in Key : l # k => Current(l)' = Current(l)
  BY <1>1, <1>3 DEF Current
<1>9. ASSUME NEW n \in Msg, Waiting(n), Bucket[n] = k PROVE acc[w] <= acc[n]
  <2>1. acc[w] \in Nat /\ acc[n] \in Nat
    BY <1>2 DEF GInv, Inv, Types
  <2>2. acc[n] # 0 /\ fate[n] \in {"inbound", "disp", "ch", "run"}
    BY <1>9 DEF GInv, OrderInv, Numbers, Waiting
  <2>3. ~(acc[n] < acc[w])
    BY <1>2, <1>9, <2>2 DEF GInv, OrderInv, NoPassing
  <2> QED BY <2>1, <2>3
<1> HIDE DEF w
<1>10. SQ!Start(w)
  <2>1. w \in {n \in Msg : Waiting(n)}
    BY <1>2, <1>5
  <2>2. \A n \in {p \in Msg : Waiting(p)} : Bucket[n] = Bucket[w] => acc[w] <= acc[n]
    BY <1>2, <1>9
  <2>3. [l \in Key |-> Current(l)][Bucket[w]] = NoMsg
    BY <1>2, <1>7
  <2>4. SQ!Cardinality(SQ!Running) < MaxConcurrency
    BY <1>1, <1>2, RunningHolds
  <2>5. {n \in Msg : Waiting(n)}' = {n \in Msg : Waiting(n)} \ {w}
    BY <1>6
  <2>6. [l \in Key |-> Current(l)]' = [[l \in Key |-> Current(l)] EXCEPT ![Bucket[w]] = w]
    BY <1>2, <1>7, <1>8
  <2>7. UNCHANGED <<acc, {n \in Msg : fate[n] = "steer"}, ~ctxDone>>
    BY <1>1
  <2> QED BY <2>1, <2>2, <2>3, <2>4, <2>5, <2>6, <2>7 DEF SQ!Start
<1>11. w \in Msg
  BY <1>2
<1> QED BY <1>10, <1>11 DEF SQ!Next

LEMMA WorkerReleaseMaps ==
  ASSUME GInv, NEW k \in Key, WorkerRelease(k) PROVE [SQ!Next]_SQ!vars
<1> DEFINE w == wmsg[k]
<1>1. /\ worker[k] = "release" /\ worker' = [worker EXCEPT ![k] = "deactivate"]
      /\ fate' = [fate EXCEPT ![w] = "done"] /\ wmsg' = [wmsg EXCEPT ![k] = NoMsg]
      /\ UNCHANGED <<acc, ctxDone, disp>>
  BY DEF WorkerRelease
<1>2. queue /\ disp.at # "inline" /\ w \in Msg /\ Bucket[w] = k /\ fate[w] = "run"
  BY <1>1, Held DEF Busy
<1>3. /\ worker'[k] = "deactivate" /\ wmsg'[k] = NoMsg
      /\ \A l \in Key : l # k => worker'[l] = worker[l] /\ wmsg'[l] = wmsg[l]
  BY <1>1 DEF GInv, Inv, Types
<1> HIDE DEF w
<1>4. fate'[w] = "done" /\ \A n \in Msg : n # w => fate'[n] = fate[n]
  BY <1>1, <1>2 DEF GInv, Inv, Types
<1>5. \A m \in Msg : Bucket[m] \in Key
  BY InboundQueueAssumption
<1>6. ASSUME NEW n \in Msg PROVE Waiting(n)' <=> Waiting(n)
  <2>1. CASE n = w
    BY <1>1, <1>2, <1>3, <1>4, <2>1 DEF Waiting
  <2>2. CASE n # w /\ Bucket[n] = k
    BY <1>1, <1>3, <1>4, <2>2 DEF Waiting
  <2>3. CASE Bucket[n] # k
    BY <1>1, <1>2, <1>3, <1>4, <1>5, <2>3 DEF Waiting
  <2> QED BY <2>1, <2>2, <2>3
<1>7. Current(k) # NoMsg /\ Current(k)' = NoMsg
  BY <1>1, <1>2, <1>3, InboundQueueAssumption DEF Current, w
<1>8. \A l \in Key : l # k => Current(l)' = Current(l)
  BY <1>1, <1>3 DEF Current
<1>9. SQ!Finish(k)
  <2>1. [l \in Key |-> Current(l)][k] # NoMsg
    BY <1>7
  <2>2. [l \in Key |-> Current(l)]' = [[l \in Key |-> Current(l)] EXCEPT ![k] = NoMsg]
    BY <1>7, <1>8
  <2>3. UNCHANGED <<acc, {n \in Msg : Waiting(n)}, {n \in Msg : fate[n] = "steer"}, ~ctxDone>>
    BY <1>1, <1>2, <1>4, <1>6
  <2> QED BY <2>1, <2>2, <2>3 DEF SQ!Finish
<1> QED BY <1>9 DEF SQ!Next

\* The steering inbox of k is emptied, and all that waits still waits.
LEMMA Cleared ==
  ASSUME NEW k \in Key, UNCHANGED <<acc, ctxDone>>,
         \A m \in Msg : Waiting(m)' <=> Waiting(m),
         \A l \in Key : Current(l)' = Current(l),
         \A m \in Msg : fate'[m] = "steer" <=> fate[m] = "steer" /\ Bucket[m] # k
  PROVE  SQ!Next
<1>1. UNCHANGED <<acc, {m \in Msg : Waiting(m)}, [l \in Key |-> Current(l)], ~ctxDone>>
  OBVIOUS
<1>2. {m \in Msg : fate[m] = "steer"}'
        = {m \in {n \in Msg : fate[n] = "steer"} : Bucket[m] # k}
  OBVIOUS
<1>3. SQ!Clear(k)
  BY <1>1, <1>2 DEF SQ!Clear
<1> QED BY <1>3 DEF SQ!Next

LEMMA WorkerTakeMaps ==
  ASSUME GInv, NEW k \in Key, WorkerTake(k) PROVE SQ!Next
<1> DEFINE h == Head(ch[k])
<1>1. /\ worker[k] = "idle" /\ ch[k] # <<>> /\ worker' = [worker EXCEPT ![k] = "taken"]
      /\ wmsg' = [wmsg EXCEPT ![k] = h]
      /\ fate' = [m \in Msg |->
                    IF m = h THEN "run"
                    ELSE IF Bucket[m] = k /\ fate[m] = "steer" THEN "discarded"
                    ELSE fate[m]]
      /\ UNCHANGED <<acc, ctxDone, disp>>
  BY DEF WorkerTake
<1>2. h \in Msg /\ fate[h] = "ch" /\ Bucket[h] = k
  <2>1. /\ ch[k] \in Seq(Msg) /\ acc \in [Msg -> Nat] /\ Ordered(ch[k], acc)
        /\ \A m \in Msg : fate[m] = "ch" /\ Bucket[m] = k <=> Member(m, ch[k])
    BY DEF GInv, Inv, Types, OrderInv, Lines
  <2>2. h \in Msg /\ Member(h, ch[k])
    BY <1>1, <2>1, Departure
  <2> QED BY <2>1, <2>2
<1> HIDE DEF h
<1>3. /\ worker'[k] = "taken" /\ wmsg'[k] = h
      /\ \A l \in Key : l # k => worker'[l] = worker[l] /\ wmsg'[l] = wmsg[l]
  BY <1>1 DEF GInv, Inv, Types
<1>4. \A m \in Msg : Bucket[m] \in Key
  BY InboundQueueAssumption
<1>5. ASSUME NEW m \in Msg PROVE Waiting(m)' <=> Waiting(m)
  <2>1. CASE m = h
    BY <1>1, <1>2, <1>3, <2>1 DEF Waiting
  <2>2. CASE m # h /\ Bucket[m] = k
    BY <1>1, <1>3, <2>2 DEF Waiting
  <2>3. CASE Bucket[m] # k
    BY <1>1, <1>2, <1>3, <1>4, <2>3 DEF Waiting
  <2> QED BY <2>1, <2>2, <2>3
<1>6. \A l \in Key : Current(l)' = Current(l)
  BY <1>1, <1>3 DEF Current
<1>7. \A m \in Msg : fate'[m] = "steer" <=> fate[m] = "steer" /\ Bucket[m] # k
  BY <1>1, <1>2
<1> QED BY <1>1, <1>5, <1>6, <1>7, Cleared

LEMMA RunIterateMaps ==
  ASSUME GInv, NEW k \in Key, RunIterate(k) PROVE SQ!Next
<1>1. /\ fate' = [m \in Msg |-> IF Bucket[m] = k /\ fate[m] = "steer" THEN "absorbed"
                                                                    ELSE fate[m]]
      /\ UNCHANGED <<acc, ctxDone, disp, worker, wmsg>>
  BY DEF RunIterate
<1>2. \A m \in Msg : Waiting(m)' <=> Waiting(m)
  BY <1>1 DEF Waiting
<1>3. \A l \in Key : Current(l)' = Current(l)
  BY <1>1 DEF Current
<1>4. \A m \in Msg : fate'[m] = "steer" <=> fate[m] = "steer" /\ Bucket[m] # k
  BY <1>1
<1> QED BY <1>1, <1>2, <1>3, <1>4, Cleared

LEMMA WorkerMovesMap ==
  ASSUME GInv, NEW k \in Key,
         \/ WorkerExit(k) \/ WorkerActivate(k) \/ RunEnd(k) \/ RunReply(k)
         \/ WorkerDeactivate(k)
  PROVE  UNCHANGED SQ!vars
<1>1. UNCHANGED <<acc, ctxDone, disp, wmsg, fate>>
  BY DEF WorkerExit, WorkerActivate, RunEnd, RunReply, WorkerDeactivate
<1>2. \A l \in Key : /\ worker'[l] \in {"taken", "sem"} <=> worker[l] \in {"taken", "sem"}
                     /\ worker'[l] \in InRun <=> worker[l] \in InRun
  BY DEF WorkerExit, WorkerActivate, RunEnd, RunReply, WorkerDeactivate, GInv, Inv, Types
<1> QED BY <1>1, <1>2, WorkerMoves

-----------------------------------------------------------------------------
LEMMA StepMaps == GInv /\ [Next]_vars => [SQ!Next]_SQ!vars
<1> SUFFICES ASSUME GInv, [Next]_vars PROVE [SQ!Next]_SQ!vars
  OBVIOUS
<1>1. ASSUME NEW m \in Msg, Publisher(m) PROVE [SQ!Next]_SQ!vars
  BY <1>1, PublisherMaps
<1>2. ASSUME NEW s \in Source, Deliver(s) PROVE [SQ!Next]_SQ!vars
  BY <1>2, OthersMap
<1>3. ASSUME NEW j \in Job, JobBegin(j) \/ JobEnd(j) PROVE [SQ!Next]_SQ!vars
  BY <1>3, OthersMap
<1>4. ASSUME NEW k \in Key, Worker(k) PROVE [SQ!Next]_SQ!vars
  <2>1. CASE WorkerTake(k)
    BY <2>1, WorkerTakeMaps
  <2>2. CASE WorkerAcquire(k)
    BY <2>2, WorkerAcquireMaps
  <2>3. CASE RunIterate(k)
    BY <2>3, RunIterateMaps
  <2>4. CASE WorkerRelease(k)
    BY <2>4, WorkerReleaseMaps
  <2>5. CASE \/ WorkerExit(k) \/ WorkerActivate(k) \/ RunEnd(k) \/ RunReply(k)
             \/ WorkerDeactivate(k)
    BY <2>5, WorkerMovesMap
  <2> QED BY <1>4, <2>1, <2>2, <2>3, <2>4, <2>5 DEF Worker
<1>5. ASSUME Dispatcher PROVE [SQ!Next]_SQ!vars
  <2>1. CASE DispReturn \/ DispRoute
    BY <2>1, DispIdleMaps
  <2>2. CASE DispConsume
    BY <2>2, DispConsumeMaps
  <2>3. CASE DispSteer
    BY <2>3, DispSteerMaps
  <2>4. CASE DispSend
    BY <2>4, DispSendMaps
  <2>5. CASE InlineBegin
    BY <2>5, InlineBeginMaps
  <2>6. CASE InlineEnd
    BY <2>6, InlineEndMaps
  <2> QED BY <1>5, <2>1, <2>2, <2>3, <2>4, <2>5, <2>6 DEF Dispatcher
<1>6. ASSUME Shutdown PROVE [SQ!Next]_SQ!vars
  BY <1>6, ShutdownMaps
<1>7. CASE UNCHANGED vars
  BY <1>7, OthersMap
<1> QED BY <1>1, <1>2, <1>3, <1>4, <1>5, <1>6, <1>7 DEF Next

\* The bus, the dispatcher and the workers of AgentLoop.Run implement the
\* abstract session queues: one message of a conversation runs at a time, the
\* oldest first, at most MaxConcurrency at once, and only steering and only
\* shutdown take a message out of the line (loop.go:366-439).
THEOREM ImplementsSessionQueues == Spec => RefinesSessionQueues
<1>1. GInv /\ [Next]_vars => [SQ!Next]_SQ!vars
  BY StepMaps
<1>2. Spec => SQ!Spec
  BY <1>1, InitMaps, Reachable, PTL DEF Spec, SQ!Spec
<1> QED BY <1>2 DEF RefinesSessionQueues
=============================================================================
