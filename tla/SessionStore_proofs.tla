-------------------------- MODULE SessionStore_proofs --------------------------
(***************************************************************************)
(* The tree of a conversation stays whole, for every set of messages and   *)
(* every bound.  The leaves that memory, the meta file, the metas in       *)
(* flight and a switch name can only be compared with the length of the    *)
(* file if the session is a record and the file a sequence: Shapes.  The   *)
(* meta that ends an edit names the leaf of the session, so a session in   *)
(* the middle of an edit must be whole as well: Held.                      *)
(*                                                                         *)
(* What a replay computes along a branch is a recursive function of the    *)
(* file.  That it exists, that it obeys its equation and that appending    *)
(* an event leaves the earlier replays as they were follows from the least *)
(* natural at which it would fail (Least).  With it the store has its      *)
(* types, and is the conversation of module Conversation.                  *)
(***************************************************************************)
EXTENDS SessionStore, FiniteSetTheorems, TLAPS

IsSession(s) == s = [view |-> s.view, leaf |-> s.leaf, override |-> s.override]

Shapes ==
  /\ session # NoSession => IsSession(session)
  /\ \E E : log \in Seq(E)

Held == writing => IsSession(session) /\ session.leaf \in 0..Len(log)

Inv == Shapes /\ Held /\ BranchIsWhole

LEMMA LogType == ASSUME Inv PROVE Len(log) \in Nat /\ DOMAIN log = 1..Len(log)
<1>1. PICK E : log \in Seq(E)
  BY DEF Inv, Shapes
<1> QED BY <1>1

LEMMA InitInv == Init => Inv
<1> SUFFICES ASSUME Init PROVE Inv
  OBVIOUS
<1>1. log \in Seq({}) /\ DOMAIN log = {}
  BY DEF Init
<1> QED BY <1>1 DEF Init, Inv, Shapes, Held, BranchIsWhole

\* A step that keeps the file, and only names leaves that were named before or
\* are in the file.
LEMMA SameLog ==
  ASSUME Inv, UNCHANGED log,
         session' # NoSession \/ writing' =>
           IsSession(session') /\ session'.leaf \in 0..Len(log),
         meta' # NoMeta => meta'.leaf \in 0..Len(log),
         \A m \in pending' : m.leaf \in 0..Len(log),
         switch' # NoSwitch => switch'.leaf \in 0..Len(log)
  PROVE  Inv'
<1>1. Shapes'
  BY DEF Inv, Shapes
<1>2. Held'
  BY DEF Held
<1>3. BranchIsWhole'
  BY DEF Inv, BranchIsWhole
<1> QED BY <1>1, <1>2, <1>3 DEF Inv

\* An edit: the event names the leaf of the session as its parent, and the
\* leaf moves to it when it is in the file (manager_mutations.go:152-170).
LEMMA RecordStep ==
  ASSUME Inv, NEW s, IsSession(s), s.leaf \in 0..Len(log),
         NEW view, NEW event, event.parent = s.leaf, Record(s, view, event)
  PROVE  Inv'
<1>0. Len(log) \in Nat /\ DOMAIN log = 1..Len(log)
  BY LogType
<1>1. UNCHANGED <<meta, pending, switch>>
  BY DEF Record
<1>2. \/ /\ log' = Append(log, event)
         /\ session' = [s EXCEPT !.view = view, !.leaf = Len(log) + 1]
      \/ /\ log' \in {log, Append(log, event)}
         /\ session' = [s EXCEPT !.view = view]
  BY DEF Record
<1>3. PICK E : log \in Seq(E)
  BY DEF Inv, Shapes
<1>4. /\ Append(log, event) \in Seq(E \cup {event})
      /\ Len(Append(log, event)) = Len(log) + 1
      /\ DOMAIN Append(log, event) = 1..(Len(log) + 1)
      /\ \A i \in 1..Len(log) : Append(log, event)[i] = log[i]
      /\ Append(log, event)[Len(log) + 1] = event
  <2>1. log \in Seq(E \cup {event}) /\ event \in E \cup {event}
    BY <1>3
  <2> QED BY <2>1
<1>5. log' = log \/ log' = Append(log, event)
  BY <1>2
<1>6. Len(log') \in Nat /\ Len(log) <= Len(log')
  BY <1>0, <1>4, <1>5
<1>7. IsSession(session') /\ session'.leaf \in 0..Len(log')
  <2>1. CASE session' = [s EXCEPT !.view = view]
    <3>1. session' = [view |-> view, leaf |-> s.leaf, override |-> s.override]
      BY <2>1 DEF IsSession
    <3> QED BY <1>0, <1>6, <3>1 DEF IsSession
  <2>2. CASE /\ log' = Append(log, event)
             /\ session' = [s EXCEPT !.view = view, !.leaf = Len(log) + 1]
    <3>1. session' = [view |-> view, leaf |-> Len(log) + 1, override |-> s.override]
      BY <2>2 DEF IsSession
    <3>2. Len(log') = Len(log) + 1
      BY <1>4, <2>2
    <3>3. session'.leaf = Len(log) + 1
      BY <3>1
    <3>4. session'.leaf \in 0..Len(log')
      BY <1>0, <3>2, <3>3
    <3> QED BY <3>1, <3>4 DEF IsSession
  <2> QED BY <1>2, <2>1, <2>2
<1>8. \A i \in DOMAIN log' : log'[i].parent \in 0..(i - 1)
  <2>1. \A i \in DOMAIN log : log[i].parent \in 0..(i - 1)
    BY DEF Inv, BranchIsWhole
  <2>2. CASE log' = Append(log, event)
    BY <1>0, <1>4, <2>1, <2>2
  <2> QED BY <1>5, <2>1, <2>2
<1>9. Shapes'
  BY <1>3, <1>4, <1>5, <1>7 DEF Shapes
<1>10. Held'
  BY <1>7 DEF Held
<1>11. BranchIsWhole'
  BY <1>0, <1>1, <1>6, <1>7, <1>8 DEF Inv, BranchIsWhole
<1> QED BY <1>9, <1>10, <1>11 DEF Inv

\* What an edit or an override starts from: the session, or a new one.
LEMMA Start ==
  ASSUME Inv
  PROVE  LET s == IF session = NoSession THEN Fresh ELSE session
         IN IsSession(s) /\ s.leaf \in 0..Len(log)
<1>1. IsSession(Fresh) /\ Fresh.leaf \in 0..Len(log)
  BY LogType DEF Fresh, IsSession
<1> QED BY <1>1 DEF Inv, Shapes, BranchIsWhole

\* An override changes the session and leaves its leaf alone.
LEMMA BuildStep ==
  ASSUME Inv, NEW s, IsSession(s), s.leaf \in 0..Len(log), Build(s)
  PROVE  Inv'
<1>1. /\ session' = s /\ pending' = pending \cup {MetaOf(s)}
      /\ UNCHANGED <<log, meta, switch>> /\ writing' = writing
  BY DEF Build
<1>2. \A m \in pending' : m.leaf \in 0..Len(log)
  BY <1>1 DEF Inv, BranchIsWhole, MetaOf
<1> QED BY <1>1, <1>2, SameLog DEF Inv, BranchIsWhole

LEMMA Overridden ==
  ASSUME NEW s, IsSession(s), NEW o
  PROVE  /\ IsSession([s EXCEPT !.override = o])
         /\ [s EXCEPT !.override = o].leaf = s.leaf
<1>1. PICK v, l, b : s = [view |-> v, leaf |-> l, override |-> b]
  BY DEF IsSession
<1>2. [s EXCEPT !.override = o] = [view |-> v, leaf |-> l, override |-> o]
  BY <1>1
<1> QED BY <1>1, <1>2 DEF IsSession

LEMMA EditStep ==
  ASSUME Inv,
         \/ \E m \in Message : AddFullMessage(m)
         \/ \E s \in Summary : SetSummary(s)
         \/ \E h \in Histories : SetHistory(h)
         \/ \E n \in 0..MaxEvents : TruncateHistory(n)
         \/ IncrementCompactionCount
         \/ \E c \in 1..MaxCount : MarkMemoryFlush(c)
  PROVE  Inv'
<1> DEFINE s == IF session = NoSession THEN Fresh ELSE session
<1>1. IsSession(s) /\ s.leaf \in 0..Len(log)
  BY Start
<1>2. PICK view, event : event.parent = s.leaf /\ Record(s, view, event)
  <2>1. CASE \E m \in Message : AddFullMessage(m)
    <3>1. PICK m \in Message : AddFullMessage(m)
      BY <2>1
    <3>2. Record(s, [s.view EXCEPT !.messages = Append(@, m)],
                 [type |-> "message", parent |-> s.leaf, message |-> m])
      BY <3>1 DEF AddFullMessage
    <3> QED BY <3>2
  <2>2. CASE \E x \in Summary : SetSummary(x)
    <3>1. PICK x \in Summary : SetSummary(x)
      BY <2>2
    <3>2. Record(s, [session.view EXCEPT !.summary = x],
                 [type |-> "summary", parent |-> s.leaf, summary |-> x])
      BY <3>1 DEF SetSummary
    <3> QED BY <3>2
  <2>3. CASE \E h \in Histories : SetHistory(h)
    <3>1. PICK h \in Histories : SetHistory(h)
      BY <2>3
    <3>2. Record(s, [session.view EXCEPT !.messages = h],
                 [type |-> "history", parent |-> s.leaf, history |-> h])
      BY <3>1 DEF SetHistory
    <3> QED BY <3>2
  <2>4. CASE \E n \in 0..MaxEvents : TruncateHistory(n)
    <3>1. PICK n \in 0..MaxEvents : TruncateHistory(n)
      BY <2>4
    <3>2. Record(s, [session.view EXCEPT !.messages = KeepLast(@, n)],
                 [type |-> "truncate", parent |-> s.leaf, keep |-> n])
      BY <3>1 DEF TruncateHistory
    <3> QED BY <3>2
  <2>5. CASE IncrementCompactionCount
    <3> DEFINE count == session.view.count + 1
    <3>1. Record(s, [session.view EXCEPT !.count = count],
                 [type |-> "compaction", parent |-> s.leaf, count |-> count])
      BY <2>5 DEF IncrementCompactionCount
    <3> QED BY <3>1
  <2>6. CASE \E c \in 1..MaxCount : MarkMemoryFlush(c)
    <3>1. PICK c \in 1..MaxCount : MarkMemoryFlush(c)
      BY <2>6
    <3>2. Record(s, [session.view EXCEPT !.flushed = c],
                 [type |-> "flush", parent |-> s.leaf, flushed |-> c])
      BY <3>1 DEF MarkMemoryFlush
    <3> QED BY <3>2
  <2> QED BY <2>1, <2>2, <2>3, <2>4, <2>5, <2>6
<1> QED BY <1>1, <1>2, RecordStep

LEMMA RestartStep == ASSUME Inv, Restart PROVE Inv'
<1>1. /\ session' \in {Loaded, NoSession} /\ writing' = FALSE
      /\ pending' = {} /\ switch' = NoSwitch /\ UNCHANGED <<log, meta>>
  BY DEF Restart
<1>2. Len(log) \in Nat /\ DOMAIN log = 1..Len(log)
  BY LogType
<1>3. CASE session' # NoSession
  <2>1. \A hint : LeafOf(hint) \in 0..Len(log)
    BY <1>2 DEF LeafOf
  <2>2. PICK v, hint, o :
          session' = [view |-> v, leaf |-> LeafOf(hint), override |-> o]
    BY <1>1, <1>3 DEF Loaded
  <2>3. IsSession(session') /\ session'.leaf \in 0..Len(log)
    BY <2>1, <2>2 DEF IsSession
  <2> QED BY <1>1, <2>3, SameLog DEF Inv, BranchIsWhole
<1>4. CASE session' = NoSession
  BY <1>1, <1>4, SameLog DEF Inv, BranchIsWhole
<1> QED BY <1>3, <1>4

LEMMA SwitchStep == ASSUME Inv, SwitchLeaf PROVE Inv'
<1>1. /\ switch # NoSwitch /\ switch' = NoSwitch
      /\ UNCHANGED <<log, meta, pending>>
  BY DEF SwitchLeaf
<1>2. CASE session = NoSession /\ UNCHANGED <<session, writing>>
  BY <1>1, <1>2, SameLog DEF SwitchLeaf, Inv, BranchIsWhole
<1>3. CASE /\ session # NoSession
           /\ session' = [session EXCEPT !.view = switch.view, !.leaf = switch.leaf]
  <2>1. session' = [view |-> switch.view, leaf |-> switch.leaf,
                    override |-> session.override]
    BY <1>3 DEF Inv, Shapes, IsSession
  <2>2. IsSession(session') /\ session'.leaf \in 0..Len(log)
    BY <1>1, <2>1 DEF IsSession, Inv, BranchIsWhole
  <2> QED BY <1>1, <2>2, SameLog DEF Inv, BranchIsWhole
<1> QED BY <1>2, <1>3 DEF SwitchLeaf

LEMMA NextInv == ASSUME Inv, [Next]_vars PROVE Inv'
<1> USE DEF Inv, Held, Shapes, BranchIsWhole
<1>1. CASE \/ \E m \in Message : AddFullMessage(m)
           \/ \E s \in Summary : SetSummary(s)
           \/ \E h \in Histories : SetHistory(h)
           \/ \E n \in 0..MaxEvents : TruncateHistory(n)
           \/ IncrementCompactionCount
           \/ \E c \in 1..MaxCount : MarkMemoryFlush(c)
  BY ONLY Inv, <1>1, EditStep
<1>2. CASE PersistMeta
  <2>1. meta' \in {MetaOf(session), meta}
    BY <1>2 DEF PersistMeta, WriteTo
  <2>2. meta' # NoMeta => meta'.leaf \in 0..Len(log)
    BY <1>2, <2>1 DEF PersistMeta, MetaOf
  <2> QED BY <1>2, <2>2, SameLog DEF PersistMeta
<1>3. CASE Save
  BY <1>3, BuildStep DEF Save
<1>4. CASE SetModelOverride
  <2> DEFINE s == IF session = NoSession THEN Fresh ELSE session
  <2>1. IsSession(s) /\ s.leaf \in 0..Len(log)
    BY ONLY Inv, Start
  <2>2. Build([s EXCEPT !.override = TRUE])
    BY <1>4 DEF SetModelOverride
  <2> QED BY ONLY Inv, <2>1, <2>2, Overridden, BuildStep
<1>5. CASE ClearModelOverride \/ ExpireModelOverride
  <2>1. session # NoSession /\ Build([session EXCEPT !.override = FALSE])
    BY <1>5 DEF ClearModelOverride, ExpireModelOverride
  <2>2. IsSession(session) /\ session.leaf \in 0..Len(log)
    BY <2>1
  <2> QED BY ONLY Inv, <2>1, <2>2, Overridden, BuildStep
<1>6. CASE \E m \in pending : WriteMeta(m)
  <2>1. PICK m \in pending : WriteMeta(m)
    BY <1>6
  <2>2. meta' # NoMeta => meta'.leaf \in 0..Len(log)
    BY <2>1 DEF WriteMeta, WriteTo
  <2> QED BY <2>1, <2>2, SameLog DEF WriteMeta
<1>7. CASE \E i \in 1..MaxEvents : ReadBranch(i)
  <2>1. PICK i \in 1..MaxEvents : ReadBranch(i)
    BY <1>7
  <2>2. switch'.leaf \in 0..Len(log)
    BY <2>1, LogType DEF ReadBranch
  <2> QED BY <2>1, <2>2, SameLog DEF ReadBranch
<1>8. CASE SwitchLeaf
  BY ONLY Inv, <1>8, SwitchStep
<1>9. CASE GetOrCreate
  <2>1. IsSession(Fresh) /\ Fresh.leaf \in 0..Len(log)
    BY LogType DEF Fresh, IsSession
  <2> QED BY <1>9, <2>1, SameLog DEF GetOrCreate
<1>10. CASE Evict
  BY <1>10, SameLog DEF Evict
<1>11. CASE Restart
  BY ONLY Inv, <1>11, RestartStep
<1>12. CASE UNCHANGED vars
  BY <1>12 DEF vars
<1> QED BY <1>1, <1>2, <1>3, <1>4, <1>5, <1>6, <1>7, <1>8, <1>9, <1>10, <1>11, <1>12
     DEF Next

\* The strengthened invariant, for every set of messages and every bound.
THEOREM Invariant == Spec => []Inv
<1>1. Init => Inv
  BY InitInv
<1>2. Inv /\ [Next]_vars => Inv'
  BY NextInv
<1> QED BY <1>1, <1>2, PTL DEF Spec

\* manager_mutations.go:163-173, tree.go:221-244: whatever fails, is evicted or
\* is killed, no replay is cut short by a missing or cyclic parent.
THEOREM WholeBranches == Spec => []BranchIsWhole
<1>1. Inv => BranchIsWhole
  BY DEF Inv
<1> QED BY <1>1, Invariant, PTL

-----------------------------------------------------------------------------
(* Replay.  Its equation, and every fact of a whole branch, is shown for    *)
(* the least event for which it could fail.                                 *)

LEMMA Least ==
  ASSUME NEW T \in SUBSET Nat, T # {}
  PROVE  \E m \in T : \A k \in T : m <= k
<1> DEFINE R == OpToRel(<, Nat)
<1>1. IsWellFoundedOn(R, Nat)
  BY NatLessThanWellFounded
<1>2. PICK x \in T : \A y \in T : ~ (<<y, x>> \in R)
  <2> HIDE DEF R
  <2> QED BY <1>1, WFMin
<1>3. \A y \in T : ~ (y < x)
  BY <1>2 DEF OpToRel
<1> QED BY <1>3

\* A file of events, and what replaying it gives.
Whole(L) ==
  /\ Len(L) \in Nat /\ DOMAIN L = 1..Len(L)
  /\ \A i \in DOMAIN L : L[i].parent \in 0..(i - 1)
ReplayOf(L) ==
  CHOOSE f : f = [i \in Nat |-> IF i \in DOMAIN L THEN Replayed(f[L[i].parent], L[i])
                                ELSE Blank]

LEMMA ReplayExists ==
  ASSUME NEW L, Whole(L)
  PROVE  \E f : f = [i \in Nat |-> IF i \in DOMAIN L THEN Replayed(f[L[i].parent], L[i])
                                   ELSE Blank]
<1> DEFINE Step(f, i) == IF i \in DOMAIN L THEN Replayed(f[L[i].parent], L[i]) ELSE Blank
           P(n) == \E f : f = [i \in 0..n |-> Step(f, i)]
           T == {n \in 0..Len(L) : ~P(n)}
<1>1. Len(L) \in Nat /\ DOMAIN L = 1..Len(L) /\ \A i \in DOMAIN L : L[i].parent \in 0..(i - 1)
  BY DEF Whole
<1>2. ASSUME T # {} PROVE FALSE
  <2>1. PICK n \in T : \A k \in T : n <= k
    <3>1. T \in SUBSET Nat
      <4> HIDE DEF P
      <4> QED BY <1>1
    <3> HIDE DEF T
    <3> QED BY <1>2, <3>1, Least
  <2>2. n \in Nat /\ n \in 0..Len(L)
    BY <1>1
  <2>3. n # 0
    <3>1. [i \in 0..0 |-> Blank] = [i \in 0..0 |-> Step([j \in 0..0 |-> Blank], i)]
      BY <1>1
    <3>2. P(0)
      BY <3>1
    <3> QED BY <3>2
  <2>4. n - 1 \in 0..Len(L) /\ n - 1 \notin T
    BY <1>1, <2>1, <2>2, <2>3
  <2>5. PICK f : f = [i \in 0..(n - 1) |-> Step(f, i)]
    BY <2>4
  <2> DEFINE g == [i \in 0..n |-> IF i = n THEN Step(f, n) ELSE f[i]]
  <2>6. \A i \in 0..n : g[i] = Step(g, i)
    <3> SUFFICES ASSUME NEW i \in 0..n PROVE g[i] = Step(g, i)
      OBVIOUS
    <3>1. CASE i \notin DOMAIN L
      BY <2>2, <2>5, <3>1
    <3>2. CASE i \in DOMAIN L
      <4>1. L[i].parent \in 0..(i - 1) /\ i \in Nat
        BY <1>1, <3>2
      <4>2. L[i].parent \in 0..n /\ L[i].parent # n
        BY <2>2, <4>1
      <4>3. g[L[i].parent] = f[L[i].parent]
        BY <4>2
      <4>4. g[i] = Step(f, i)
        <5>1. CASE i = n
          BY <5>1
        <5>2. CASE i # n
          <6>1. i \in 0..(n - 1)
            BY <2>2, <5>2
          <6> HIDE DEF Step
          <6> QED BY <2>5, <5>2, <6>1
        <5> QED BY <5>1, <5>2
      <4> QED BY <3>2, <4>3, <4>4
    <3> QED BY <3>1, <3>2
  <2>7. g = [i \in 0..n |-> Step(g, i)]
    <3> HIDE DEF Step
    <3> QED BY <2>6
  <2> QED BY <2>1, <2>7
<1>3. PICK f : f = [i \in 0..Len(L) |-> Step(f, i)]
  <2>1. P(Len(L))
    BY <1>1, <1>2
  <2> QED BY <2>1
<1> DEFINE g == [i \in Nat |-> IF i \in 0..Len(L) THEN f[i] ELSE Blank]
<1>4. \A i \in Nat : g[i] = Step(g, i)
  <2> SUFFICES ASSUME NEW i \in Nat PROVE g[i] = Step(g, i)
    OBVIOUS
  <2>1. CASE i \notin DOMAIN L
    BY <1>1, <1>3, <2>1
  <2>2. CASE i \in DOMAIN L
    <3>1. L[i].parent \in 0..Len(L) /\ L[i].parent \in Nat
      BY <1>1, <2>2
    <3>2. f[i] = Step(f, i)
      <4>1. i \in 0..Len(L)
        BY <1>1, <2>2
      <4> HIDE DEF Step
      <4> QED BY <1>3, <4>1
    <3> QED BY <1>1, <2>2, <3>1, <3>2
  <2> QED BY <2>1, <2>2
<1>5. g = [i \in Nat |-> Step(g, i)]
  <2> HIDE DEF Step
  <2> QED BY <1>4
<1> QED BY <1>5

LEMMA ReplayEquation ==
  ASSUME NEW L, Whole(L), NEW i \in Nat
  PROVE  ReplayOf(L)[i] = IF i \in DOMAIN L THEN Replayed(ReplayOf(L)[L[i].parent], L[i])
                          ELSE Blank
<1> DEFINE G(f) == [n \in Nat |-> IF n \in DOMAIN L THEN Replayed(f[L[n].parent], L[n])
                                  ELSE Blank]
<1>1. \E f : f = G(f)
  BY ReplayExists
<1>2. ReplayOf(L) = CHOOSE f : f = G(f)
  BY DEF ReplayOf
<1>3. ReplayOf(L) = G(ReplayOf(L))
  <2> HIDE DEF G
  <2> QED BY <1>1, <1>2
<1>4. PICK r : r = ReplayOf(L)
  OBVIOUS
<1>5. r = G(r)
  BY <1>3, <1>4
<1>6. r[i] = IF i \in DOMAIN L THEN Replayed(r[L[i].parent], L[i]) ELSE Blank
  BY <1>5
<1> QED BY <1>4, <1>6

\* An event that is appended leaves the branches before it as they are.
LEMMA ReplayAppended ==
  ASSUME NEW L, Whole(L), NEW K, Whole(K), Len(K) = Len(L) + 1,
         \A i \in DOMAIN L : K[i] = L[i]
  PROVE  \A i \in 0..Len(L) : ReplayOf(K)[i] = ReplayOf(L)[i]
<1> DEFINE T == {i \in 0..Len(L) : ReplayOf(K)[i] # ReplayOf(L)[i]}
<1>1. /\ Len(L) \in Nat /\ DOMAIN L = 1..Len(L) /\ DOMAIN K = 1..(Len(L) + 1)
      /\ \A i \in DOMAIN L : L[i].parent \in 0..(i - 1)
  BY DEF Whole
<1>2. ASSUME T # {} PROVE FALSE
  <2>1. PICK i \in T : \A k \in T : i <= k
    <3>1. T \in SUBSET Nat
      BY <1>1
    <3> HIDE DEF T
    <3> QED BY <1>2, <3>1, Least
  <2>2. i \in Nat /\ i <= Len(L)
    BY <1>1
  <2>3. CASE i = 0
    <3>1. ReplayOf(L)[0] = Blank
      BY <1>1, ReplayEquation
    <3>2. ReplayOf(K)[0] = Blank
      BY <1>1, ReplayEquation
    <3> QED BY <2>1, <2>3, <3>1, <3>2
  <2>4. CASE i # 0
    <3>1. i \in DOMAIN L /\ i \in DOMAIN K /\ K[i] = L[i]
      BY <1>1, <2>2, <2>4
    <3>2. L[i].parent \in 0..Len(L) /\ L[i].parent < i
      BY <1>1, <2>2, <3>1
    <3>3. ReplayOf(K)[L[i].parent] = ReplayOf(L)[L[i].parent]
      BY <1>1, <2>1, <2>2, <3>2
    <3>4. ReplayOf(L)[i] = Replayed(ReplayOf(L)[L[i].parent], L[i])
      BY <2>2, <3>1, ReplayEquation
    <3>5. ReplayOf(K)[i] = Replayed(ReplayOf(K)[K[i].parent], K[i])
      BY <2>2, <3>1, ReplayEquation
    <3>6. ReplayOf(K)[i] = ReplayOf(L)[i]
      BY <3>1, <3>3, <3>4, <3>5
    <3> QED BY <2>1, <3>6
  <2> QED BY <2>3, <2>4
<1> QED BY <1>2

-----------------------------------------------------------------------------
(* Types.                                                                   *)

\* The events of the file.
EventOK(e) ==
  \/ e.type = "message" /\ e.message \in Message
  \/ e.type = "summary" /\ e.summary \in Summary
  \/ e.type = "history" /\ e.history \in Seq(Message)
  \/ e.type = "truncate" /\ e.keep \in Nat
  \/ e.type = "compaction" /\ e.count \in 0..MaxCount
  \/ e.type = "flush" /\ e.flushed \in 0..MaxCount
Events == \A i \in DOMAIN log : EventOK(log[i])

TInv == Inv /\ TypeOK /\ Events

LEMMA KeepLastType ==
  ASSUME NEW s \in Seq(Message), NEW n \in 0..Len(s)
  PROVE  KeepLast(s, n) \in Seq(Message) /\ Len(KeepLast(s, n)) = n
BY DEF KeepLast

LEMMA BlankType == Blank \in Views /\ Fresh \in Sessions
BY SessionAssumption DEF Blank, Fresh, Views, Sessions

\* A field of a view changes.
LEMMA ViewChanges ==
  ASSUME NEW v \in Views
  PROVE  /\ \A x \in Seq(Message) : [v EXCEPT !.messages = x] \in Views
         /\ \A x \in Summary : [v EXCEPT !.summary = x] \in Views
         /\ \A x \in 0..MaxCount : /\ [v EXCEPT !.count = x] \in Views
                                   /\ [v EXCEPT !.flushed = x] \in Views
BY DEF Views

LEMMA ReplayedType ==
  ASSUME NEW v \in Views, NEW e, EventOK(e)
  PROVE  Replayed(v, e) \in Views
<1>1. v.messages \in Seq(Message) /\ v.count \in 0..MaxCount
  BY DEF Views
<1>2. CASE e.type = "message" /\ e.message \in Message
  <2>1. PICK x : x = Append(v.messages, e.message)
    OBVIOUS
  <2>2. x \in Seq(Message)
    BY <1>1, <1>2, <2>1
  <2>3. Replayed(v, e) = [v EXCEPT !.messages = x]
    BY <1>2, <2>1 DEF Replayed
  <2> QED BY <2>2, <2>3, ViewChanges
<1>3. CASE e.type = "summary" /\ e.summary \in Summary
  BY <1>3, ViewChanges DEF Replayed
<1>4. CASE e.type = "history" /\ e.history \in Seq(Message)
  BY <1>4, ViewChanges DEF Replayed
<1>5. CASE e.type = "truncate" /\ e.keep \in Nat
  <2>1. CASE e.keep = 0
    <3>1. Replayed(v, e) = [v EXCEPT !.messages = <<>>]
      BY <1>5, <2>1 DEF Replayed
    <3>2. <<>> \in Seq(Message)
      OBVIOUS
    <3> QED BY <3>1, <3>2, ViewChanges
  <2>2. CASE e.keep # 0 /\ Len(v.messages) > e.keep
    <3>1. PICK x : x = KeepLast(v.messages, e.keep)
      OBVIOUS
    <3>2. x \in Seq(Message)
      BY <1>1, <1>5, <2>2, <3>1, KeepLastType
    <3>3. Replayed(v, e) = [v EXCEPT !.messages = x]
      BY <1>5, <2>2, <3>1 DEF Replayed
    <3> QED BY <3>2, <3>3, ViewChanges
  <2>3. CASE e.keep # 0 /\ ~ (Len(v.messages) > e.keep)
    BY <1>5, <2>3 DEF Replayed
  <2> QED BY <2>1, <2>2, <2>3
<1>6. CASE e.type = "compaction" /\ e.count \in 0..MaxCount
  BY <1>1, <1>6, ViewChanges DEF Replayed
<1>7. CASE e.type = "flush" /\ e.flushed \in 0..MaxCount
  BY <1>7, ViewChanges DEF Replayed
<1> QED BY <1>2, <1>3, <1>4, <1>5, <1>6, <1>7 DEF EventOK

\* Every branch shows a typed state.
LEMMA ReplayType ==
  ASSUME NEW L, Whole(L), \A i \in DOMAIN L : EventOK(L[i])
  PROVE  \A i \in Nat : ReplayOf(L)[i] \in Views
<1> DEFINE T == {i \in Nat : ReplayOf(L)[i] \notin Views}
<1>1. DOMAIN L = 1..Len(L) /\ Len(L) \in Nat /\ \A i \in DOMAIN L : L[i].parent \in 0..(i - 1)
  BY DEF Whole
<1>2. ASSUME T # {} PROVE FALSE
  <2>1. PICK i \in T : \A k \in T : i <= k
    <3>1. T \in SUBSET Nat
      OBVIOUS
    <3> HIDE DEF T
    <3> QED BY <1>2, <3>1, Least
  <2>2. CASE i \notin DOMAIN L
    <3>1. ReplayOf(L)[i] = Blank
      BY <2>2, ReplayEquation
    <3> QED BY <2>1, <3>1, BlankType
  <2>3. CASE i \in DOMAIN L
    <3>1. L[i].parent \in Nat /\ L[i].parent < i
      BY <1>1, <2>3
    <3>2. ReplayOf(L)[L[i].parent] \in Views
      BY <2>1, <3>1
    <3>3. ReplayOf(L)[i] = Replayed(ReplayOf(L)[L[i].parent], L[i])
      BY <2>3, ReplayEquation
    <3> QED BY <2>1, <2>3, <3>2, <3>3, ReplayedType
  <2> QED BY <2>2, <2>3
<1> QED BY <1>2

\* The file is a tree, and Replay is its replay.
LEMMA LogReplay ==
  ASSUME TInv
  PROVE  /\ Whole(log) /\ Replay = ReplayOf(log)
         /\ \A i \in Nat : Replay[i] \in Views
         /\ Replay[0] = Blank
<1>1. Whole(log)
  BY LogType DEF TInv, Inv, BranchIsWhole, Whole
<1>2. Replay = ReplayOf(log)
  BY DEF Replay, ReplayOf
<1>3. \A i \in Nat : ReplayOf(log)[i] \in Views
  BY <1>1, ReplayType DEF TInv, Events
<1>4. ReplayOf(log)[0] = Blank
  <2>1. 0 \notin DOMAIN log
    BY <1>1 DEF Whole
  <2> QED BY <1>1, <2>1, ReplayEquation
<1> QED BY <1>1, <1>2, <1>3, <1>4

\* What the file holds after an edit: the event as it was given, or nothing new.
LEMMA RecordLog ==
  ASSUME Inv, NEW s, NEW view, NEW event, Record(s, view, event)
  PROVE  /\ Len(log) \in Nat /\ Len(log) < MaxEvents
         /\ \/ log' = log
            \/ /\ Len(log') = Len(log) + 1 /\ DOMAIN log' = DOMAIN log \cup {Len(log) + 1}
               /\ \A i \in DOMAIN log : log'[i] = log[i]
               /\ log'[Len(log) + 1] = event
         /\ \/ session' = [s EXCEPT !.view = view]
            \/ /\ Len(log') = Len(log) + 1
               /\ session' = [s EXCEPT !.view = view, !.leaf = Len(log) + 1]
<1>1. Len(log) \in Nat /\ DOMAIN log = 1..Len(log) /\ Len(log) < MaxEvents
  BY LogType DEF Record
<1>2. PICK E : log \in Seq(E)
  BY DEF Inv, Shapes
<1>3. log \in Seq(E \cup {event}) /\ event \in E \cup {event}
  BY <1>2
<1>4. PICK l : l = Append(log, event)
  OBVIOUS
<1>5. /\ Len(l) = Len(log) + 1 /\ DOMAIN l = 1..(Len(log) + 1)
      /\ \A i \in 1..Len(log) : l[i] = log[i]
      /\ l[Len(log) + 1] = event
  BY <1>3, <1>4
<1>6. DOMAIN l = DOMAIN log \cup {Len(log) + 1}
  BY <1>1, <1>5
<1>7. \/ /\ log' = l
         /\ session' = [s EXCEPT !.view = view, !.leaf = Len(log) + 1]
      \/ /\ log' = log \/ log' = l
         /\ session' = [s EXCEPT !.view = view]
  BY <1>4 DEF Record
<1> QED BY <1>1, <1>5, <1>6, <1>7

\* What an edit starts from.
Current == IF session = NoSession THEN Fresh ELSE session

LEMMA CurrentType ==
  ASSUME TInv
  PROVE  /\ Current \in Sessions /\ IsSession(Current) /\ Current.leaf \in 0..Len(log)
         /\ Current.view \in Views
<1>1. Current \in Sessions
  BY BlankType DEF TInv, TypeOK, Current
<1>2. IsSession(Current) /\ Current.leaf \in 0..Len(log)
  BY Start DEF TInv, Current
<1> QED BY <1>1, <1>2 DEF Sessions

\* One edit of the conversation: its event does to every state what the edit
\* of the abstract conversation does.
AbstractEdits(v, w) ==
  {[kind |-> "add", arg |-> m] : m \in Message} \cup {[kind |-> "summarize", arg |-> x] : x \in Summary}
    \cup {[kind |-> "replace", arg |-> w.messages]}
    \cup {[kind |-> "cut", arg |-> n] : n \in 0..Len(v.messages)}
    \cup {[kind |-> "compacted", arg |-> v.count + 1], [kind |-> "flushed", arg |-> w.flushed]}
IsEdit(v, w, event, e) ==
  /\ e \in AbstractEdits(v, w)
  /\ w \in Views /\ EventOK(event)
  /\ w = C!Edited(v, e)
  /\ \A u \in Views : Replayed(u, event) = C!Edited(u, e)

LEMMA AddEdit ==
  ASSUME NEW v \in Views, NEW m \in Message, NEW parent
  PROVE  LET w == [v EXCEPT !.messages = Append(@, m)]
         IN IsEdit(v, w, [type |-> "message", parent |-> parent, message |-> m],
                   [kind |-> "add", arg |-> m])
<1> DEFINE event == [type |-> "message", parent |-> parent, message |-> m]
           e == [kind |-> "add", arg |-> m]
<1>1. \A u \in Views : /\ Replayed(u, event) = [u EXCEPT !.messages = Append(@, m)]
                       /\ C!Edited(u, e) = [u EXCEPT !.messages = Append(@, m)]
  BY DEF Replayed, C!Edited
<1>2. EventOK(event)
  BY DEF EventOK
<1>3. [v EXCEPT !.messages = Append(@, m)] \in Views
  BY <1>1, <1>2, ReplayedType
<1>4. e \in {[kind |-> "add", arg |-> x] : x \in Message}
  OBVIOUS
<1> HIDE DEF event, e
<1>5. e \in AbstractEdits(v, [v EXCEPT !.messages = Append(@, m)])
  BY <1>4 DEF AbstractEdits
<1> QED BY <1>1, <1>2, <1>3, <1>5 DEF IsEdit, event, e

LEMMA SummaryEdit ==
  ASSUME NEW v \in Views, NEW x \in Summary, NEW parent
  PROVE  LET w == [v EXCEPT !.summary = x]
         IN IsEdit(v, w, [type |-> "summary", parent |-> parent, summary |-> x],
                   [kind |-> "summarize", arg |-> x])
<1> DEFINE event == [type |-> "summary", parent |-> parent, summary |-> x]
           e == [kind |-> "summarize", arg |-> x]
<1>1. \A u \in Views : /\ Replayed(u, event) = [u EXCEPT !.summary = x]
                       /\ C!Edited(u, e) = [u EXCEPT !.summary = x]
  BY DEF Replayed, C!Edited
<1>2. EventOK(event)
  BY DEF EventOK
<1>3. [v EXCEPT !.summary = x] \in Views
  BY ViewChanges
<1>4. e \in {[kind |-> "summarize", arg |-> y] : y \in Summary}
  OBVIOUS
<1> HIDE DEF event, e
<1>5. e \in AbstractEdits(v, [v EXCEPT !.summary = x])
  BY <1>4 DEF AbstractEdits
<1> QED BY <1>1, <1>2, <1>3, <1>5 DEF IsEdit, event, e

LEMMA HistoryEdit ==
  ASSUME NEW v \in Views, NEW h \in Seq(Message), h # <<>>, NEW parent
  PROVE  LET w == [v EXCEPT !.messages = h]
         IN IsEdit(v, w, [type |-> "history", parent |-> parent, history |-> h],
                   [kind |-> "replace", arg |-> w.messages])
<1> DEFINE event == [type |-> "history", parent |-> parent, history |-> h]
           w == [v EXCEPT !.messages = h]
           e == [kind |-> "replace", arg |-> w.messages]
<1>1. w.messages = h
  BY DEF Views
<1>2. \A u \in Views : /\ Replayed(u, event) = [u EXCEPT !.messages = h]
                       /\ C!Edited(u, e) = [u EXCEPT !.messages = h]
  <2> HIDE DEF w
  <2> QED BY <1>1 DEF Replayed, C!Edited
<1>3. EventOK(event)
  BY DEF EventOK
<1>4. w \in Views
  BY ViewChanges
<1>5. e \in AbstractEdits(v, w)
  <2> HIDE DEF w
  <2> QED BY DEF AbstractEdits
<1> HIDE DEF event, e
<1> QED BY <1>2, <1>3, <1>4, <1>5 DEF IsEdit, event, e

\* The state a truncation leaves, of n messages or fewer.
LEMMA CutState ==
  ASSUME NEW u \in Views, NEW n \in Nat
  PROVE  Len(u.messages) > n \/ n = 0 =>
           [u EXCEPT !.messages = KeepLast(@, n)] = C!Edited(u, [kind |-> "cut", arg |-> n])
<1>1. u.messages \in Seq(Message) /\ u = [u EXCEPT !.messages = u.messages]
  BY DEF Views
<1>2. C!Edited(u, [kind |-> "cut", arg |-> n]) =
        IF Len(u.messages) > n THEN [u EXCEPT !.messages = KeepLast(u.messages, n)] ELSE u
  BY DEF C!Edited, C!LastOf, KeepLast
<1>3. ASSUME Len(u.messages) <= n, n = 0 PROVE KeepLast(u.messages, n) = u.messages
  BY <1>1, <1>3 DEF KeepLast
<1>4. Len(u.messages) \in Nat
  BY <1>1
<1> QED BY <1>1, <1>2, <1>3, <1>4

LEMMA CutEdit ==
  ASSUME NEW v \in Views, NEW n \in Nat, n = 0 \/ Len(v.messages) > n, NEW parent
  PROVE  LET w == [v EXCEPT !.messages = KeepLast(@, n)]
         IN IsEdit(v, w, [type |-> "truncate", parent |-> parent, keep |-> n],
                   [kind |-> "cut", arg |-> n])
<1> DEFINE event == [type |-> "truncate", parent |-> parent, keep |-> n]
           e == [kind |-> "cut", arg |-> n]
<1>1. ASSUME NEW u \in Views PROVE Replayed(u, event) = C!Edited(u, e)
  <2>1. u.messages \in Seq(Message)
    BY DEF Views
  <2>2. Replayed(u, event) = IF n = 0 THEN [u EXCEPT !.messages = <<>>]
                             ELSE IF Len(u.messages) > n
                                  THEN [u EXCEPT !.messages = KeepLast(u.messages, n)] ELSE u
    BY DEF Replayed
  <2>3. C!Edited(u, e) =
          IF Len(u.messages) > n THEN [u EXCEPT !.messages = KeepLast(u.messages, n)] ELSE u
    BY DEF C!Edited, C!LastOf, KeepLast
  <2>4. CASE n = 0
    <3>1. KeepLast(u.messages, n) = <<>>
      BY <2>1, <2>4 DEF KeepLast
    <3>2. C!Edited(u, e) = [u EXCEPT !.messages = <<>>]
      BY <2>4, <3>1, CutState
    <3> QED BY <2>2, <2>4, <3>2
  <2>5. CASE n # 0
    BY <2>2, <2>3, <2>5
  <2> QED BY <2>4, <2>5
<1>2. EventOK(event)
  BY DEF EventOK
<1>3. v.messages \in Seq(Message) /\ n \in 0..Len(v.messages)
  BY DEF Views
<1>4. [v EXCEPT !.messages = KeepLast(@, n)] \in Views
  <2>1. PICK x : x = KeepLast(v.messages, n)
    OBVIOUS
  <2>2. x \in Seq(Message)
    BY <1>3, <2>1, KeepLastType
  <2> QED BY <2>1, <2>2, ViewChanges
<1>5. [v EXCEPT !.messages = KeepLast(@, n)] = C!Edited(v, e)
  BY CutState
<1>6. e \in {[kind |-> "cut", arg |-> k] : k \in 0..Len(v.messages)}
  BY <1>3
<1> HIDE DEF event, e
<1>7. e \in AbstractEdits(v, [v EXCEPT !.messages = KeepLast(@, n)])
  BY <1>6 DEF AbstractEdits
<1> QED BY <1>1, <1>2, <1>4, <1>5, <1>7 DEF IsEdit, event, e

LEMMA CountEdit ==
  ASSUME NEW v \in Views, v.count + 1 <= MaxCount, NEW parent
  PROVE  LET w == [v EXCEPT !.count = v.count + 1]
         IN IsEdit(v, w, [type |-> "compaction", parent |-> parent, count |-> v.count + 1],
                   [kind |-> "compacted", arg |-> v.count + 1])
<1> DEFINE n == v.count + 1
<1>1. v.count \in 0..MaxCount /\ v.count \in Nat /\ n \in 0..MaxCount /\ v.count < n
  BY SessionAssumption DEF Views
<1> DEFINE event == [type |-> "compaction", parent |-> parent, count |-> n]
           e == [kind |-> "compacted", arg |-> n]
<1> HIDE DEF n
<1>2. \A u \in Views : Replayed(u, event) = C!Edited(u, e)
  <2>1. \A u \in Views : u.count \in Nat
    BY DEF Views
  <2>2. \A u \in Views : (n > u.count) <=> (u.count < n)
    BY <1>1, <2>1
  <2> QED BY <2>2 DEF Replayed, C!Edited
<1>3. EventOK(event)
  BY <1>1 DEF EventOK
<1>4. [v EXCEPT !.count = n] \in Views
  BY <1>1, ViewChanges
<1>5. [v EXCEPT !.count = n] = C!Edited(v, e)
  BY <1>1 DEF C!Edited
<1> HIDE DEF event, e
<1>6. e \in AbstractEdits(v, [v EXCEPT !.count = n])
  BY DEF AbstractEdits, e, n
<1> QED BY <1>2, <1>3, <1>4, <1>5, <1>6 DEF IsEdit, event, e, n

LEMMA FlushEdit ==
  ASSUME NEW v \in Views, NEW c \in 1..MaxCount, NEW parent
  PROVE  LET w == [v EXCEPT !.flushed = c]
         IN IsEdit(v, w, [type |-> "flush", parent |-> parent, flushed |-> c],
                   [kind |-> "flushed", arg |-> w.flushed])
<1> DEFINE event == [type |-> "flush", parent |-> parent, flushed |-> c]
           w == [v EXCEPT !.flushed = c]
           e == [kind |-> "flushed", arg |-> w.flushed]
<1>0. c # 0 /\ c \in 0..MaxCount
  BY SessionAssumption
<1>1. w.flushed = c
  BY DEF Views
<1>2. \A u \in Views : /\ Replayed(u, event) = [u EXCEPT !.flushed = c]
                       /\ C!Edited(u, e) = [u EXCEPT !.flushed = c]
  <2> HIDE DEF w
  <2> QED BY <1>0, <1>1 DEF Replayed, C!Edited
<1>3. EventOK(event)
  BY <1>0 DEF EventOK
<1>4. w \in Views
  BY <1>0, ViewChanges
<1>5. e \in AbstractEdits(v, w)
  <2> HIDE DEF w
  <2> QED BY DEF AbstractEdits
<1> HIDE DEF event, e
<1> QED BY <1>2, <1>3, <1>4, <1>5 DEF IsEdit, event, e

\* Every edit of the store is one of them.
LEMMA EditIs ==
  ASSUME TInv,
         \/ \E m \in Message : AddFullMessage(m)
         \/ \E s \in Summary : SetSummary(s)
         \/ \E h \in Histories : SetHistory(h)
         \/ \E n \in 0..MaxEvents : TruncateHistory(n)
         \/ IncrementCompactionCount
         \/ \E c \in 1..MaxCount : MarkMemoryFlush(c)
  PROVE  \E view, event, e : /\ Record(Current, view, event) /\ event.parent = Current.leaf
                             /\ IsEdit(Current.view, view, event, e)
<1> DEFINE v == Current.view
           p == Current.leaf
<1>0. v \in Views
  BY CurrentType
<1>1. CASE \E m \in Message : AddFullMessage(m)
  <2>1. PICK m \in Message : AddFullMessage(m)
    BY <1>1
  <2>2. Record(Current, [v EXCEPT !.messages = Append(@, m)],
               [type |-> "message", parent |-> p, message |-> m])
    BY <2>1 DEF AddFullMessage, Current
  <2> HIDE DEF v, p
  <2>3. IsEdit(v, [v EXCEPT !.messages = Append(@, m)],
               [type |-> "message", parent |-> p, message |-> m], [kind |-> "add", arg |-> m])
    BY <1>0, AddEdit
  <2> QED BY <2>2, <2>3 DEF v, p
<1>2. CASE \E x \in Summary : SetSummary(x)
  <2>1. PICK x \in Summary : SetSummary(x)
    BY <1>2
  <2>2. Record(Current, [v EXCEPT !.summary = x],
               [type |-> "summary", parent |-> p, summary |-> x])
    BY <2>1 DEF SetSummary, Current
  <2> HIDE DEF v, p
  <2>3. IsEdit(v, [v EXCEPT !.summary = x], [type |-> "summary", parent |-> p, summary |-> x],
               [kind |-> "summarize", arg |-> x])
    BY <1>0, SummaryEdit
  <2> QED BY <2>2, <2>3 DEF v, p
<1>3. CASE \E h \in Histories : SetHistory(h)
  <2>1. PICK h \in Histories : SetHistory(h)
    BY <1>3
  <2>2. Record(Current, [v EXCEPT !.messages = h],
               [type |-> "history", parent |-> p, history |-> h])
    BY <2>1 DEF SetHistory, Current
  <2>3. h \in Seq(Message) /\ h # <<>>
    <3>0. PICK i \in DOMAIN log : h \in LET s == Replay[i].messages
                                        IN {KeepLast(s, n) : n \in 1..Len(s)}
      BY DEF Histories
    <3>1. PICK n \in 1..Len(Replay[i].messages) : h = KeepLast(Replay[i].messages, n)
      BY <3>0
    <3>2. i \in Nat
      BY LogType DEF TInv
    <3>3. Replay[i].messages \in Seq(Message)
      BY <3>2, LogReplay DEF Views
    <3>4. n \in 0..Len(Replay[i].messages) /\ n # 0
      BY <3>3
    <3>5. h \in Seq(Message) /\ Len(h) = n
      BY <3>1, <3>3, <3>4, KeepLastType
    <3> QED BY <3>4, <3>5
  <2> HIDE DEF v, p
  <2>4. IsEdit(v, [v EXCEPT !.messages = h], [type |-> "history", parent |-> p, history |-> h],
               [kind |-> "replace", arg |-> [v EXCEPT !.messages = h].messages])
    BY <1>0, <2>3, HistoryEdit
  <2> QED BY <2>2, <2>4 DEF v, p
<1>4. CASE \E n \in 0..MaxEvents : TruncateHistory(n)
  <2>1. PICK n \in 0..MaxEvents : TruncateHistory(n)
    BY <1>4
  <2>2. Record(Current, [v EXCEPT !.messages = KeepLast(@, n)],
               [type |-> "truncate", parent |-> p, keep |-> n])
    BY <2>1 DEF TruncateHistory, Current
  <2>3. n \in Nat /\ (n = 0 \/ Len(v.messages) > n)
    BY <2>1 DEF TruncateHistory, Current
  <2> HIDE DEF v, p
  <2>4. IsEdit(v, [v EXCEPT !.messages = KeepLast(@, n)],
               [type |-> "truncate", parent |-> p, keep |-> n], [kind |-> "cut", arg |-> n])
    BY <1>0, <2>3, CutEdit
  <2> QED BY <2>2, <2>4 DEF v, p
<1>5. CASE IncrementCompactionCount
  <2>1. Record(Current, [v EXCEPT !.count = v.count + 1],
               [type |-> "compaction", parent |-> p, count |-> v.count + 1])
    BY <1>5 DEF IncrementCompactionCount, Current
  <2>2. v.count + 1 <= MaxCount
    BY <1>5 DEF IncrementCompactionCount, Current
  <2> HIDE DEF v, p
  <2>3. IsEdit(v, [v EXCEPT !.count = v.count + 1],
               [type |-> "compaction", parent |-> p, count |-> v.count + 1],
               [kind |-> "compacted", arg |-> v.count + 1])
    BY <1>0, <2>2, CountEdit
  <2> QED BY <2>1, <2>3 DEF v, p
<1>6. CASE \E c \in 1..MaxCount : MarkMemoryFlush(c)
  <2>1. PICK c \in 1..MaxCount : MarkMemoryFlush(c)
    BY <1>6
  <2>2. Record(Current, [v EXCEPT !.flushed = c],
               [type |-> "flush", parent |-> p, flushed |-> c])
    BY <2>1 DEF MarkMemoryFlush, Current
  <2> HIDE DEF v, p
  <2>3. IsEdit(v, [v EXCEPT !.flushed = c], [type |-> "flush", parent |-> p, flushed |-> c],
               [kind |-> "flushed", arg |-> [v EXCEPT !.flushed = c].flushed])
    BY <1>0, FlushEdit
  <2> QED BY <2>2, <2>3 DEF v, p
<1> QED BY <1>1, <1>2, <1>3, <1>4, <1>5, <1>6

\* The branch a switch holds is one the file had, and has.
SwitchRead == switch # NoSwitch => switch.view = Replay[switch.leaf]

RInv == TInv /\ SwitchRead

LEMMA SameReplay == UNCHANGED log => Replay' = Replay
<1>1. Replay = ReplayOf(log) /\ Replay' = ReplayOf(log')
  BY DEF Replay, ReplayOf
<1> QED BY <1>1

\* An edit leaves the branches of the file, and adds one or none.
LEMMA ReplayKept ==
  ASSUME TInv, NEW view, NEW event, Record(Current, view, event), event.parent = Current.leaf
  PROVE  /\ \A i \in 0..Len(log) : Replay'[i] = Replay[i]
         /\ \/ log' = log
            \/ /\ Len(log') = Len(log) + 1 /\ DOMAIN log' = DOMAIN log \cup {Len(log) + 1}
               /\ Replay'[Len(log) + 1] = Replayed(Replay[Current.leaf], event)
<1>1. /\ Len(log) \in Nat /\ DOMAIN log = 1..Len(log)
      /\ \/ log' = log
         \/ /\ Len(log') = Len(log) + 1 /\ DOMAIN log' = DOMAIN log \cup {Len(log) + 1}
            /\ \A i \in DOMAIN log : log'[i] = log[i]
            /\ log'[Len(log) + 1] = event
  BY RecordLog, LogType DEF TInv
<1>2. CASE log' = log
  <2>1. Replay' = Replay
    BY <1>2, SameReplay
  <2> QED BY <1>2, <2>1
<1>3. CASE /\ Len(log') = Len(log) + 1 /\ DOMAIN log' = DOMAIN log \cup {Len(log) + 1}
           /\ \A i \in DOMAIN log : log'[i] = log[i]
           /\ log'[Len(log) + 1] = event
  <2> DEFINE n == Len(log) + 1
  <2>1. Whole(log) /\ Replay = ReplayOf(log) /\ Replay' = ReplayOf(log')
    BY LogReplay DEF Replay, ReplayOf
  <2>2. Current.leaf \in 0..Len(log)
    BY CurrentType
  <2>3. Whole(log')
    <3>1. DOMAIN log' = 1..Len(log') /\ Len(log') \in Nat
      BY <1>1, <1>3
    <3>2. \A i \in DOMAIN log' : log'[i].parent \in 0..(i - 1)
      BY <1>1, <1>3, <2>1, <2>2 DEF Whole
    <3> QED BY <3>1, <3>2 DEF Whole
  <2>4. \A i \in 0..Len(log) : ReplayOf(log')[i] = ReplayOf(log)[i]
    BY <1>3, <2>1, <2>3, ReplayAppended
  <2>5. n \in Nat /\ n \in DOMAIN log'
    BY <1>1, <1>3
  <2>6. ReplayOf(log')[n] = Replayed(ReplayOf(log')[log'[n].parent], log'[n])
    BY <2>3, <2>5, ReplayEquation
  <2>7. log'[n] = event
    BY <1>3
  <2>8. ReplayOf(log')[n] = Replayed(ReplayOf(log)[Current.leaf], event)
    BY <2>2, <2>4, <2>6, <2>7
  <2> QED BY <1>3, <2>1, <2>4, <2>8
<1> QED BY <1>1, <1>2, <1>3

\* A session with another field is a session.
LEMMA SessionChanges ==
  ASSUME NEW s \in Sessions
  PROVE  /\ s.view \in Views /\ s.leaf \in 0..MaxEvents /\ s.override \in BOOLEAN
         /\ \A b \in BOOLEAN : [s EXCEPT !.override = b] \in Sessions
         /\ s # NoSession
<1> HIDE DEF Views
<1> QED BY SessionAssumption DEF Sessions

LEMMA SessionMoves ==
  ASSUME NEW s \in Sessions, NEW v \in Views, NEW l \in 0..MaxEvents
  PROVE  /\ [s EXCEPT !.view = v] \in Sessions
         /\ [s EXCEPT !.view = v, !.leaf = l] \in Sessions
<1> HIDE DEF Views
<1>1. PICK t : t = [s EXCEPT !.view = v]
  OBVIOUS
<1>2. t \in Sessions
  BY <1>1 DEF Sessions
<1>3. [t EXCEPT !.leaf = l] \in Sessions
  BY <1>2 DEF Sessions
<1> QED BY <1>1, <1>2, <1>3

\* An edit keeps the types.
LEMMA EditTypes ==
  ASSUME TInv, NEW view, NEW event, NEW e, Record(Current, view, event),
         event.parent = Current.leaf, IsEdit(Current.view, view, event, e)
  PROVE  TypeOK' /\ Events'
<1>1. /\ Len(log) \in Nat /\ Len(log) < MaxEvents /\ DOMAIN log = 1..Len(log)
      /\ \/ log' = log
         \/ /\ Len(log') = Len(log) + 1 /\ DOMAIN log' = DOMAIN log \cup {Len(log) + 1}
            /\ \A i \in DOMAIN log : log'[i] = log[i]
            /\ log'[Len(log) + 1] = event
      /\ \/ session' = [Current EXCEPT !.view = view]
         \/ /\ Len(log') = Len(log) + 1
            /\ session' = [Current EXCEPT !.view = view, !.leaf = Len(log) + 1]
  BY RecordLog, LogType DEF TInv
<1>2. view \in Views /\ EventOK(event) /\ Current \in Sessions
  BY CurrentType DEF IsEdit
<1>3. Events'
  BY <1>1, <1>2 DEF TInv, Events
<1>4. session' \in Sessions /\ session' # NoSession
  <2>1. Len(log) + 1 \in 0..MaxEvents
    BY <1>1, SessionAssumption
  <2>2. PICK l \in 0..MaxEvents : l = Len(log) + 1
    BY <2>1
  <2>3. /\ [Current EXCEPT !.view = view] \in Sessions
        /\ [Current EXCEPT !.view = view, !.leaf = l] \in Sessions
    BY <1>2, SessionMoves
  <2>4. session' \in Sessions
    BY <1>1, <2>2, <2>3
  <2> QED BY <2>4, SessionChanges
<1>5. Len(log') <= MaxEvents /\ DOMAIN log \subseteq DOMAIN log'
  BY <1>1, SessionAssumption
<1>6. /\ intact' \in BOOLEAN /\ writing' \in BOOLEAN /\ UNCHANGED <<meta, pending, switch>>
  BY DEF Record, TInv, TypeOK
<1>7. faults' \in 0..MaxFaults
  BY SessionAssumption DEF Record, Fault, TInv, TypeOK
<1> QED BY <1>3, <1>4, <1>5, <1>6, <1>7 DEF TInv, TypeOK

\* The other steps keep the file.
LEMMA OtherTypes ==
  ASSUME TInv, UNCHANGED <<log>>,
         session' \in Sessions \cup {NoSession}, intact' \in BOOLEAN, faults' \in 0..MaxFaults,
         meta' \in Metas \cup {NoMeta}, pending' \subseteq Metas,
         writing' \in BOOLEAN, writing' => session' # NoSession,
         switch' # NoSwitch => switch'.leaf \in DOMAIN log /\ switch'.view \in Views
  PROVE  TypeOK' /\ Events'
BY DEF TInv, TypeOK, Events

LEMMA MetaType == \A s \in Sessions : MetaOf(s) \in Metas
BY DEF Sessions, MetaOf, Metas

LEMMA WriteTypes ==
  ASSUME TInv, NEW m \in Metas, WriteTo(m)
  PROVE  meta' \in Metas \cup {NoMeta} /\ faults' \in 0..MaxFaults
BY SessionAssumption DEF WriteTo, Fault, TInv, TypeOK

LEMMA BuildTypes ==
  ASSUME TInv, NEW s \in Sessions, Build(s)
  PROVE  TypeOK' /\ Events'
<1>1. /\ session' = s /\ pending' = pending \cup {MetaOf(s)}
      /\ UNCHANGED <<log, intact, meta, writing, switch, faults>> /\ s # NoSession
  BY SessionChanges DEF Build
<1> QED BY <1>1, MetaType, OtherTypes DEF TInv, TypeOK

\* What Loaded gives is a session of the file.
LEMMA LoadedIs ==
  ASSUME TInv, Loaded # NoSession
  PROVE  /\ Loaded \in Sessions /\ Loaded.leaf \in DOMAIN log
         /\ Loaded.view = Replay[Loaded.leaf]
<1> DEFINE leaf == LeafOf(IF meta = NoMeta THEN 0 ELSE meta.leaf)
<1>1. /\ log # <<>>
      /\ Loaded = [view |-> Replay[leaf], leaf |-> leaf, override |-> meta # NoMeta /\ meta.override]
  BY DEF Loaded
<1>2. Len(log) \in Nat /\ DOMAIN log = 1..Len(log) /\ Len(log) # 0
  <2>1. PICK E : log \in Seq(E)
    BY DEF TInv, Inv, Shapes
  <2> QED BY <1>1, <2>1
<1>3. leaf \in DOMAIN log
  BY <1>2 DEF LeafOf
<1> HIDE DEF leaf
<1>4. leaf \in Nat /\ leaf \in 0..MaxEvents
  BY <1>2, <1>3, SessionAssumption DEF TInv, TypeOK
<1>5. Replay[leaf] \in Views
  BY <1>4, LogReplay
<1>6. (meta # NoMeta /\ meta.override) \in BOOLEAN
  OBVIOUS
<1> HIDE DEF Views
<1> QED BY <1>1, <1>3, <1>4, <1>5, <1>6 DEF Sessions

LEMMA TypesNext ==
  ASSUME RInv, [Next]_vars
  PROVE  TypeOK' /\ Events'
<1>0. /\ TInv /\ session \in Sessions \cup {NoSession} /\ meta \in Metas \cup {NoMeta}
      /\ pending \subseteq Metas /\ intact \in BOOLEAN /\ faults \in 0..MaxFaults
      /\ writing \in BOOLEAN /\ (writing => session # NoSession)
      /\ switch # NoSwitch => switch.leaf \in DOMAIN log /\ switch.view \in Views
  BY DEF RInv, TInv, TypeOK
<1>1. CASE \/ \E m \in Message : AddFullMessage(m)
           \/ \E s \in Summary : SetSummary(s)
           \/ \E h \in Histories : SetHistory(h)
           \/ \E n \in 0..MaxEvents : TruncateHistory(n)
           \/ IncrementCompactionCount
           \/ \E c \in 1..MaxCount : MarkMemoryFlush(c)
  BY ONLY <1>0, <1>1, EditIs, EditTypes
<1>2. CASE PersistMeta
  <2>1. session \in Sessions /\ MetaOf(session) \in Metas /\ WriteTo(MetaOf(session))
    BY <1>0, <1>2, MetaType DEF PersistMeta
  <2>2. meta' \in Metas \cup {NoMeta} /\ faults' \in 0..MaxFaults
    BY <1>0, <2>1, WriteTypes
  <2> QED BY <1>0, <1>2, <2>2, OtherTypes DEF PersistMeta
<1>3. CASE Save \/ SetModelOverride \/ ClearModelOverride \/ ExpireModelOverride
  <2>1. \A s \in Sessions : /\ [s EXCEPT !.override = TRUE] \in Sessions
                            /\ [s EXCEPT !.override = FALSE] \in Sessions
    BY SessionChanges
  <2>2. \E s \in Sessions : Build(s)
    BY <1>0, <1>3, <2>1, BlankType DEF Save, SetModelOverride, ClearModelOverride,
       ExpireModelOverride
  <2> QED BY <1>0, <2>2, BuildTypes
<1>4. CASE \E m \in pending : WriteMeta(m)
  <2>1. PICK m \in pending : WriteMeta(m)
    BY <1>4
  <2>2. meta' \in Metas \cup {NoMeta} /\ faults' \in 0..MaxFaults
    BY <1>0, <2>1, WriteTypes DEF WriteMeta
  <2> QED BY <1>0, <2>1, <2>2, OtherTypes DEF WriteMeta
<1>5. CASE \E i \in 1..MaxEvents : ReadBranch(i)
  <2>1. PICK i \in 1..MaxEvents : ReadBranch(i)
    BY <1>5
  <2>2. i \in DOMAIN log /\ switch' = [leaf |-> i, view |-> Replay[i]] /\ i \in Nat
    BY <2>1 DEF ReadBranch
  <2>3. switch'.leaf \in DOMAIN log /\ switch'.view \in Views
    BY <1>0, <2>2, LogReplay
  <2> QED BY <1>0, <2>1, <2>3, OtherTypes DEF ReadBranch
<1>6. CASE SwitchLeaf
  <2>1. CASE session = NoSession /\ UNCHANGED <<session, writing>>
    BY <1>0, <1>6, <2>1, OtherTypes DEF SwitchLeaf
  <2>2. CASE /\ session # NoSession /\ writing' = TRUE
             /\ session' = [session EXCEPT !.view = switch.view, !.leaf = switch.leaf]
    <3>1. switch.view \in Views /\ switch.leaf \in 0..MaxEvents
      <4>1. switch.leaf \in DOMAIN log /\ switch.view \in Views
        BY <1>0, <1>6 DEF SwitchLeaf
      <4> QED BY <4>1, LogType, SessionAssumption DEF RInv, TInv, TypeOK
    <3>2. session' \in Sessions /\ session' # NoSession
      BY <1>0, <2>2, <3>1, SessionChanges, SessionMoves
    <3> QED BY <1>0, <1>6, <2>2, <3>2, OtherTypes DEF SwitchLeaf
  <2> QED BY <1>6, <2>1, <2>2 DEF SwitchLeaf
<1>7. CASE GetOrCreate
  BY <1>0, <1>7, BlankType, OtherTypes DEF GetOrCreate
<1>8. CASE Evict
  BY <1>0, <1>8, OtherTypes DEF Evict
<1>9. CASE Restart
  <2>1. session' \in Sessions \cup {NoSession}
    BY <1>0, <1>9, LoadedIs DEF Restart
  <2> QED BY <1>0, <1>9, <2>1, OtherTypes DEF Restart
<1>10. CASE UNCHANGED vars
  BY <1>0, <1>10, OtherTypes DEF vars
<1> QED BY <1>1, <1>2, <1>3, <1>4, <1>5, <1>6, <1>7, <1>8, <1>9, <1>10 DEF Next

LEMMA SwitchReadNext ==
  ASSUME RInv, [Next]_vars
  PROVE  SwitchRead'
<1>1. CASE /\ UNCHANGED switch
           /\ \/ UNCHANGED log
              \/ \E view, event : Record(Current, view, event) /\ event.parent = Current.leaf
  <2>1. switch # NoSwitch => switch.leaf \in DOMAIN log /\ switch.view = Replay[switch.leaf]
    BY DEF RInv, TInv, TypeOK, SwitchRead
  <2>2. CASE UNCHANGED log
    BY <1>1, <2>1, <2>2, SameReplay DEF SwitchRead
  <2>3. CASE \E view, event : Record(Current, view, event) /\ event.parent = Current.leaf
    <3>1. PICK view, event : Record(Current, view, event) /\ event.parent = Current.leaf
      BY <2>3
    <3>2. \A i \in 0..Len(log) : Replay'[i] = Replay[i]
      BY <3>1, ReplayKept DEF RInv
    <3>3. \A i \in DOMAIN log : i \in 0..Len(log)
      BY LogType DEF RInv, TInv
    <3> QED BY <1>1, <2>1, <3>2, <3>3 DEF SwitchRead
  <2> QED BY <1>1, <2>2, <2>3
<1>2. CASE \/ \E m \in Message : AddFullMessage(m)
           \/ \E s \in Summary : SetSummary(s)
           \/ \E h \in Histories : SetHistory(h)
           \/ \E n \in 0..MaxEvents : TruncateHistory(n)
           \/ IncrementCompactionCount
           \/ \E c \in 1..MaxCount : MarkMemoryFlush(c)
  <2>1. PICK view, event : Record(Current, view, event) /\ event.parent = Current.leaf
    BY ONLY RInv, <1>2, EditIs DEF RInv
  <2>2. UNCHANGED switch
    BY <2>1 DEF Record
  <2> QED BY <1>1, <2>1, <2>2
<1>3. CASE \E i \in 1..MaxEvents : ReadBranch(i)
  <2>1. PICK i \in 1..MaxEvents : ReadBranch(i)
    BY <1>3
  <2>2. switch' = [leaf |-> i, view |-> Replay[i]] /\ UNCHANGED log
    BY <2>1 DEF ReadBranch
  <2>3. Replay' = Replay /\ switch'.view = Replay[i] /\ switch'.leaf = i
    BY <2>2, SameReplay
  <2> QED BY <2>3 DEF SwitchRead
<1>4. CASE SwitchLeaf \/ Restart
  BY <1>4 DEF SwitchLeaf, Restart, SwitchRead
<1>5. CASE \/ PersistMeta \/ Save \/ SetModelOverride \/ ClearModelOverride
           \/ ExpireModelOverride \/ (\E m \in pending : WriteMeta(m))
           \/ GetOrCreate \/ Evict \/ UNCHANGED vars
  <2>1. UNCHANGED <<log, switch>>
    BY <1>5 DEF PersistMeta, Save, SetModelOverride, ClearModelOverride, ExpireModelOverride,
       Build, WriteMeta, GetOrCreate, Evict, vars
  <2> QED BY <1>1, <2>1
<1> QED BY <1>2, <1>3, <1>4, <1>5 DEF Next

LEMMA RInvInit == Init => RInv
<1> SUFFICES ASSUME Init PROVE RInv
  OBVIOUS
<1>1. Len(log) = 0 /\ DOMAIN log = {}
  BY DEF Init
<1>2. TypeOK
  <2>1. 0 \in 0..MaxFaults /\ 0 <= MaxEvents
    BY SessionAssumption
  <2> QED BY <1>1, <2>1, Zenon DEF Init, TypeOK
<1> QED BY <1>1, <1>2, InitInv DEF RInv, TInv, Events, SwitchRead, Init

LEMMA RInvNext == RInv /\ [Next]_vars => RInv'
<1>1. RInv /\ [Next]_vars => Inv'
  BY NextInv DEF RInv, TInv
<1> QED BY <1>1, TypesNext, SwitchReadNext DEF RInv, TInv

LEMMA Reachable == Spec => []RInv
<1>1. RInv /\ [Next]_vars => RInv'
  BY RInvNext
<1> QED BY <1>1, RInvInit, PTL DEF Spec

\* The session in memory, the meta file and what is in flight keep their types,
\* and the branch that SwitchLeaf has read is one of the file.
THEOREM TypeCorrect == Spec => []TypeOK
<1>1. RInv => TypeOK
  BY DEF RInv, TInv
<1> QED BY <1>1, Reachable, PTL

-----------------------------------------------------------------------------
(* The store implements the abstract conversation.                          *)

Now == IF session = NoSession THEN Blank ELSE session.view
Saved == IF session = NoSession THEN Blank ELSE Replay[session.leaf]
Past == {Replay[i] : i \in DOMAIN log}

LEMMA MappedTo ==
  ASSUME TInv
  PROVE  Now = Current.view /\ Saved = Replay[Current.leaf]
BY LogReplay DEF Now, Saved, Current, Fresh

\* An edit is kept in the branch of the session, or only seen in memory, or
\* found in the file by a later restart.
LEMMA EditMaps ==
  ASSUME RInv, NEW view, NEW event, NEW e, Record(Current, view, event),
         event.parent = Current.leaf, IsEdit(Current.view, view, event, e)
  PROVE  /\ Now' = C!Edited(Now, e) /\ Now' = view
         /\ \/ Saved' = C!Edited(Saved, e) /\ Past' = Past \cup {Saved'}
            \/ Saved' = Saved /\ Past' \in {Past, Past \cup {C!Edited(Saved, e)}}
<1>0. /\ TInv /\ view \in Views /\ Current \in Sessions
      /\ Current.leaf \in 0..Len(log) /\ Current.leaf \in Nat
      /\ Now = Current.view /\ Saved = Replay[Current.leaf]
      /\ Len(log) \in Nat /\ DOMAIN log = 1..Len(log)
  BY CurrentType, MappedTo, LogType DEF RInv, TInv, IsEdit
<1>1. /\ \A i \in 0..Len(log) : Replay'[i] = Replay[i]
      /\ \/ log' = log
         \/ /\ Len(log') = Len(log) + 1 /\ DOMAIN log' = DOMAIN log \cup {Len(log) + 1}
            /\ Replay'[Len(log) + 1] = Replayed(Replay[Current.leaf], event)
  BY <1>0, ReplayKept
<1>2. Len(log) + 1 \in 0..MaxEvents
  BY <1>0, SessionAssumption DEF Record
<1>3. PICK n \in 0..MaxEvents : n = Len(log) + 1
  BY <1>2
<1>4. Replayed(Saved, event) = C!Edited(Saved, e)
  <2>1. Replay[Current.leaf] \in Views
    BY <1>0, LogReplay
  <2> QED BY <1>0, <2>1 DEF IsEdit
<1>5. PICK s : s = Current
  OBVIOUS
<1>6. PICK t, u : /\ t = [s EXCEPT !.view = view] /\ u = [s EXCEPT !.view = view, !.leaf = n]
                 /\ (session' = t \/ (Len(log') = Len(log) + 1 /\ session' = u))
  BY <1>0, <1>3, <1>5, RecordLog DEF TInv
<1>7. /\ s \in Sessions /\ t \in Sessions /\ u \in Sessions
      /\ t.view = view /\ u.view = view /\ t.leaf = s.leaf /\ u.leaf = n
  <2>1. s \in Sessions /\ t \in Sessions /\ u \in Sessions
    BY <1>0, <1>5, <1>6, SessionMoves
  <2>2. t.view = view /\ t.leaf = s.leaf
    BY <1>6, <2>1 DEF Sessions
  <2>3. u = [t EXCEPT !.leaf = n]
    BY <1>6
  <2> QED BY <2>1, <2>2, <2>3 DEF Sessions
<1>8. session' # NoSession /\ session'.view = view
  BY <1>6, <1>7, SessionChanges
<1>9. Now' = view
  BY <1>8 DEF Now
<1>10. view = C!Edited(Now, e)
  BY <1>0 DEF IsEdit
<1>11. CASE log' = log
  <2>1. session' = t
    <3>1. session' = t \/ (Len(log') = Len(log) + 1 /\ session' = u)
      BY <1>6, Zenon
    <3>2. Len(log) \in Nat
      BY <1>0 DEF TInv, TypeOK
    <3> QED BY <1>11, <3>1, <3>2
  <2>2. session'.leaf = Current.leaf
    BY <1>5, <1>7, <2>1
  <2>3. Saved' = Saved
    BY <1>0, <1>1, <1>8, <2>2 DEF Saved
  <2>4. Past' = Past
    BY <1>11, SameReplay DEF Past
  <2> QED BY <1>9, <1>10, <2>3, <2>4
<1>12. CASE /\ Len(log') = Len(log) + 1 /\ DOMAIN log' = DOMAIN log \cup {Len(log) + 1}
            /\ Replay'[Len(log) + 1] = Replayed(Replay[Current.leaf], event)
  <2>1. Replay'[n] = C!Edited(Saved, e)
    BY <1>0, <1>3, <1>4, <1>12
  <2>2. Past' = Past \cup {C!Edited(Saved, e)}
    <3>1. \A i \in DOMAIN log : Replay'[i] = Replay[i]
      BY <1>0, <1>1
    <3>2. DOMAIN log' = DOMAIN log \cup {n}
      BY <1>3, <1>12
    <3> QED BY <2>1, <3>1, <3>2 DEF Past
  <2>3. CASE session' = t
    <3>1. session'.leaf = Current.leaf
      BY <1>5, <1>7, <2>3
    <3>2. Saved' = Saved
      BY <1>0, <1>1, <1>8, <3>1 DEF Saved
    <3> QED BY <1>9, <1>10, <2>2, <3>2
  <2>4. CASE session' = u
    <3>1. session'.leaf = n
      BY <1>7, <2>4
    <3>2. Saved' = Replay'[n]
      BY <1>8, <3>1 DEF Saved
    <3> QED BY <1>9, <1>10, <2>1, <2>2, <3>2
  <2> QED BY <1>6, <2>3, <2>4
<1> QED BY <1>1, <1>11, <1>12

LEMMA EditImplements ==
  ASSUME RInv,
         \/ \E m \in Message : AddFullMessage(m)
         \/ \E s \in Summary : SetSummary(s)
         \/ \E h \in Histories : SetHistory(h)
         \/ \E n \in 0..MaxEvents : TruncateHistory(n)
         \/ IncrementCompactionCount
         \/ \E c \in 1..MaxCount : MarkMemoryFlush(c)
  PROVE  C!Next
<1>1. PICK view, event, e : /\ Record(Current, view, event) /\ event.parent = Current.leaf
                            /\ IsEdit(Current.view, view, event, e)
  BY EditIs DEF RInv
<1>2. /\ Now' = C!Edited(Now, e) /\ Now' = view
      /\ \/ Saved' = C!Edited(Saved, e) /\ Past' = Past \cup {Saved'}
         \/ Saved' = Saved /\ Past' \in {Past, Past \cup {C!Edited(Saved, e)}}
  BY <1>1, EditMaps
<1>3. C!Edit(e)
  BY <1>2 DEF C!Edit, Now, Saved, Past
<1>4. e \in AbstractEdits(Now, Now')
  BY <1>1, <1>2, MappedTo DEF IsEdit, RInv
<1>5. CASE e \in {[kind |-> "add", arg |-> m] : m \in Message}
  BY <1>3, <1>5 DEF C!Next
<1>6. CASE e \in {[kind |-> "summarize", arg |-> x] : x \in Summary}
  BY <1>3, <1>6 DEF C!Next
<1>7. CASE e = [kind |-> "replace", arg |-> Now'.messages]
  BY <1>3, <1>7 DEF C!Next, C!Edit, Now
<1>8. CASE e \in {[kind |-> "cut", arg |-> n] : n \in 0..Len(Now.messages)}
  BY <1>3, <1>8 DEF C!Next, Now
<1>9. CASE e = [kind |-> "compacted", arg |-> Now.count + 1]
  BY <1>3, <1>9 DEF C!Next, C!Edit, Now
<1>10. CASE e = [kind |-> "flushed", arg |-> Now'.flushed]
  BY <1>3, <1>10 DEF C!Next, C!Edit, Now
<1> QED BY <1>4, <1>5, <1>6, <1>7, <1>8, <1>9, <1>10 DEF AbstractEdits

\* A step that is no edit: memory returns to a state the file had, or to none,
\* or changes nothing the agent reads.
LEMMA ReturnImplements ==
  ASSUME RInv, UNCHANGED log,
         \/ session' = NoSession
         \/ /\ session' # NoSession /\ session'.leaf \in DOMAIN log
            /\ session'.view = Replay[session'.leaf]
  PROVE  C!Next
<1>1. Replay' = Replay /\ Past' = Past
  BY SameReplay DEF Past
<1>2. Now' = Saved' /\ Now' \in Past \cup {Blank}
  BY <1>1 DEF Now, Saved, Past
<1>3. C!Return
  BY <1>1, <1>2 DEF C!Return, Now, Saved, Past, Blank, C!Blank
<1> QED BY <1>3 DEF C!Next

LEMMA StutterImplements ==
  ASSUME TInv, UNCHANGED log, Current'.view = Current.view, Current'.leaf = Current.leaf
  PROVE  UNCHANGED <<Now, Saved, Past>>
<1>1. Replay' = Replay /\ Past' = Past /\ Replay[0] = Blank
  BY SameReplay, LogReplay DEF Past
<1>2. Now = Current.view /\ Saved = Replay[Current.leaf]
  BY MappedTo
<1>3. Now' = Current'.view /\ Saved' = Replay'[Current'.leaf]
  BY <1>1 DEF Now, Saved, Current, Fresh
<1> QED BY <1>1, <1>2, <1>3

LEMMA StepImplements ==
  ASSUME RInv, [Next]_vars
  PROVE  C!Next \/ UNCHANGED <<Now, Saved, Past>>
<1>0. TInv /\ session \in Sessions \cup {NoSession}
  BY DEF RInv, TInv, TypeOK
<1>1. CASE \/ \E m \in Message : AddFullMessage(m)
           \/ \E s \in Summary : SetSummary(s)
           \/ \E h \in Histories : SetHistory(h)
           \/ \E n \in 0..MaxEvents : TruncateHistory(n)
           \/ IncrementCompactionCount
           \/ \E c \in 1..MaxCount : MarkMemoryFlush(c)
  BY ONLY RInv, <1>1, EditImplements
<1>2. CASE \/ PersistMeta \/ Save \/ (\E m \in pending : WriteMeta(m))
           \/ (\E i \in 1..MaxEvents : ReadBranch(i)) \/ GetOrCreate \/ UNCHANGED vars
  <2>1. UNCHANGED log /\ Current' = Current
    BY <1>2, BlankType, SessionAssumption DEF PersistMeta, Save, Build, WriteMeta, ReadBranch,
       GetOrCreate, vars, Current
  <2> QED BY <1>0, <2>1, StutterImplements
<1>3. CASE SetModelOverride \/ ClearModelOverride \/ ExpireModelOverride
  <2>1. PICK b \in BOOLEAN : Build([Current EXCEPT !.override = b])
    BY <1>3 DEF SetModelOverride, ClearModelOverride, ExpireModelOverride, Current
  <2>2. PICK s : s = [Current EXCEPT !.override = b]
    OBVIOUS
  <2>3. s \in Sessions /\ s.view = Current.view /\ s.leaf = Current.leaf
    BY <1>0, <2>2, CurrentType, SessionChanges DEF Sessions
  <2>4. Current' = s /\ UNCHANGED log
    BY <2>1, <2>2, <2>3, SessionChanges DEF Build, Current
  <2> QED BY <1>0, <2>3, <2>4, StutterImplements
<1>4. CASE SwitchLeaf
  <2>1. switch.leaf \in DOMAIN log /\ switch.view = Replay[switch.leaf] /\ UNCHANGED log
    BY <1>0, <1>4 DEF RInv, SwitchRead, TInv, TypeOK, SwitchLeaf
  <2>2. CASE session = NoSession /\ UNCHANGED <<session, writing>>
    BY <2>1, <2>2, ReturnImplements
  <2>3. CASE /\ session # NoSession
             /\ session' = [session EXCEPT !.view = switch.view, !.leaf = switch.leaf]
    <3>1. PICK v \in Views, l \in 0..MaxEvents : v = switch.view /\ l = switch.leaf
      BY <1>0, <1>4, <2>1, LogType, SessionAssumption DEF SwitchLeaf, TInv, TypeOK
    <3>2. session' = [session EXCEPT !.view = v, !.leaf = l]
      BY <2>3, <3>1
    <3>3. session = [view |-> session.view, leaf |-> session.leaf, override |-> session.override]
          /\ session.override \in BOOLEAN
      BY <1>0, <2>3 DEF Sessions
    <3>4. session' = [view |-> v, leaf |-> l, override |-> session.override]
      BY <3>2, <3>3
    <3>5. session' \in Sessions /\ session' # NoSession
      BY <3>3, <3>4, SessionAssumption DEF Sessions
    <3> QED BY <2>1, <3>1, <3>4, <3>5, ReturnImplements
  <2> QED BY <1>4, <2>2, <2>3 DEF SwitchLeaf
<1>5. CASE Evict
  BY <1>5, ReturnImplements DEF Evict
<1>6. CASE Restart
  BY <1>0, <1>6, LoadedIs, ReturnImplements DEF Restart
<1> QED BY <1>1, <1>2, <1>3, <1>4, <1>5, <1>6 DEF Next

\* Whatever is appended while a branch is read, whatever fails, is evicted or
\* killed: the agent reads states the conversation had, one edit after the other
\* (manager_mutations.go:152-170, tree.go:114-181).
THEOREM ImplementsConversation == Spec => RefinesConversation
<1>1. Init => C!Init
  BY DEF Init, C!Init, Blank, C!Blank
<1>2. RInv /\ [Next]_vars => [C!Next]_<<Now, Saved, Past>>
  BY StepImplements
<1> QED BY <1>1, <1>2, Reachable, PTL DEF Spec, RefinesConversation, C!Spec, Now, Saved, Past

=============================================================================
