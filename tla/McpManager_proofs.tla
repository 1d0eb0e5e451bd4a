--------------------------- MODULE McpManager_proofs ---------------------------
(***************************************************************************)
(* Proofs about McpManager for every set of calls and servers and every    *)
(* number of reloads.  OneManagerOpen looks at moments between reloads; in *)
(* between, an old manager has connections only if its Close has not begun *)
(* or some Close of it is still under way (Superseded, Handled): the Close *)
(* that finds it closed returns at once, and leaves them to the other one. *)
(***************************************************************************)
EXTENDS McpManager, FiniteSetTheorems, TLAPS

\* The calls that a manager's WaitGroup counts.
Sent(m) == {c \in Calls : call[c].pc = "sent" /\ call[c].mgr = m}
Types ==
  /\ TypeOK
  /\ \A m \in Managers : wg[m] = Cardinality(Sent(m))
  /\ \A c \in Calls : call[c].pc # "idle" => call[c].mgr \in Managers
  /\ \A a \in Closers : closer[a].pc # "idle" => closer[a].mgr \in Managers

\* Where ReloadMCPTools is, and what it has done by then.
Reloading ==
  /\ reload.pc = "idle" => closer["reload"].pc = "idle" /\ tools \in {None, current}
  /\ reload.pc # "idle" => /\ reload.old \in Managers /\ reload.new \in Managers
                           /\ reload.new = reload.old + 1
  /\ reload.pc \in {"load", "register", "replace"} =>
        closer["reload"].pc = "idle" /\ current = reload.old
  /\ reload.pc \in {"load", "register"} => tools = None
  /\ reload.pc \in {"replace", "close"} => tools \in {None, reload.new}
  /\ reload.pc = "close" => /\ closer["reload"].pc # "idle" /\ closer["reload"].mgr = reload.old
                            /\ current \in {reload.old, reload.new}

\* Only managers that were current are closed, and a Close past its swap is of one.
ClosedOnes ==
  /\ \A m \in Managers : closed[m] => m <= current
  /\ \A a \in Closers : closer[a].pc # "idle" => closer[a].mgr <= current
  /\ \A a \in Closers : closer[a].pc \in {"wait", "lock", "done"} => closed[closer[a].mgr]
\* Connections are the current manager's, those of the one to come, or of one
\* whose Close has to come or is under way.
Superseded ==
  \A m \in Managers : servers[m] # {} =>
    \/ m = current
    \/ reload.pc # "idle" /\ m = reload.new
    \/ m < current /\ closed[m]
    \/ m < current /\ closer["reload"].pc = "swap" /\ closer["reload"].mgr = m
Handled ==
  \A m \in Managers : servers[m] # {} /\ closed[m] =>
    \E a \in Closers : closer[a].pc \in {"wait", "lock"} /\ closer[a].mgr = m

Control == Reloading /\ ClosedOnes /\ Superseded /\ Handled
Inv == Types /\ Control

-----------------------------------------------------------------------------
(* The tables, one entry at a time.                                         *)

CallStates == [pc : {"idle", "taken", "checked", "sent"}, mgr : Managers \cup {None},
               server : Servers \cup {None}]
CloseStates == [pc : {"idle", "swap", "wait", "lock", "done"}, mgr : Managers \cup {None}]
ReloadStates == [pc : {"idle", "load", "register", "replace", "close"},
                 old : Managers \cup {None}, new : Managers \cup {None}]

LEMMA Typed ==
  ASSUME Types
  PROVE  /\ closed \in [Managers -> BOOLEAN] /\ servers \in [Managers -> SUBSET Servers]
         /\ wg \in [Managers -> 0 .. Cardinality(Calls)] /\ lockers \in [Managers -> SUBSET Calls]
         /\ call \in [Calls -> CallStates] /\ closer \in [Closers -> CloseStates]
         /\ tools \in Managers \cup {None} /\ current \in Managers /\ reload \in ReloadStates
BY DEF Types, TypeOK, CallStates, CloseStates, ReloadStates

\* The steps of calls leave all else alone.
LEMMA CallsApart ==
  ASSUME Control, UNCHANGED <<closed, servers, loop, closer>> PROVE Control'
BY DEF Control, Reloading, ClosedOnes, Superseded, Handled, loop

LEMMA Numbers == ASSUME McpAssumption PROVE Managers \subseteq Nat /\ 0 \in Managers /\ MaxReloads \in Nat
BY DEF McpAssumption, Managers

\* The calls of a manager are counted.
LEMMA Counted ==
  ASSUME McpAssumption, NEW S \in SUBSET Calls
  PROVE  /\ IsFiniteSet(S) /\ Cardinality(S) \in 0 .. Cardinality(Calls)
         /\ \A c \in Calls \ S : Cardinality(S \cup {c}) = Cardinality(S) + 1
         /\ \A c \in S : Cardinality(S \ {c}) = Cardinality(S) - 1
<1>1. IsFiniteSet(Calls) /\ IsFiniteSet(S) /\ Cardinality(S) <= Cardinality(Calls)
  BY FS_Subset DEF McpAssumption
<1>2. Cardinality(S) \in Nat /\ Cardinality(Calls) \in Nat
  BY <1>1, FS_CardinalityType
<1> QED BY <1>1, <1>2, FS_AddElement, FS_RemoveElement

\* One call changes, in pc and manager as told.
LEMMA CallChanges ==
  ASSUME McpAssumption, Types, NEW c \in Calls, NEW r \in CallStates,
         r.pc # "idle" => r.mgr \in Managers,
         call' = [call EXCEPT ![c] = r],
         \A m \in Managers : wg'[m] = Cardinality(Sent(m)'),
         wg' \in [Managers -> Int], lockers' \in [Managers -> SUBSET Calls],
         UNCHANGED <<closed, servers, loop, closer>>
  PROVE  Types'
<1>1. call' \in [Calls -> CallStates] /\ \A d \in Calls : call'[d].pc # "idle" => call'[d].mgr \in Managers
  <2>1. call \in [Calls -> CallStates] /\ \A d \in Calls : call[d].pc # "idle" => call[d].mgr \in Managers
    BY Typed DEF Types
  <2> HIDE DEF CallStates
  <2>2. call' \in [Calls -> CallStates] /\ \A d \in Calls : call'[d] = IF d = c THEN r ELSE call[d]
    BY <2>1
  <2> QED BY <2>1, <2>2
<1>2. \A m \in Managers : Sent(m)' \in SUBSET Calls
  BY DEF Sent
<1>3. \A m \in Managers : wg'[m] \in 0 .. Cardinality(Calls)
  <2>1. \A S \in SUBSET Calls : Cardinality(S) \in 0 .. Cardinality(Calls)
    BY Counted
  <2> QED BY <1>2, <2>1
<1>4. wg' \in [Managers -> 0 .. Cardinality(Calls)]
  BY <1>3
<1>5. TypeOK'
  BY <1>1, <1>4, Typed DEF TypeOK, CallStates, CloseStates, ReloadStates, loop
<1>6. \A a \in Closers : closer'[a].pc # "idle" => closer'[a].mgr \in Managers
  BY DEF Types
<1> QED BY <1>1, <1>5, <1>6 DEF Types

\* A step of a call that is not counted, before and after it.
LEMMA NotCounted ==
  ASSUME McpAssumption, Types, NEW c \in Calls, NEW r \in CallStates,
         call' = [call EXCEPT ![c] = r], call[c].pc # "sent", r.pc # "sent", UNCHANGED wg
  PROVE  wg' \in [Managers -> Int] /\ \A m \in Managers : wg'[m] = Cardinality(Sent(m)')
<1>1. call \in [Calls -> CallStates]
  BY Typed
<1> HIDE DEF CallStates
<1>2. \A d \in Calls : call'[d] = IF d = c THEN r ELSE call[d]
  BY <1>1
<1>3. \A m \in Managers : Sent(m)' = Sent(m)
  BY <1>2 DEF Sent
<1>4. wg \in [Managers -> Int]
  BY Typed
<1> QED BY <1>3, <1>4 DEF Types

LEMMA NoCallState == NoCall \in CallStates /\ NoCall.pc = "idle"
BY DEF NoCall, CallStates

LEMMA TakeToolTypes == ASSUME McpAssumption, Inv, NEW c \in Calls, NEW s \in Servers, TakeTool(c, s) PROVE Inv'
<1>1. PICK r : r = [pc |-> "taken", mgr |-> tools, server |-> s]
  OBVIOUS
<1>2. tools \in Managers /\ Types /\ Control
  BY Typed DEF TakeTool, Inv
<1>3. r \in CallStates /\ r.mgr \in Managers /\ r.pc = "taken"
  BY <1>1, <1>2 DEF CallStates
<1>4. /\ call' = [call EXCEPT ![c] = r] /\ call[c].pc # "sent"
      /\ UNCHANGED <<closed, servers, wg, lockers, loop, closer>>
  BY <1>1 DEF TakeTool, mgr
<1>5. wg' \in [Managers -> Int] /\ \A m \in Managers : wg'[m] = Cardinality(Sent(m)')
  BY <1>2, <1>3, <1>4, NotCounted
<1>6. lockers' \in [Managers -> SUBSET Calls]
  BY <1>2, <1>4, Typed
<1>7. Types'
  BY <1>2, <1>3, <1>4, <1>5, <1>6, CallChanges
<1> QED BY <1>2, <1>4, <1>7, CallsApart DEF Inv

LEMMA CallCheckTypes == ASSUME McpAssumption, Inv, NEW c \in Calls, CallCheck(c) PROVE Inv'
<1>1. PICK q \in CallStates : q = call[c] /\ q.pc = "taken" /\ q.mgr \in Managers
  BY Typed DEF CallCheck, Inv, Types
<1>2. PICK r : r = IF closed[q.mgr] THEN NoCall ELSE [q EXCEPT !.pc = "checked"]
  OBVIOUS
<1>3. r \in CallStates /\ (r.pc # "idle" => r.mgr \in Managers) /\ r.pc # "sent"
  BY <1>1, <1>2, NoCallState DEF CallStates
<1>4. Types /\ Control
  BY DEF Inv
<1>5. /\ call' = [call EXCEPT ![c] = r] /\ call[c].pc # "sent"
      /\ UNCHANGED <<closed, servers, wg, loop, closer>>
  BY <1>1, <1>2 DEF CallCheck
<1>6. lockers' \in [Managers -> SUBSET Calls]
  BY <1>4, Typed DEF CallCheck
<1>7. wg' \in [Managers -> Int] /\ \A m \in Managers : wg'[m] = Cardinality(Sent(m)')
  BY <1>3, <1>4, <1>5, NotCounted
<1>8. Types'
  BY <1>3, <1>4, <1>5, <1>6, <1>7, CallChanges
<1> QED BY <1>4, <1>5, <1>8, CallsApart DEF Inv

LEMMA CallAddTypes == ASSUME McpAssumption, Inv, NEW c \in Calls, CallAdd(c) PROVE Inv'
<1>1. PICK q \in CallStates : q = call[c] /\ q.pc = "checked" /\ q.mgr \in Managers
  BY Typed DEF CallAdd, Inv, Types
<1>2. PICK r : r = [q EXCEPT !.pc = "sent"]
  OBVIOUS
<1>3. r \in CallStates /\ r.mgr = q.mgr /\ r.mgr \in Managers /\ r.pc = "sent"
  BY <1>1, <1>2 DEF CallStates
<1>4. Types /\ Control
  BY DEF Inv
<1>5. /\ call' = [call EXCEPT ![c] = r] /\ wg' = [wg EXCEPT ![q.mgr] = @ + 1]
      /\ UNCHANGED <<closed, servers, loop, closer>>
  BY <1>1, <1>2 DEF CallAdd
<1>6. lockers' \in [Managers -> SUBSET Calls]
  BY <1>4, Typed DEF CallAdd
<1>7. wg' \in [Managers -> Int] /\ \A m \in Managers : wg'[m] = Cardinality(Sent(m)')
  <2>1. wg \in [Managers -> Int] /\ call \in [Calls -> CallStates]
    BY <1>4, Typed
  <2> HIDE DEF CallStates
  <2>2. \A d \in Calls : call'[d] = IF d = c THEN r ELSE call[d]
    BY <1>5, <2>1
  <2>3. \A m \in Managers : Sent(m)' = IF m = q.mgr THEN Sent(m) \cup {c} ELSE Sent(m)
    BY <1>1, <1>3, <2>2 DEF Sent
  <2>4. \A m \in Managers : Sent(m) \in SUBSET Calls /\ wg[m] = Cardinality(Sent(m))
    BY <1>4 DEF Sent, Types
  <2>5. c \in Calls \ Sent(q.mgr)
    BY <1>1 DEF Sent
  <2>6. Cardinality(Sent(q.mgr) \cup {c}) = Cardinality(Sent(q.mgr)) + 1
    BY <1>1, <2>4, <2>5, Counted
  <2>7. wg' \in [Managers -> Int] /\ \A m \in Managers : wg'[m] = IF m = q.mgr THEN wg[m] + 1 ELSE wg[m]
    BY <1>1, <1>5, <2>1
  <2> QED BY <1>1, <2>3, <2>4, <2>6, <2>7
<1>8. Types'
  BY <1>3, <1>4, <1>5, <1>6, <1>7, CallChanges
<1> QED BY <1>4, <1>5, <1>8, CallsApart DEF Inv

LEMMA CallReturnsTypes == ASSUME McpAssumption, Inv, NEW c \in Calls, CallReturns(c) PROVE Inv'
<1>1. PICK q \in CallStates : q = call[c] /\ q.pc = "sent" /\ q.mgr \in Managers
  BY Typed DEF CallReturns, Inv, Types
<1>4. Types /\ Control
  BY DEF Inv
<1>5. /\ call' = [call EXCEPT ![c] = NoCall] /\ wg' = [wg EXCEPT ![q.mgr] = @ - 1]
      /\ UNCHANGED <<closed, servers, lockers, loop, closer>>
  BY <1>1 DEF CallReturns
<1>6. lockers' \in [Managers -> SUBSET Calls]
  BY <1>4, <1>5, Typed
<1>7. wg' \in [Managers -> Int] /\ \A m \in Managers : wg'[m] = Cardinality(Sent(m)')
  <2>1. wg \in [Managers -> Int] /\ call \in [Calls -> CallStates]
    BY <1>4, Typed
  <2> HIDE DEF CallStates
  <2>2. \A d \in Calls : call'[d] = IF d = c THEN NoCall ELSE call[d]
    BY <1>5, <2>1
  <2>3. \A m \in Managers : Sent(m)' = IF m = q.mgr THEN Sent(m) \ {c} ELSE Sent(m)
    BY <1>1, <2>2, NoCallState DEF Sent
  <2>4. \A m \in Managers : Sent(m) \in SUBSET Calls /\ wg[m] = Cardinality(Sent(m))
    BY <1>4 DEF Sent, Types
  <2>5. c \in Sent(q.mgr)
    BY <1>1 DEF Sent
  <2>6. Cardinality(Sent(q.mgr) \ {c}) = Cardinality(Sent(q.mgr)) - 1
    BY <1>1, <2>4, <2>5, Counted
  <2>7. wg' \in [Managers -> Int] /\ \A m \in Managers : wg'[m] = IF m = q.mgr THEN wg[m] - 1 ELSE wg[m]
    BY <1>1, <1>5, <2>1
  <2> QED BY <1>1, <2>3, <2>4, <2>6, <2>7
<1>8. Types'
  BY <1>4, <1>5, <1>6, <1>7, CallChanges, NoCallState
<1> QED BY <1>4, <1>5, <1>8, CallsApart DEF Inv

-----------------------------------------------------------------------------
(* Close, the reload and the stop.                                          *)

\* The steps that no call takes part in.
LEMMA ControlTypes ==
  ASSUME McpAssumption, Types, UNCHANGED <<wg, lockers, call>>,
         closed' \in [Managers -> BOOLEAN], servers' \in [Managers -> SUBSET Servers],
         closer' \in [Closers -> CloseStates], tools' \in Managers \cup {None},
         current' \in Managers, reload' \in ReloadStates,
         \A a \in Closers : closer'[a].pc # "idle" => closer'[a].mgr \in Managers
  PROVE  Types'
<1>1. TypeOK'
  BY Typed DEF TypeOK, CallStates, CloseStates, ReloadStates
<1>2. \A m \in Managers : Sent(m)' = Sent(m)
  BY DEF Sent
<1> QED BY <1>1, <1>2 DEF Types

\* One Close changes.
LEMMA CloserChanges ==
  ASSUME Types, NEW a \in Closers, NEW r \in CloseStates, closer' = [closer EXCEPT ![a] = r],
         r.pc # "idle" => r.mgr \in Managers
  PROVE  /\ closer' \in [Closers -> CloseStates]
         /\ \A b \in Closers : closer'[b] = IF b = a THEN r ELSE closer[b]
         /\ \A b \in Closers : closer'[b].pc # "idle" => closer'[b].mgr \in Managers
<1>1. closer \in [Closers -> CloseStates]
  BY Typed
<1> HIDE DEF CloseStates
<1>2. closer' \in [Closers -> CloseStates] /\ \A b \in Closers : closer'[b] = IF b = a THEN r ELSE closer[b]
  BY <1>1
<1> QED BY <1>2 DEF Types

LEMMA CloseSwapKeeps == ASSUME McpAssumption, Inv, NEW a \in Closers, CloseSwap(a) PROVE Inv'
<1>1. PICK q \in CloseStates : q = closer[a] /\ q.pc = "swap" /\ q.mgr \in Managers
  BY Typed DEF CloseSwap, Inv, Types
<1>2. PICK r : r = [q EXCEPT !.pc = IF closed[q.mgr] THEN "done" ELSE "wait"]
  OBVIOUS
<1>3. r \in CloseStates /\ r.mgr = q.mgr /\ r.pc = IF closed[q.mgr] THEN "done" ELSE "wait"
  BY <1>1, <1>2 DEF CloseStates
<1>4. closer' = [closer EXCEPT ![a] = r] /\ closed' = [closed EXCEPT ![q.mgr] = TRUE]
      /\ UNCHANGED <<servers, wg, lockers, call, tools, current, reload>>
  BY <1>1, <1>2 DEF CloseSwap, loop
<1>5. Types /\ Control
  BY DEF Inv
<1>6. /\ closer' \in [Closers -> CloseStates]
      /\ \A b \in Closers : closer'[b] = IF b = a THEN r ELSE closer[b]
      /\ \A b \in Closers : closer'[b].pc # "idle" => closer'[b].mgr \in Managers
  BY <1>1, <1>3, <1>4, <1>5, CloserChanges
<1>7. closed' \in [Managers -> BOOLEAN] /\ \A m \in Managers : closed'[m] <=> m = q.mgr \/ closed[m]
  BY <1>1, <1>4, <1>5, Typed
<1>8. Types'
  BY <1>4, <1>5, <1>6, <1>7, Typed, ControlTypes
<1>9. "reload" \in Closers /\ Managers \subseteq Nat /\ current \in Managers
  BY <1>5, Typed, Numbers DEF Closers
<1>10. Reloading'
  BY <1>1, <1>3, <1>4, <1>5, <1>6, <1>9 DEF Control, Reloading
<1>11. ClosedOnes'
  BY <1>1, <1>3, <1>4, <1>5, <1>6, <1>7, <1>9 DEF Control, ClosedOnes
<1>12. Superseded'
  BY <1>1, <1>3, <1>4, <1>5, <1>6, <1>7, <1>9 DEF Control, Superseded
<1>13. Handled'
  BY <1>1, <1>3, <1>4, <1>5, <1>6, <1>7, <1>9 DEF Control, Handled
<1> QED BY <1>8, <1>10, <1>11, <1>12, <1>13 DEF Inv, Control

LEMMA CloseWaitKeeps == ASSUME McpAssumption, Inv, NEW a \in Closers, CloseWait(a) PROVE Inv'
<1>1. PICK q \in CloseStates : q = closer[a] /\ q.pc = "wait" /\ q.mgr \in Managers
  BY Typed DEF CloseWait, Inv, Types
<1>2. PICK r : r = [q EXCEPT !.pc = "lock"]
  OBVIOUS
<1>3. r \in CloseStates /\ r.mgr = q.mgr /\ r.pc = "lock"
  BY <1>1, <1>2 DEF CloseStates
<1>4. closer' = [closer EXCEPT ![a] = r]
      /\ UNCHANGED <<closed, servers, wg, lockers, call, tools, current, reload>>
  BY <1>1, <1>2 DEF CloseWait, loop, mgr
<1>5. Types /\ Control
  BY DEF Inv
<1>6. /\ closer' \in [Closers -> CloseStates]
      /\ \A b \in Closers : closer'[b] = IF b = a THEN r ELSE closer[b]
      /\ \A b \in Closers : closer'[b].pc # "idle" => closer'[b].mgr \in Managers
  BY <1>1, <1>3, <1>4, <1>5, CloserChanges
<1>8. Types'
  BY <1>4, <1>5, <1>6, Typed, ControlTypes
<1>9. "reload" \in Closers
  BY DEF Closers
<1>10. Reloading'
  BY <1>1, <1>3, <1>4, <1>5, <1>6, <1>9 DEF Control, Reloading
<1>11. ClosedOnes'
  BY <1>1, <1>3, <1>4, <1>5, <1>6, <1>9 DEF Control, ClosedOnes
<1>12. Superseded'
  BY <1>1, <1>3, <1>4, <1>5, <1>6, <1>9 DEF Control, Superseded
<1>13. Handled'
  BY <1>1, <1>3, <1>4, <1>5, <1>6, <1>9 DEF Control, Handled
<1> QED BY <1>8, <1>10, <1>11, <1>12, <1>13 DEF Inv, Control

LEMMA CloseSessionsKeeps == ASSUME McpAssumption, Inv, NEW a \in Closers, CloseSessions(a) PROVE Inv'
<1>1. PICK q \in CloseStates : q = closer[a] /\ q.pc = "lock" /\ q.mgr \in Managers
  BY Typed DEF CloseSessions, Inv, Types
<1>2. PICK r : r = [q EXCEPT !.pc = "done"]
  OBVIOUS
<1>3. r \in CloseStates /\ r.mgr = q.mgr /\ r.pc = "done"
  BY <1>1, <1>2 DEF CloseStates
<1>4. closer' = [closer EXCEPT ![a] = r] /\ servers' = [servers EXCEPT ![q.mgr] = {}]
      /\ UNCHANGED <<closed, wg, lockers, call, tools, current, reload>>
  BY <1>1, <1>2 DEF CloseSessions, loop
<1>5. Types /\ Control
  BY DEF Inv
<1>6. /\ closer' \in [Closers -> CloseStates]
      /\ \A b \in Closers : closer'[b] = IF b = a THEN r ELSE closer[b]
      /\ \A b \in Closers : closer'[b].pc # "idle" => closer'[b].mgr \in Managers
  BY <1>1, <1>3, <1>4, <1>5, CloserChanges
<1>7. servers' \in [Managers -> SUBSET Servers]
      /\ \A m \in Managers : servers'[m] = IF m = q.mgr THEN {} ELSE servers[m]
  BY <1>1, <1>4, <1>5, Typed
<1>8. Types'
  BY <1>4, <1>5, <1>6, <1>7, Typed, ControlTypes
<1>9. "reload" \in Closers
  BY DEF Closers
<1>10. Reloading'
  BY <1>1, <1>3, <1>4, <1>5, <1>6, <1>9 DEF Control, Reloading
<1>11. ClosedOnes'
  BY <1>1, <1>3, <1>4, <1>5, <1>6, <1>9 DEF Control, ClosedOnes
<1>12. Superseded'
  BY <1>1, <1>3, <1>4, <1>5, <1>6, <1>7, <1>9 DEF Control, Superseded
<1>13. Handled'
  BY <1>1, <1>3, <1>4, <1>5, <1>6, <1>7, <1>9 DEF Control, Handled
<1> QED BY <1>8, <1>10, <1>11, <1>12, <1>13 DEF Inv, Control

LEMMA ReloadBeginKeeps == ASSUME McpAssumption, Inv, ReloadBegin PROVE Inv'
<1>1. PICK r : r = [pc |-> "load", old |-> current, new |-> current + 1]
  OBVIOUS
<1>2. Types /\ Control
  BY DEF Inv
<1>3. current \in Managers /\ current + 1 \in Managers /\ Managers \subseteq Nat /\ "reload" \in Closers
  BY <1>2, Typed, Numbers DEF ReloadBegin, Managers, Closers
<1>4. r \in ReloadStates /\ r.pc = "load" /\ r.old = current /\ r.new = current + 1
  BY <1>1, <1>3 DEF ReloadStates
<1>5. /\ reload' = r /\ tools' = None /\ reload.pc = "idle"
      /\ UNCHANGED <<closed, servers, wg, lockers, call, closer, current>>
  BY <1>1 DEF ReloadBegin, mgr
<1>8. Types'
  BY <1>2, <1>4, <1>5, Typed, ControlTypes DEF Types
<1>20. Reloading'
  BY <1>2, <1>3, <1>4, <1>5 DEF Control, Reloading
<1>21. ClosedOnes'
  BY <1>2, <1>3, <1>4, <1>5 DEF Control, ClosedOnes
<1>22. Superseded'
  BY <1>2, <1>3, <1>4, <1>5 DEF Control, Superseded
<1>23. Handled'
  BY <1>2, <1>3, <1>4, <1>5 DEF Control, Handled
<1> QED BY <1>8, <1>20, <1>21, <1>22, <1>23 DEF Inv, Control

LEMMA ReloadState ==
  ASSUME McpAssumption, Inv, reload.pc # "idle", NEW p \in {"load", "register", "replace", "close"}
  PROVE  \E r \in ReloadStates :
           /\ r = [reload EXCEPT !.pc = p] /\ r.pc = p
           /\ r.old = reload.old /\ r.new = reload.new
<1>1. reload \in ReloadStates
  BY Typed DEF Inv
<1>2. [reload EXCEPT !.pc = p] \in ReloadStates
  BY <1>1 DEF ReloadStates
<1>3. /\ [reload EXCEPT !.pc = p].pc = p
      /\ [reload EXCEPT !.pc = p].old = reload.old /\ [reload EXCEPT !.pc = p].new = reload.new
  BY <1>1 DEF ReloadStates
<1> QED BY <1>2, <1>3

LEMMA ReloadLoadKeeps == ASSUME McpAssumption, Inv, NEW S \in SUBSET Servers, ReloadLoad(S) PROVE Inv'
<1>1. PICK r \in ReloadStates : r = [reload EXCEPT !.pc = "register"] /\ r.pc = "register"
                                /\ r.old = reload.old /\ r.new = reload.new
  BY ReloadState DEF ReloadLoad
<1>2. Types /\ Control
  BY DEF Inv
<1>3. /\ reload' = r /\ servers' = [servers EXCEPT ![reload.new] = S] /\ reload.pc = "load"
      /\ UNCHANGED <<closed, wg, lockers, call, closer, tools, current>>
  BY <1>1 DEF ReloadLoad
<1>4. reload.new \in Managers /\ reload.new = reload.old + 1 /\ reload.old = current
  BY <1>2, <1>3 DEF Control, Reloading
<1>5. servers' \in [Managers -> SUBSET Servers]
      /\ \A m \in Managers : servers'[m] = IF m = reload.new THEN S ELSE servers[m]
  BY <1>2, <1>3, <1>4, Typed
<1>6. current \in Nat /\ Managers \subseteq Nat /\ ~closed[reload.new] /\ "reload" \in Closers
  <2>1. current \in Nat /\ Managers \subseteq Nat /\ "reload" \in Closers
    BY <1>2, Typed, Numbers DEF Closers
  <2> QED BY <1>2, <1>4, <2>1 DEF Control, ClosedOnes
<1>8. Types'
  BY <1>1, <1>2, <1>3, <1>5, Typed, ControlTypes DEF Types
<1>20. Reloading'
  BY <1>1, <1>2, <1>3, <1>4, <1>5, <1>6 DEF Control, Reloading
<1>21. ClosedOnes'
  BY <1>1, <1>2, <1>3, <1>4, <1>5, <1>6 DEF Control, ClosedOnes
<1>22. Superseded'
  BY <1>1, <1>2, <1>3, <1>4, <1>5, <1>6 DEF Control, Superseded
<1>23. Handled'
  BY <1>1, <1>2, <1>3, <1>4, <1>5, <1>6 DEF Control, Handled
<1> QED BY <1>8, <1>20, <1>21, <1>22, <1>23 DEF Inv, Control

LEMMA ReloadRegisterKeeps == ASSUME McpAssumption, Inv, ReloadRegister PROVE Inv'
<1>1. PICK r \in ReloadStates : r = [reload EXCEPT !.pc = "replace"] /\ r.pc = "replace"
                                /\ r.old = reload.old /\ r.new = reload.new
  BY ReloadState DEF ReloadRegister
<1>2. Types /\ Control
  BY DEF Inv
<1>3. /\ reload' = r /\ tools' \in {None, reload.new} /\ reload.pc = "register"
      /\ UNCHANGED <<closed, servers, wg, lockers, call, closer, current>>
  BY <1>1 DEF ReloadRegister, mgr
<1>4. reload.new \in Managers /\ reload.new = reload.old + 1 /\ reload.old = current
  BY <1>2, <1>3 DEF Control, Reloading
<1>8. Types'
  BY <1>1, <1>2, <1>3, <1>4, Typed, ControlTypes DEF Types
<1>20. Reloading'
  BY <1>1, <1>2, <1>3, <1>4 DEF Control, Reloading
<1>21. ClosedOnes'
  BY <1>1, <1>2, <1>3, <1>4 DEF Control, ClosedOnes
<1>22. Superseded'
  BY <1>1, <1>2, <1>3, <1>4 DEF Control, Superseded
<1>23. Handled'
  BY <1>1, <1>2, <1>3, <1>4 DEF Control, Handled
<1> QED BY <1>8, <1>20, <1>21, <1>22, <1>23 DEF Inv, Control

\* The old manager is given to Close, and the new one is or will be current.
LEMMA Handover ==
  ASSUME McpAssumption, Inv, reload.pc \in {"load", "replace"},
         reload' = [reload EXCEPT !.pc = "close"], Closing("reload", reload.old),
         current' \in {reload.old, reload.new}, reload.pc = "replace" => current' = reload.new,
         UNCHANGED <<closed, servers, wg, lockers, call, tools>>
  PROVE  Inv'
<1>1. PICK r \in ReloadStates : r = [reload EXCEPT !.pc = "close"] /\ r.pc = "close"
                                /\ r.old = reload.old /\ r.new = reload.new
  BY ReloadState
<1>2. Types /\ Control
  BY DEF Inv
<1>3. /\ reload.new \in Managers /\ reload.new = reload.old + 1 /\ reload.old = current
      /\ Managers \subseteq Nat /\ "reload" \in Closers /\ closer["reload"].pc = "idle"
      /\ tools \in {None, reload.new} /\ current \in Managers
  BY <1>2, Typed, Numbers DEF Control, Reloading, Closers
<1>4. PICK x : x = [pc |-> "swap", mgr |-> reload.old]
  OBVIOUS
<1>5. x \in CloseStates /\ x.pc = "swap" /\ x.mgr = reload.old /\ x.mgr \in Managers
  BY <1>2, <1>3, <1>4, Typed DEF CloseStates
<1>6. /\ closer' \in [Closers -> CloseStates]
      /\ \A b \in Closers : closer'[b] = IF b = "reload" THEN x ELSE closer[b]
      /\ \A b \in Closers : closer'[b].pc # "idle" => closer'[b].mgr \in Managers
  <2>1. closer' = [closer EXCEPT !["reload"] = x]
    BY <1>4 DEF Closing
  <2> QED BY <1>2, <1>3, <1>5, <2>1, CloserChanges
<1>7. reload' = r /\ current' \in Managers /\ current <= current'
  BY <1>1, <1>2, <1>3, Typed
<1>8. Types'
  BY <1>1, <1>2, <1>3, <1>6, <1>7, Typed, ControlTypes
<1>20. Reloading'
  BY <1>1, <1>2, <1>3, <1>5, <1>6, <1>7 DEF Control, Reloading
<1>21. ClosedOnes'
  <2>1. \A m \in Managers : closed[m] => m <= current'
    BY <1>2, <1>3, <1>7 DEF Control, ClosedOnes
  <2>2. \A a \in Closers : closer'[a].pc # "idle" => closer'[a].mgr <= current'
    <3>1. \A a \in Closers : closer[a].pc # "idle" => closer[a].mgr <= current /\ closer[a].mgr \in Managers
      BY <1>2 DEF Control, ClosedOnes, Types
    <3> QED BY <1>3, <1>5, <1>6, <1>7, <3>1
  <2>3. \A a \in Closers : closer'[a].pc \in {"wait", "lock", "done"} => closed[closer'[a].mgr]
    BY <1>2, <1>5, <1>6 DEF Control, ClosedOnes
  <2> QED BY <2>1, <2>2, <2>3 DEF ClosedOnes
<1>22. Superseded'
  BY <1>1, <1>2, <1>3, <1>5, <1>6, <1>7 DEF Control, Superseded
<1>23. Handled'
  BY <1>2, <1>3, <1>5, <1>6 DEF Control, Handled
<1> QED BY <1>8, <1>20, <1>21, <1>22, <1>23 DEF Inv, Control

LEMMA ReloadDisabledKeeps == ASSUME McpAssumption, Inv, ReloadDisabled PROVE Inv'
<1>1. reload.old = current
  BY DEF ReloadDisabled, Inv, Control, Reloading
<1> QED BY <1>1, Handover DEF ReloadDisabled, mgr

LEMMA ReloadReplaceKeeps == ASSUME McpAssumption, Inv, ReloadReplace PROVE Inv'
BY Handover DEF ReloadReplace, mgr

LEMMA ReloadEndKeeps == ASSUME McpAssumption, Inv, ReloadEnd PROVE Inv'
<1>2. Types /\ Control
  BY DEF Inv
<1>3. /\ reload.new \in Managers /\ reload.new = reload.old + 1 /\ reload.old \in Managers
      /\ Managers \subseteq Nat /\ "reload" \in Closers /\ current \in {reload.old, reload.new}
      /\ tools \in {None, reload.new} /\ closer["reload"].mgr = reload.old
      /\ reload.pc = "close" /\ closer["reload"].pc = "done" /\ closed[reload.old]
  BY <1>2, Numbers DEF Control, Reloading, ClosedOnes, Closers, ReloadEnd
<1>5. NoClose \in CloseStates /\ NoClose.pc = "idle" /\ Idle \in ReloadStates /\ Idle.pc = "idle"
  BY DEF NoClose, CloseStates, Idle, ReloadStates
<1>6. /\ closer' \in [Closers -> CloseStates]
      /\ \A b \in Closers : closer'[b] = IF b = "reload" THEN NoClose ELSE closer[b]
      /\ \A b \in Closers : closer'[b].pc # "idle" => closer'[b].mgr \in Managers
  <2>1. closer' = [closer EXCEPT !["reload"] = NoClose]
    BY DEF ReloadEnd
  <2> QED BY <1>2, <1>3, <1>5, <2>1, CloserChanges
<1>7. /\ reload' = Idle /\ current' = reload.new /\ current <= current'
      /\ UNCHANGED <<closed, servers, wg, lockers, call, tools>>
  <2>1. /\ reload' = Idle /\ current' = reload.new
        /\ UNCHANGED <<closed, servers, wg, lockers, call, tools>>
    BY DEF ReloadEnd, mgr
  <2>2. current <= reload.new
    <3>1. PICK o, n \in Nat : o = reload.old /\ n = reload.new
      BY <1>3
    <3>2. n = o + 1 /\ current \in {o, n}
      BY <1>3, <3>1
    <3> QED BY <3>1, <3>2
  <2> QED BY <2>1, <2>2
<1>8. Types'
  BY <1>2, <1>3, <1>5, <1>6, <1>7, Typed, ControlTypes
<1>20. Reloading'
  BY <1>3, <1>5, <1>6, <1>7 DEF Reloading
<1>9. current \in Nat /\ current' \in Nat
  BY <1>3, <1>7
<1>21. ClosedOnes'
  <2>1. \A m \in Managers : closed[m] => m <= current'
    <3>1. \A m \in Managers : closed[m] => m <= current
      BY <1>2 DEF Control, ClosedOnes
    <3> QED BY <1>3, <1>7, <1>9, <3>1
  <2>2. \A a \in Closers : closer'[a].pc # "idle" => closer'[a].mgr <= current'
    <3>1. \A a \in Closers : closer[a].pc # "idle" => closer[a].mgr <= current /\ closer[a].mgr \in Managers
      BY <1>2 DEF Control, ClosedOnes, Types
    <3>2. \A a \in Closers : closer'[a].pc # "idle" => closer'[a] = closer[a]
      BY <1>5, <1>6
    <3>3. ASSUME NEW a \in Closers, closer'[a].pc # "idle" PROVE closer'[a].mgr <= current'
      <4>1. PICK m, i, j \in Nat : m = closer[a].mgr /\ i = current /\ j = current'
        BY <1>3, <1>9, <3>1, <3>2, <3>3
      <4>2. m <= i /\ i <= j /\ closer'[a] = closer[a]
        BY <1>7, <3>1, <3>2, <3>3, <4>1
      <4> QED BY <4>1, <4>2
    <3> QED BY <3>3
  <2>3. \A a \in Closers : closer'[a].pc \in {"wait", "lock", "done"} => closed[closer'[a].mgr]
    BY <1>2, <1>5, <1>6 DEF Control, ClosedOnes
  <2> QED BY <1>7, <2>1, <2>2, <2>3 DEF ClosedOnes
<1>22. Superseded'
  <2> SUFFICES ASSUME NEW m \in Managers, servers[m] # {} PROVE m = reload.new \/ (m < reload.new /\ closed[m])
    BY <1>7 DEF Superseded
  <2>1. CASE m = current
    <3>1. PICK o, n \in Nat : o = reload.old /\ n = reload.new
      BY <1>3
    <3> QED BY <1>3, <2>1, <3>1
  <2>2. CASE m < current /\ closed[m]
    <3>1. PICK n \in Nat : n = reload.new
      BY <1>3
    <3>2. current <= n /\ m \in Nat
      BY <1>3, <1>7, <3>1
    <3> QED BY <1>9, <2>2, <3>1, <3>2
  <2> QED BY <1>2, <1>3, <2>1, <2>2 DEF Control, Superseded
<1>23. Handled'
  <2> SUFFICES ASSUME NEW m \in Managers, servers[m] # {}, closed[m]
               PROVE  \E a \in Closers : closer'[a].pc \in {"wait", "lock"} /\ closer'[a].mgr = m
    BY <1>7 DEF Handled
  <2>1. PICK a \in Closers : closer[a].pc \in {"wait", "lock"} /\ closer[a].mgr = m
    BY <1>2 DEF Control, Handled
  <2>2. closer'[a] = closer[a]
    BY <1>3, <1>6, <2>1
  <2> QED BY <2>1, <2>2
<1> QED BY <1>8, <1>20, <1>21, <1>22, <1>23 DEF Inv, Control

LEMMA StopKeeps == ASSUME McpAssumption, Inv, Stop PROVE Inv'
<1>2. Types /\ Control
  BY DEF Inv
<1>3. /\ current \in Managers /\ Managers \subseteq Nat /\ "reload" \in Closers /\ "run" \in Closers
      /\ closer["run"].pc = "idle"
  BY <1>2, Typed, Numbers DEF Closers, Stop
<1>4. PICK x : x = [pc |-> "swap", mgr |-> current]
  OBVIOUS
<1>5. x \in CloseStates /\ x.pc = "swap" /\ x.mgr = current
  BY <1>3, <1>4 DEF CloseStates
<1>6. /\ closer' \in [Closers -> CloseStates]
      /\ \A b \in Closers : closer'[b] = IF b = "run" THEN x ELSE closer[b]
      /\ \A b \in Closers : closer'[b].pc # "idle" => closer'[b].mgr \in Managers
  <2>1. closer' = [closer EXCEPT !["run"] = x]
    BY <1>4 DEF Stop, Closing
  <2> QED BY <1>2, <1>3, <1>5, <2>1, CloserChanges
<1>7. UNCHANGED <<closed, servers, wg, lockers, call, tools, current, reload>>
  BY DEF Stop, mgr
<1>8. Types'
  BY <1>2, <1>6, <1>7, Typed, ControlTypes
<1>20. Reloading'
  BY <1>2, <1>3, <1>5, <1>6, <1>7 DEF Control, Reloading
<1>21. ClosedOnes'
  BY <1>2, <1>3, <1>5, <1>6, <1>7 DEF Control, ClosedOnes
<1>22. Superseded'
  BY <1>2, <1>3, <1>5, <1>6, <1>7 DEF Control, Superseded
<1>23. Handled'
  <2> SUFFICES ASSUME NEW m \in Managers, servers[m] # {}, closed[m]
               PROVE  \E a \in Closers : closer'[a].pc \in {"wait", "lock"} /\ closer'[a].mgr = m
    BY <1>7 DEF Handled
  <2>1. PICK a \in Closers : closer[a].pc \in {"wait", "lock"} /\ closer[a].mgr = m
    BY <1>2 DEF Control, Handled
  <2>2. closer'[a] = closer[a]
    BY <1>3, <1>6, <2>1
  <2> QED BY <2>1, <2>2
<1> QED BY <1>8, <1>20, <1>21, <1>22, <1>23 DEF Inv, Control

-----------------------------------------------------------------------------
(* The theorems.                                                            *)

LEMMA InitInv == ASSUME McpAssumption PROVE Init => Inv
<1> SUFFICES ASSUME Init PROVE Inv
  OBVIOUS
<1>1. /\ NoCall \in CallStates /\ NoCall.pc = "idle" /\ NoClose \in CloseStates /\ NoClose.pc = "idle"
      /\ Idle \in ReloadStates /\ Idle.pc = "idle"
  BY DEF NoCall, CallStates, NoClose, CloseStates, Idle, ReloadStates
<1>2. call \in [Calls -> CallStates] /\ closer \in [Closers -> CloseStates]
  BY <1>1 DEF Init
<1>3. /\ \A c \in Calls : call[c].pc = "idle"
      /\ \A a \in Closers : closer[a].pc = "idle"
  BY <1>1 DEF Init
<1>4. \A m \in Managers : Sent(m) = {}
  BY <1>3 DEF Sent
<1>5. Cardinality({}) = 0 /\ 0 \in 0 .. Cardinality(Calls)
  <2>1. Cardinality(Calls) \in Nat
    BY FS_CardinalityType DEF McpAssumption
  <2> QED BY <2>1, FS_EmptySet
<1>6. /\ closed \in [Managers -> BOOLEAN] /\ servers \in [Managers -> SUBSET Servers]
      /\ wg \in [Managers -> 0 .. Cardinality(Calls)] /\ lockers \in [Managers -> SUBSET Calls]
      /\ \A m \in Managers : wg[m] = 0 /\ servers[m] = {} /\ ~closed[m]
  BY <1>5 DEF Init
<1>7. tools = None /\ current = 0 /\ reload = Idle /\ 0 \in Managers /\ "reload" \in Closers
  BY Numbers DEF Init, Closers
<1>8. Types
  BY <1>1, <1>2, <1>3, <1>4, <1>5, <1>6, <1>7 DEF Types, TypeOK, CallStates, CloseStates, ReloadStates
<1>9. Control
  BY <1>1, <1>3, <1>6, <1>7 DEF Control, Reloading, ClosedOnes, Superseded, Handled
<1> QED BY <1>8, <1>9 DEF Inv

LEMMA NextInv == ASSUME McpAssumption, Inv, [Next]_vars PROVE Inv'
<1>1. CASE UNCHANGED vars
  <2>1. Types'
    BY <1>1 DEF vars, Inv, Types, TypeOK, Sent
  <2>2. Control'
    BY <1>1, CallsApart DEF vars, Inv, loop
  <2> QED BY <2>1, <2>2 DEF Inv
<1>2. ASSUME NEW c \in Calls, CallStep(c) PROVE Inv'
  BY <1>2, CallCheckTypes, CallAddTypes, CallReturnsTypes DEF CallStep
<1>3. ASSUME NEW c \in Calls, NEW s \in Servers, TakeTool(c, s) PROVE Inv'
  BY <1>3, TakeToolTypes
<1>4. ASSUME NEW a \in Closers, Close(a) PROVE Inv'
  BY <1>4, CloseSwapKeeps, CloseWaitKeeps, CloseSessionsKeeps DEF Close
<1>5. CASE ReloadBegin \/ ReloadStep \/ Stop
  BY <1>5, ReloadBeginKeeps, ReloadDisabledKeeps, ReloadLoadKeeps, ReloadRegisterKeeps,
     ReloadReplaceKeeps, ReloadEndKeeps, StopKeeps DEF ReloadStep
<1> QED BY <1>1, <1>2, <1>3, <1>4, <1>5 DEF Next

\* The inductive invariant, for every set of calls and servers and every number of
\* reloads.
THEOREM Invariant == ASSUME McpAssumption PROVE Spec => []Inv
BY InitInv, NextInv, PTL DEF Spec

\* The WaitGroup of a manager counts its calls that were sent, never below zero
\* (pkg/mcp/manager.go, CallTool).
THEOREM TypeCorrect == ASSUME McpAssumption PROVE Spec => []TypeOK
<1>1. Inv => TypeOK
  BY DEF Inv, Types
<1> QED BY <1>1, Invariant, PTL

LEMMA OpenIsOne == ASSUME Inv PROVE OneManagerOpen
<1> SUFFICES ASSUME reload.pc = "idle", closer["run"].pc \in {"idle", "done"}
             PROVE  /\ \A m \in Managers \ {current} : servers[m] = {}
                    /\ tools \in {None, current}
                    /\ closer["run"].pc = "done" => servers[closer["run"].mgr] = {}
  BY DEF OneManagerOpen
<1>1. /\ "run" \in Closers /\ Types /\ Control
      /\ \A a \in Closers : closer[a].pc \notin {"wait", "lock"}
      /\ closer["reload"].pc = "idle" /\ tools \in {None, current}
  BY DEF Inv, Control, Reloading, Closers
<1>2. \A m \in Managers : servers[m] # {} => ~closed[m]
  BY <1>1 DEF Control, Handled
<1>3. \A m \in Managers \ {current} : servers[m] = {}
  BY <1>1, <1>2 DEF Control, Superseded
<1>4. ASSUME closer["run"].pc = "done" PROVE servers[closer["run"].mgr] = {}
  <2>1. closed[closer["run"].mgr] /\ closer["run"].mgr \in Managers
    BY <1>1, <1>4 DEF Control, ClosedOnes, Types
  <2> QED BY <1>2, <2>1
<1> QED BY <1>1, <1>3, <1>4

\* Between reloads only the current manager has connections open and gives tools to
\* runs, and the manager a stopped loop had has none: also when the Close of a
\* reload and that of Run meet at one manager, of which one returns at once
\* (pkg/agent/loop_mcp.go, pkg/mcp/manager.go).
THEOREM OneOpen == ASSUME McpAssumption PROVE Spec => []OneManagerOpen
BY OpenIsOne, Invariant, PTL
=============================================================================
