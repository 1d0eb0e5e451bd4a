------------------------- MODULE ProcessManager_proofs -------------------------
(***************************************************************************)
(* Proofs about ProcessManager for every number of sessions, chunks and    *)
(* pollers and every limit.  A chunk of output is given, pending or cut    *)
(* exactly when it was read (Once); a session leaves the manager only      *)
(* after its end because whatever takes it has seen that end (Kept), and   *)
(* the pruning takes as many of the oldest as are too many (Few).          *)
(***************************************************************************)
EXTENDS ProcessManager, FiniteSetTheorems, WellFoundedInduction, TLAPS

SessStates ==
  [status : {"none", "running", "completed", "failed", "killed", "timeout"},
   alive : BOOLEAN, ctx : {"live", "cancelled", "deadline"}, kill : BOOLEAN,
   watch : {"off", "wait", "mark", "prune", "done"}, written : 0 .. MaxChunks,
   read : 0 .. MaxChunks, closed : BOOLEAN, pending : SUBSET Chunks,
   cut : SUBSET Chunks, notify : BOOLEAN]
PollStates == [pc : {"idle", "drain", "wait"}, id : Ids \cup {NoId}, wait : BOOLEAN]

\* A session that was not started has no command, and the watcher follows the status.
Staged(s) ==
  /\ s.status = "none" => ~s.alive /\ s.written = 0 /\ s.watch = "off"
  /\ s.status # "none" => s.watch # "off"
  /\ s.watch \in {"wait", "mark"} => s.status = "running"
  /\ s.watch \in {"prune", "done"} => s.status # "running"
  /\ s.read <= s.written

\* A chunk that was read is in one place, one that was not in none.
Once(s, g) ==
  \A c \in Chunks :
    \/ c > s.read /\ g[c] = 0 /\ c \notin s.pending /\ c \notin s.cut
    \/ c <= s.read /\ g[c] = 1 /\ c \notin s.pending /\ c \notin s.cut
    \/ c <= s.read /\ g[c] = 0 /\ c \in s.pending /\ c \notin s.cut
    \/ c <= s.read /\ g[c] = 0 /\ c \notin s.pending /\ c \in s.cut

Types == TypeOK /\ \A p \in Pollers : poll[p].pc # "idle" => poll[p].id \in Ids
Sound == \A i \in Ids : Staged(sess[i]) /\ Once(sess[i], given[i])
\* A session that runs is registered, what is to be removed has ended, and what has
\* ended is in the order of the ends.
Kept ==
  /\ \A i \in Ids : sess[i].status = "running" => i \in reg
  /\ \A i \in removing : Terminal(i)
  /\ \A i \in Ids : Terminal(i) => \E k \in DOMAIN ended : ended[k] = i

Over(i) == Terminal(i) /\ sess[i].watch = "done"
Few == Cardinality(reg) > MaxSessions => \A i, j \in reg : Over(i) /\ Over(j) => i = j

Inv == Types /\ Sound /\ Kept /\ Few
-----------------------------------------------------------------------------
(* States and their changes.                                                *)

LEMMA Typed ==
  ASSUME Types
  PROVE  /\ sess \in [Ids -> SessStates]
         /\ reg \subseteq Ids /\ removing \subseteq Ids /\ killing \subseteq Ids
         /\ ended \in Seq(Ids)
         /\ exec \in [Ids -> {"none", "yield", "polling", "returned"}]
         /\ poll \in [Pollers -> PollStates] /\ given \in [Ids -> [Chunks -> Nat]]
         /\ \A p \in Pollers : poll[p].pc # "idle" => poll[p].id \in Ids
BY DEF Types, TypeOK, SessStates, PollStates

LEMMA TypedNext ==
  ASSUME sess' \in [Ids -> SessStates],
         reg' \subseteq Ids, removing' \subseteq Ids, killing' \subseteq Ids,
         ended' \in Seq(Ids),
         exec' \in [Ids -> {"none", "yield", "polling", "returned"}],
         poll' \in [Pollers -> PollStates], given' \in [Ids -> [Chunks -> Nat]],
         \A p \in Pollers : poll'[p].pc # "idle" => poll'[p].id \in Ids
  PROVE  Types'
BY DEF Types, TypeOK, SessStates, PollStates

LEMMA SessChanges ==
  ASSUME Types, NEW i \in Ids, NEW x \in SessStates, sess' = [sess EXCEPT ![i] = x]
  PROVE  /\ sess' \in [Ids -> SessStates] /\ sess'[i] = x
         /\ \A j \in Ids \ {i} : sess'[j] = sess[j]
<1>1. sess \in [Ids -> SessStates]
  BY Typed
<1> QED BY <1>1

LEMMA PollChanges ==
  ASSUME Types, NEW p, NEW y \in PollStates, y.pc # "idle" => y.id \in Ids,
         poll' = [poll EXCEPT ![p] = y]
  PROVE  /\ poll' \in [Pollers -> PollStates]
         /\ \A q \in Pollers : poll'[q].pc # "idle" => poll'[q].id \in Ids
<1>1. /\ poll \in [Pollers -> PollStates]
      /\ \A q \in Pollers : poll[q].pc # "idle" => poll[q].id \in Ids
  BY Typed
<1>2. poll' \in [Pollers -> PollStates] /\ \A q \in Pollers : poll'[q] = IF q = p THEN y ELSE poll[q]
  BY <1>1
<1> QED BY <1>1, <1>2

\* What Once, Kept and Few look at.
Same(x, s) ==
  /\ x.status = s.status /\ x.read = s.read /\ x.pending = s.pending /\ x.cut = s.cut
  /\ x.watch = "done" => s.watch = "done"

\* The sessions and the lists stay as far as Kept and Few see them.
LEMMA ListsStay ==
  ASSUME Inv, reg' = reg, ended' = ended, \A i \in removing' : i \in removing \/ Terminal(i),
         removing' \subseteq Ids,
         \A j \in Ids : /\ sess'[j].status = sess[j].status
                        /\ sess'[j].watch = "done" => sess[j].watch = "done"
  PROVE  Kept' /\ Few'
<1>1. \A j \in Ids : Terminal(j)' = Terminal(j)
  BY DEF Terminal
<1>2. \A j \in Ids : Over(j)' => Over(j)
  BY <1>1 DEF Over
<1>3. reg \subseteq Ids /\ removing \subseteq Ids
  BY Typed DEF Inv
<1>4. Kept'
  BY <1>1, <1>3 DEF Inv, Kept
<1>5. Few'
  BY <1>2, <1>3 DEF Inv, Few
<1> QED BY <1>4, <1>5

\* A step that changes only what no property of one session is about.
LEMMA Quiet ==
  ASSUME Inv, NEW i \in Ids, NEW x \in SessStates, sess' = [sess EXCEPT ![i] = x],
         Same(x, sess[i]), Staged(x),
         UNCHANGED <<reg, ended, removing, given>>,
         exec' \in [Ids -> {"none", "yield", "polling", "returned"}], killing' \subseteq Ids,
         poll' \in [Pollers -> PollStates],
         \A p \in Pollers : poll'[p].pc # "idle" => poll'[p].id \in Ids
  PROVE  Inv'
<1>1. /\ sess' \in [Ids -> SessStates] /\ sess'[i] = x
      /\ \A j \in Ids \ {i} : sess'[j] = sess[j]
  BY SessChanges DEF Inv
<1>2. Types'
  BY <1>1, Typed, TypedNext DEF Inv
<1>3. Sound'
  <2>1. Once(x, given[i])
    BY DEF Inv, Sound, Once, Same
  <2>2. \A j \in Ids : Staged(sess'[j]) /\ Once(sess'[j], given'[j])
    BY <1>1, <2>1 DEF Inv, Sound
  <2> QED BY <2>2 DEF Sound
<1>4. \A j \in Ids : /\ sess'[j].status = sess[j].status
                     /\ sess'[j].watch = "done" => sess[j].watch = "done"
  BY <1>1 DEF Same
<1>5. Kept' /\ Few'
  BY <1>4, ListsStay, Typed DEF Inv, Kept
<1> QED BY <1>2, <1>3, <1>5 DEF Inv

\* The same for a step of no session.
LEMMA Apart ==
  ASSUME Inv, UNCHANGED <<sess, reg, ended, given>>,
         \A i \in removing' : i \in removing \/ Terminal(i), removing' \subseteq Ids,
         exec' \in [Ids -> {"none", "yield", "polling", "returned"}], killing' \subseteq Ids,
         poll' \in [Pollers -> PollStates],
         \A p \in Pollers : poll'[p].pc # "idle" => poll'[p].id \in Ids
  PROVE  Inv'
<1>1. Types'
  BY Typed, TypedNext DEF Inv
<1>2. Sound'
  BY DEF Inv, Sound
<1>3. Kept' /\ Few'
  BY ListsStay
<1> QED BY <1>1, <1>2, <1>3 DEF Inv
-----------------------------------------------------------------------------
(* The steps.                                                               *)

LEMMA WriteKeeps == ASSUME ProcessAssumption, Inv, NEW i \in Ids, Write(i) PROVE Inv'
<1>1. sess[i] \in SessStates /\ Staged(sess[i]) /\ Types
  BY Typed DEF Inv, Sound
<1>2. PICK x : x = [sess[i] EXCEPT !.written = @ + 1]
  OBVIOUS
<1>3. x \in SessStates
  BY <1>1, <1>2 DEF SessStates, ProcessAssumption, Write
<1>4. Same(x, sess[i]) /\ Staged(x)
  BY <1>1, <1>2 DEF SessStates, Same, Staged, ProcessAssumption, Write
<1>5. sess' = [sess EXCEPT ![i] = x]
  BY <1>2 DEF Write
<1> QED BY <1>1, <1>3, <1>4, <1>5, Quiet, Typed DEF Write, Others, Calls

LEMMA EndsKeeps == ASSUME ProcessAssumption, Inv, NEW i \in Ids, Ends(i) PROVE Inv'
<1>1. sess[i] \in SessStates /\ Staged(sess[i]) /\ Types
  BY Typed DEF Inv, Sound
<1>2. PICK x : x = [sess[i] EXCEPT !.alive = FALSE]
  OBVIOUS
<1>3. x \in SessStates
  BY <1>1, <1>2 DEF SessStates, Ends
<1>4. Same(x, sess[i]) /\ Staged(x)
  BY <1>1, <1>2 DEF SessStates, Same, Staged, Ends
<1>5. sess' = [sess EXCEPT ![i] = x]
  BY <1>2 DEF Ends
<1> QED BY <1>1, <1>3, <1>4, <1>5, Quiet, Typed DEF Ends, Others, Calls

LEMMA DeadlineKeeps == ASSUME ProcessAssumption, Inv, NEW i \in Ids, Deadline(i) PROVE Inv'
<1>1. sess[i] \in SessStates /\ Staged(sess[i]) /\ Types
  BY Typed DEF Inv, Sound
<1>2. PICK x : x = [sess[i] EXCEPT !.ctx = "deadline"]
  OBVIOUS
<1>3. x \in SessStates
  BY <1>1, <1>2 DEF SessStates, Deadline
<1>4. Same(x, sess[i]) /\ Staged(x)
  BY <1>1, <1>2 DEF SessStates, Same, Staged, Deadline
<1>5. sess' = [sess EXCEPT ![i] = x]
  BY <1>2 DEF Deadline
<1> QED BY <1>1, <1>3, <1>4, <1>5, Quiet, Typed DEF Deadline, Others, Calls

LEMMA TerminateKeeps == ASSUME ProcessAssumption, Inv, NEW i \in Ids, Terminate(i) PROVE Inv'
<1>1. sess[i] \in SessStates /\ Staged(sess[i]) /\ Types
  BY Typed DEF Inv, Sound
<1>2. PICK x : x = [sess[i] EXCEPT !.alive = FALSE]
  OBVIOUS
<1>3. x \in SessStates
  BY <1>1, <1>2 DEF SessStates, Terminate
<1>4. Same(x, sess[i]) /\ Staged(x)
  BY <1>1, <1>2 DEF SessStates, Same, Staged, Terminate
<1>5. sess' = [sess EXCEPT ![i] = x]
  BY <1>2 DEF Terminate
<1> QED BY <1>1, <1>3, <1>4, <1>5, Quiet, Typed DEF Terminate, Others, Calls

LEMMA WaitReturnsKeeps == ASSUME ProcessAssumption, Inv, NEW i \in Ids, WaitReturns(i) PROVE Inv'
<1>1. sess[i] \in SessStates /\ Staged(sess[i]) /\ Types
  BY Typed DEF Inv, Sound
<1>2. PICK x : x = [sess[i] EXCEPT !.watch = "mark", !.closed = TRUE]
  OBVIOUS
<1>3. x \in SessStates
  BY <1>1, <1>2 DEF SessStates, WaitReturns
<1>4. Same(x, sess[i]) /\ Staged(x)
  BY <1>1, <1>2 DEF SessStates, Same, Staged, WaitReturns
<1>5. sess' = [sess EXCEPT ![i] = x]
  BY <1>2 DEF WaitReturns
<1> QED BY <1>1, <1>3, <1>4, <1>5, Quiet, Typed DEF WaitReturns, Others, Calls

LEMMA ReturnKeeps == ASSUME ProcessAssumption, Inv, NEW i \in Ids, Return(i) PROVE Inv'
<1>1. sess[i] \in SessStates /\ Staged(sess[i]) /\ Types
  BY Typed DEF Inv, Sound
<1>2. PICK x : x = [sess[i] EXCEPT !.ctx = CtxAfter(@)]
  OBVIOUS
<1>3. x \in SessStates
  BY <1>1, <1>2 DEF SessStates, CtxAfter, Return
<1>4. Same(x, sess[i]) /\ Staged(x)
  BY <1>1, <1>2 DEF SessStates, Same, Staged, CtxAfter, Return
<1>5. sess' = [sess EXCEPT ![i] = x]
  BY <1>2 DEF Return
<1>6. exec' \in [Ids -> {"none", "yield", "polling", "returned"}]
  BY <1>1, Typed DEF Return
<1> QED BY <1>1, <1>3, <1>4, <1>5, Quiet, Typed, <1>6 DEF Return, Others, Calls

LEMMA KillKeeps == ASSUME ProcessAssumption, Inv, NEW i \in Ids, Kill(i) PROVE Inv'
<1>1. sess[i] \in SessStates /\ Staged(sess[i]) /\ Types
  BY Typed DEF Inv, Sound
<1>2. PICK x : x = [sess[i] EXCEPT !.kill = TRUE]
  OBVIOUS
<1>3. x \in SessStates
  BY <1>1, <1>2 DEF SessStates, Kill
<1>4. Same(x, sess[i]) /\ Staged(x)
  BY <1>1, <1>2 DEF SessStates, Same, Staged, Kill
<1>5. sess' = [sess EXCEPT ![i] = x]
  BY <1>2 DEF Kill
<1>6. killing' \subseteq Ids
  BY <1>1, Typed DEF Kill
<1> QED BY <1>1, <1>3, <1>4, <1>5, Quiet, Typed, <1>6 DEF Kill, Others, Calls

LEMMA KillTreeKeeps == ASSUME ProcessAssumption, Inv, NEW i \in Ids, KillTree(i) PROVE Inv'
<1>1. sess[i] \in SessStates /\ Staged(sess[i]) /\ Types
  BY Typed DEF Inv, Sound
<1>2. PICK x : x = [sess[i] EXCEPT !.ctx = IF @ = "live" THEN "cancelled" ELSE @, !.alive = FALSE]
  OBVIOUS
<1>3. x \in SessStates
  BY <1>1, <1>2 DEF SessStates, KillTree
<1>4. Same(x, sess[i]) /\ Staged(x)
  BY <1>1, <1>2 DEF SessStates, Same, Staged, KillTree
<1>5. sess' = [sess EXCEPT ![i] = x]
  BY <1>2 DEF KillTree
<1>6. killing' \subseteq Ids
  BY <1>1, Typed DEF KillTree
<1> QED BY <1>1, <1>3, <1>4, <1>5, Quiet, Typed, <1>6 DEF KillTree, Others, Calls

LEMMA WakeKeeps == ASSUME ProcessAssumption, Inv, NEW p \in Pollers, Wake(p) PROVE Inv'
<1>1. /\ Types /\ poll[p] \in PollStates /\ poll[p].pc = "wait" /\ poll[p].id \in Ids
  BY Typed DEF Inv, Wake
<1>2. PICK i \in Ids : i = poll[p].id
  BY <1>1
<1>3. sess[i] \in SessStates /\ Staged(sess[i])
  BY Typed DEF Inv, Sound
<1>4. ASSUME poll' = [poll EXCEPT ![p] = NoPoll] PROVE
        /\ poll' \in [Pollers -> PollStates]
        /\ \A q \in Pollers : poll'[q].pc # "idle" => poll'[q].id \in Ids
  <2>1. NoPoll \in PollStates /\ NoPoll.pc = "idle"
    BY DEF NoPoll, PollStates, NoId
  <2> QED BY <1>1, <1>4, <2>1, PollChanges
<1>5. CASE poll' = [poll EXCEPT ![p] = NoPoll] /\ UNCHANGED sess
  BY <1>4, <1>5, Apart, Typed DEF Inv, Wake
<1>6. CASE sess' = [sess EXCEPT ![i].notify = FALSE] /\ poll' = [poll EXCEPT ![p].pc = "drain"]
  <2>1. PICK x : x = [sess[i] EXCEPT !.notify = FALSE]
    OBVIOUS
  <2>2. x \in SessStates
    BY <1>3, <2>1 DEF SessStates
  <2>3. Same(x, sess[i]) /\ Staged(x)
    BY <1>3, <2>1 DEF SessStates, Same, Staged
  <2>4. sess' = [sess EXCEPT ![i] = x]
    BY <1>6, <2>1
  <2>5. PICK y : y = [poll[p] EXCEPT !.pc = "drain"]
    OBVIOUS
  <2>6. y \in PollStates /\ y.id \in Ids
    BY <1>1, <2>5 DEF PollStates
  <2>7. /\ poll' \in [Pollers -> PollStates]
        /\ \A q \in Pollers : poll'[q].pc # "idle" => poll'[q].id \in Ids
    <3>1. poll' = [poll EXCEPT ![p] = y]
      BY <1>6, <2>5
    <3> QED BY <1>1, <2>6, <3>1, PollChanges
  <2> QED BY <1>1, <2>2, <2>3, <2>4, <2>7, Quiet, Typed DEF Wake
<1> QED BY <1>2, <1>5, <1>6 DEF Wake

\* A poll begins, of the tool or of the call of exec.
LEMMA PollBegins ==
  ASSUME Inv, NEW p, NEW i \in Ids, NEW wait \in BOOLEAN,
         poll' = [poll EXCEPT ![p] = [pc |-> "drain", id |-> i, wait |-> wait]],
         exec' \in [Ids -> {"none", "yield", "polling", "returned"}],
         UNCHANGED <<sess, reg, ended, removing, killing, given>>
  PROVE  Inv'
<1>1. PICK y : y = [pc |-> "drain", id |-> i, wait |-> wait]
  OBVIOUS
<1>2. y \in PollStates /\ y.id \in Ids
  BY <1>1 DEF PollStates
<1>3. /\ poll' \in [Pollers -> PollStates]
      /\ \A q \in Pollers : poll'[q].pc # "idle" => poll'[q].id \in Ids
  <2>1. poll' = [poll EXCEPT ![p] = y] /\ Types
    BY <1>1 DEF Inv
  <2> QED BY <1>2, <2>1, PollChanges
<1> QED BY <1>3, Apart, Typed DEF Inv

LEMMA PollKeeps == ASSUME Inv, NEW i \in Ids, Poll(i) PROVE Inv'
BY PollBegins, Typed DEF Poll, Inv

LEMMA YieldKeeps == ASSUME Inv, NEW i \in Ids, Yield(i) PROVE Inv'
<1>1. exec' \in [Ids -> {"none", "yield", "polling", "returned"}]
  BY Typed DEF Inv, Yield
<1> QED BY <1>1, PollBegins DEF Yield

LEMMA RemoveLookKeeps == ASSUME Inv, NEW i \in Ids, RemoveLook(i) PROVE Inv'
<1>1. removing' \subseteq Ids /\ \A j \in removing' : j \in removing \/ Terminal(j)
  BY Typed DEF Inv, RemoveLook
<1> QED BY <1>1, Apart, Typed DEF Inv, RemoveLook

(***************************************************************************)
(* Output.                                                                 *)
(***************************************************************************)

LEMMA ReadKeeps == ASSUME ProcessAssumption, Inv, NEW i \in Ids, Read(i) PROVE Inv'
<1>1. /\ sess[i] \in SessStates /\ Staged(sess[i]) /\ Once(sess[i], given[i]) /\ Types
      /\ given[i] \in [Chunks -> Nat]
  BY Typed DEF Inv, Sound
<1>2. PICK s : s = sess[i]
  OBVIOUS
<1>3. PICK n, all : n = s.read + 1 /\ all = s.pending \cup {n}
  OBVIOUS
<1>4. /\ n \in Chunks /\ n \in 0 .. MaxChunks /\ s.read \in Nat /\ n <= s.written
      /\ s.pending \subseteq Chunks /\ s.cut \subseteq Chunks
      /\ all \subseteq Chunks /\ Latest(all) \subseteq all
  <2>1. /\ s.read \in 0 .. MaxChunks /\ s.written \in 0 .. MaxChunks /\ s.read < s.written
        /\ s.pending \subseteq Chunks /\ s.cut \subseteq Chunks
    BY <1>1, <1>2 DEF SessStates, Read
  <2>2. n \in 1 .. MaxChunks /\ s.read \in Nat /\ n <= s.written
    BY <1>3, <2>1 DEF ProcessAssumption
  <2>3. n \in Chunks /\ n \in 0 .. MaxChunks
    BY <2>2 DEF Chunks
  <2>4. Latest(all) \subseteq all
    BY DEF Latest
  <2> QED BY <1>3, <2>1, <2>2, <2>3, <2>4
<1>5. PICK x : x = [s EXCEPT !.read = n, !.pending = Latest(all),
                             !.cut = s.cut \cup (all \ Latest(all)), !.notify = TRUE]
  OBVIOUS
<1>6. x \in SessStates
  <2>1. Latest(all) \in SUBSET Chunks /\ s.cut \cup (all \ Latest(all)) \in SUBSET Chunks
    BY <1>4
  <2> QED BY <1>1, <1>2, <1>4, <1>5, <2>1 DEF SessStates
<1>7. /\ x.status = s.status /\ x.watch = s.watch /\ x.alive = s.alive /\ x.written = s.written
      /\ x.read = n /\ x.pending = Latest(all) /\ x.cut = s.cut \cup (all \ Latest(all))
  BY <1>1, <1>2, <1>5 DEF SessStates
<1>8. sess' = [sess EXCEPT ![i] = x] /\ UNCHANGED <<reg, ended, exec, poll, removing, killing, given>>
  BY <1>2, <1>3, <1>5 DEF Read, Others, Calls
<1>9. Staged(x)
  <2>1. s.written # 0
    BY <1>3, <1>4
  <2> QED BY <1>1, <1>2, <1>4, <1>7, <2>1 DEF Staged
<1>10. Once(x, given[i])
  <2>1. n > s.read /\ Chunks \subseteq Nat
    BY <1>3, <1>4 DEF Chunks
  <2> SUFFICES ASSUME NEW c \in Chunks
               PROVE  \/ c > n /\ given[i][c] = 0 /\ c \notin x.pending /\ c \notin x.cut
                      \/ c <= n /\ given[i][c] = 1 /\ c \notin x.pending /\ c \notin x.cut
                      \/ c <= n /\ given[i][c] = 0 /\ c \in x.pending /\ c \notin x.cut
                      \/ c <= n /\ given[i][c] = 0 /\ c \notin x.pending /\ c \in x.cut
    BY <1>7 DEF Once
  <2>2. \/ c > s.read /\ given[i][c] = 0 /\ c \notin s.pending /\ c \notin s.cut
        \/ c <= s.read /\ given[i][c] = 1 /\ c \notin s.pending /\ c \notin s.cut
        \/ c <= s.read /\ given[i][c] = 0 /\ c \in s.pending /\ c \notin s.cut
        \/ c <= s.read /\ given[i][c] = 0 /\ c \notin s.pending /\ c \in s.cut
    BY <1>1, <1>2 DEF Once
  <2>3. (c > s.read => c = n \/ c > n) /\ (c <= s.read => c <= n /\ c # n)
    BY <1>3, <1>4, <2>1
  <2>4. /\ c \in x.pending <=> c \in Latest(all)
        /\ c \in x.cut <=> c \in s.cut \/ (c \in all /\ c \notin Latest(all))
        /\ c \in all <=> c \in s.pending \/ c = n
    BY <1>3, <1>7
  <2>5. CASE c = n
    <3>1. c <= n
      BY <2>1, <2>5
    <3>2. c > s.read
      BY <2>1, <2>5
    <3> QED BY <1>4, <2>1, <2>2, <2>3, <2>4, <2>5, <3>1, <3>2
  <2>6. CASE c # n
    BY <1>4, <2>2, <2>3, <2>4, <2>6
  <2> QED BY <2>5, <2>6
<1>11. /\ sess' \in [Ids -> SessStates] /\ sess'[i] = x
       /\ \A j \in Ids \ {i} : sess'[j] = sess[j]
  BY <1>1, <1>6, <1>8, SessChanges
<1>12. Types'
  BY <1>1, <1>8, <1>11, Typed, TypedNext
<1>13. Sound'
  BY <1>8, <1>9, <1>10, <1>11 DEF Inv, Sound
<1>14. Kept' /\ Few'
  <2>1. \A j \in Ids : /\ sess'[j].status = sess[j].status
                       /\ sess'[j].watch = "done" => sess[j].watch = "done"
    BY <1>2, <1>7, <1>11
  <2> QED BY <1>8, <2>1, ListsStay, Typed DEF Inv, Kept
<1> QED BY <1>12, <1>13, <1>14 DEF Inv

\* Taken and cleared: each pending chunk is given once more.
LEMMA DrainKeeps == ASSUME ProcessAssumption, Inv, NEW p \in Pollers, Drain(p) PROVE Inv'
<1>1. Types /\ poll[p] \in PollStates /\ poll[p].pc = "drain" /\ poll[p].id \in Ids
  BY Typed DEF Inv, Drain
<1>2. PICK i \in Ids : i = poll[p].id
  BY <1>1
<1>3. /\ sess[i] \in SessStates /\ Staged(sess[i]) /\ Once(sess[i], given[i])
      /\ given \in [Ids -> [Chunks -> Nat]]
  BY <1>1, Typed DEF Inv, Sound
<1>4. PICK x : x = [sess[i] EXCEPT !.pending = {}]
  OBVIOUS
<1>5. x \in SessStates /\ Staged(x)
  BY <1>3, <1>4 DEF SessStates, Staged
<1>6. /\ x.status = sess[i].status /\ x.watch = sess[i].watch /\ x.read = sess[i].read
      /\ x.pending = {} /\ x.cut = sess[i].cut
  BY <1>3, <1>4 DEF SessStates
<1>7. PICK g : g = [c \in Chunks |-> given[i][c] + IF c \in sess[i].pending THEN 1 ELSE 0]
  OBVIOUS
<1>8. /\ sess' = [sess EXCEPT ![i] = x] /\ given' = [given EXCEPT ![i] = g]
      /\ UNCHANGED <<reg, ended, exec, removing, killing>>
  BY <1>2, <1>4, <1>7 DEF Drain, Taken
<1>9. g \in [Chunks -> Nat]
  <2>1. given[i] \in [Chunks -> Nat]
    BY <1>3
  <2> QED BY <1>7, <2>1
<1>10. Once(x, g)
  <2> SUFFICES ASSUME NEW c \in Chunks
               PROVE  \/ c > x.read /\ g[c] = 0 /\ c \notin x.cut
                      \/ c <= x.read /\ g[c] = 1 /\ c \notin x.cut
                      \/ c <= x.read /\ g[c] = 0 /\ c \in x.cut
    BY <1>6 DEF Once
  <2>1. g[c] = given[i][c] + IF c \in sess[i].pending THEN 1 ELSE 0
    BY <1>7
  <2>2. \/ c > x.read /\ given[i][c] = 0 /\ c \notin sess[i].pending /\ c \notin x.cut
        \/ c <= x.read /\ given[i][c] = 1 /\ c \notin sess[i].pending /\ c \notin x.cut
        \/ c <= x.read /\ given[i][c] = 0 /\ c \in sess[i].pending /\ c \notin x.cut
        \/ c <= x.read /\ given[i][c] = 0 /\ c \notin sess[i].pending /\ c \in x.cut
    BY <1>3, <1>6 DEF Once
  <2> QED BY <2>1, <2>2
<1>11. PICK y : y = IF sess[i].pending # {} \/ Terminal(i) \/ ~poll[p].wait
                    THEN NoPoll ELSE [poll[p] EXCEPT !.pc = "wait"]
  OBVIOUS
<1>12. y \in PollStates /\ (y.pc # "idle" => y.id \in Ids)
  BY <1>1, <1>11 DEF PollStates, NoPoll, NoId
<1>13. /\ poll' \in [Pollers -> PollStates]
       /\ \A q \in Pollers : poll'[q].pc # "idle" => poll'[q].id \in Ids
  <2>1. poll' = [poll EXCEPT ![p] = y]
    BY <1>2, <1>11 DEF Drain
  <2> QED BY <1>1, <1>12, <2>1, PollChanges
<1>14. /\ sess' \in [Ids -> SessStates] /\ sess'[i] = x
       /\ \A j \in Ids \ {i} : sess'[j] = sess[j]
  BY <1>1, <1>5, <1>8, SessChanges
<1>15. /\ given' \in [Ids -> [Chunks -> Nat]] /\ given'[i] = g
       /\ \A j \in Ids \ {i} : given'[j] = given[j]
  BY <1>3, <1>8, <1>9
<1>16. Types'
  BY <1>1, <1>8, <1>13, <1>14, <1>15, Typed, TypedNext
<1>17. Sound'
  BY <1>5, <1>10, <1>14, <1>15 DEF Inv, Sound
<1>18. Kept' /\ Few'
  <2>1. \A j \in Ids : /\ sess'[j].status = sess[j].status
                       /\ sess'[j].watch = "done" => sess[j].watch = "done"
    BY <1>6, <1>14
  <2> QED BY <1>8, <2>1, ListsStay, Typed DEF Inv, Kept
<1> QED BY <1>16, <1>17, <1>18 DEF Inv

(***************************************************************************)
(* Sessions that come, end and go.                                         *)
(***************************************************************************)

\* Everything a step of one session may do, checked field by field.
LEMMA Changes ==
  ASSUME Inv, NEW i \in Ids, NEW x \in SessStates, sess' = [sess EXCEPT ![i] = x],
         Staged(x), Once(x, given[i]),
         exec' \in [Ids -> {"none", "yield", "polling", "returned"}],
         reg' \subseteq Ids, ended' \in Seq(Ids), UNCHANGED <<poll, removing, killing, given>>
  PROVE  /\ Types' /\ Sound'
         /\ sess'[i] = x /\ \A j \in Ids \ {i} : sess'[j] = sess[j]
<1>1. /\ sess' \in [Ids -> SessStates] /\ sess'[i] = x
      /\ \A j \in Ids \ {i} : sess'[j] = sess[j]
  BY SessChanges DEF Inv
<1>2. Types'
  BY <1>1, Typed, TypedNext DEF Inv
<1>3. Sound'
  BY <1>1 DEF Inv, Sound
<1> QED BY <1>1, <1>2, <1>3

LEMMA MarkExitedKeeps == ASSUME ProcessAssumption, Inv, NEW i \in Ids, MarkExited(i) PROVE Inv'
<1>1. sess[i] \in SessStates /\ Staged(sess[i]) /\ Once(sess[i], given[i]) /\ Types /\ ended \in Seq(Ids)
  BY Typed DEF Inv, Sound
<1>2. PICK st \in {"timeout", "killed", "failed", "completed"} :
        sess' = [sess EXCEPT ![i].watch = "prune", ![i].status = st, ![i].notify = TRUE,
                             ![i].ctx = IF @ = "live" THEN "cancelled" ELSE @]
  BY DEF MarkExited
<1>3. PICK x : x = [sess[i] EXCEPT !.watch = "prune", !.status = st, !.notify = TRUE,
                                   !.ctx = IF @ = "live" THEN "cancelled" ELSE @]
  OBVIOUS
<1>4. x \in SessStates
  BY <1>1, <1>2, <1>3 DEF SessStates
<1>5. /\ x.status = st /\ x.watch = "prune" /\ x.read = sess[i].read /\ x.written = sess[i].written
      /\ x.pending = sess[i].pending /\ x.cut = sess[i].cut
  BY <1>1, <1>3 DEF SessStates
<1>6. Staged(x) /\ Once(x, given[i])
  BY <1>1, <1>2, <1>5 DEF Staged, Once
<1>7. sess' = [sess EXCEPT ![i] = x]
  BY <1>2, <1>3
<1>8. /\ ended' = Append(ended, i) /\ UNCHANGED <<reg, exec, poll, removing, killing, given>>
      /\ sess[i].watch = "mark"
  BY DEF MarkExited, Calls
<1>9. ended' \in Seq(Ids) /\ Len(ended') = Len(ended) + 1 /\ ended'[Len(ended) + 1] = i
      /\ \A k \in DOMAIN ended : k \in DOMAIN ended' /\ ended'[k] = ended[k]
  BY <1>1, <1>8
<1>10. Types' /\ Sound' /\ sess'[i] = x /\ \A j \in Ids \ {i} : sess'[j] = sess[j]
  BY <1>1, <1>4, <1>6, <1>7, <1>8, <1>9, Changes, Typed
<1>11. Terminal(i)' /\ sess'[i].status # "running" /\ \A j \in Ids \ {i} : Terminal(j)' = Terminal(j)
  BY <1>2, <1>5, <1>10 DEF Terminal
<1>12. Kept'
  <2>1. \A j \in Ids : sess'[j].status = "running" => j \in reg'
    BY <1>8, <1>10, <1>11 DEF Inv, Kept
  <2>2. \A j \in removing' : Terminal(j)'
    BY <1>1, <1>8, <1>11, Typed DEF Inv, Kept
  <2>3. ASSUME NEW j \in Ids, Terminal(j)' PROVE \E k \in DOMAIN ended' : ended'[k] = j
    <3>1. CASE j = i
      <4>1. Len(ended) + 1 \in DOMAIN ended'
        BY <1>1, <1>9
      <4> QED BY <1>9, <3>1, <4>1
    <3>2. CASE j # i
      BY <1>9, <1>11, <2>3, <3>2 DEF Inv, Kept
    <3> QED BY <3>1, <3>2
  <2> QED BY <2>1, <2>2, <2>3 DEF Kept
<1>13. Few'
  <2>1. ~Over(i)' /\ \A j \in Ids \ {i} : Over(j)' => Over(j)
    BY <1>5, <1>10, <1>11 DEF Over
  <2>2. reg \subseteq Ids
    BY <1>1, Typed
  <2> QED BY <1>8, <2>1, <2>2 DEF Inv, Few
<1> QED BY <1>10, <1>12, <1>13 DEF Inv

LEMMA Least ==
  ASSUME NEW T \in SUBSET Nat, T # {}
  PROVE  \E m \in T : \A k \in T : m <= k
<1> DEFINE R == OpToRel(<, Nat)
<1>1. IsWellFoundedOn(R, Nat)
  BY NatLessThanWellFounded
<1>2. PICK x \in T : \A y \in T : ~ (<<y, x>> \in R)
  <2> HIDE DEF R
  <2> QED BY <1>1, WFMin
<1>3. \A y \in T : ~ (y < x)
  BY <1>2 DEF OpToRel
<1> QED BY <1>3

\* The pruning takes ended sessions only, and not the one to keep.
LEMMA PrunedKeeps ==
  ASSUME NEW in, NEW keep
  PROVE  /\ Pruned(in, keep) \subseteq in
         /\ \A j \in in : ~Terminal(j) \/ j = keep => j \in Pruned(in, keep)
BY DEF Pruned, Victims

\* If there are too many sessions after it, it has taken all that it may: an ended
\* session that it leaves has as many older ones before it as are too many.
LEMMA PrunedEnough ==
  ASSUME ProcessAssumption, Inv, NEW in \in SUBSET Ids, NEW keep,
         Cardinality(Pruned(in, keep)) > MaxSessions
  PROVE  Pruned(in, keep) \cap Victims(in, keep) = {}
<1> DEFINE excess == Cardinality(in) - MaxSessions
           age(i) == IF Terminal(i) THEN CHOOSE k \in DOMAIN ended : ended[k] = i ELSE 0
           V == Victims(in, keep)
           older(i) == {j \in V : age(j) < age(i)}
           old == {i \in V : Cardinality(older(i)) < excess}
<1>1. Pruned(in, keep) = in \ old
  BY DEF Pruned
<1>2. /\ IsFiniteSet(in) /\ V \subseteq in /\ old \subseteq V /\ MaxSessions \in Nat
      /\ \A i \in V : Terminal(i) /\ i \in Ids
  <2>1. IsFiniteSet(in)
    BY FS_Subset DEF ProcessAssumption
  <2> QED BY <2>1 DEF Victims, ProcessAssumption
<1>3. \A i \in V : age(i) \in Nat
  <2>1. \A i \in V : \E k \in DOMAIN ended : ended[k] = i
    BY <1>2 DEF Inv, Kept
  <2>2. DOMAIN ended \subseteq Nat
    BY Typed DEF Inv
  <2> QED BY <1>2, <2>1, <2>2
<1> HIDE DEF age, V
<1> SUFFICES ASSUME NEW v \in V, v \notin old PROVE Cardinality(in \ old) <= MaxSessions
  <2>1. Cardinality(in \ old) \in Nat
    BY <1>2, FS_Subset, FS_CardinalityType
  <2> QED BY <1>1, <1>2, <2>1 DEF V
<1> DEFINE W == {j \in V : j \notin old}
<1>4. PICK w \in W : \A j \in W : age(w) <= age(j)
  <2> DEFINE A == {age(j) : j \in W}
  <2>1. A \in SUBSET Nat /\ A # {}
    BY <1>3
  <2>2. PICK m \in A : \A k \in A : m <= k
    <3> HIDE DEF A
    <3> QED BY <2>1, Least
  <2> QED BY <2>2
<1>5. older(w) \subseteq old
  BY <1>3, <1>4
<1>6. Cardinality(old) >= excess
  <2>1. IsFiniteSet(old) /\ IsFiniteSet(older(w)) /\ Cardinality(in) \in Nat
    BY <1>2, FS_Subset, FS_CardinalityType
  <2>2. Cardinality(older(w)) <= Cardinality(old) /\ Cardinality(older(w)) \in Nat /\ Cardinality(old) \in Nat
    BY <1>5, <2>1, FS_Subset, FS_CardinalityType
  <2>3. ~(Cardinality(older(w)) < excess)
    BY <1>4
  <2> QED BY <1>2, <2>1, <2>2, <2>3
<1>7. Cardinality(in \ old) = Cardinality(in) - Cardinality(old)
  <2>1. in \cap old = old
    BY <1>2
  <2> HIDE DEF old
  <2> QED BY <1>2, <2>1, FS_Difference
<1>8. Cardinality(in) \in Nat /\ Cardinality(old) \in Nat
  BY <1>2, FS_Subset, FS_CardinalityType
<1> QED BY <1>2, <1>6, <1>7, <1>8

LEMMA PruneKeeps == ASSUME ProcessAssumption, Inv, NEW i \in Ids, Prune(i) PROVE Inv'
<1>1. /\ sess[i] \in SessStates /\ Staged(sess[i]) /\ Once(sess[i], given[i])
      /\ reg \subseteq Ids /\ ended \in Seq(Ids)
      /\ exec \in [Ids -> {"none", "yield", "polling", "returned"}]
  BY Typed DEF Inv, Sound
<1>2. PICK x : x = [sess[i] EXCEPT !.watch = "done"]
  OBVIOUS
<1>3. /\ reg' = Pruned(reg, i) /\ UNCHANGED <<ended, exec, poll, removing, killing, given>>
      /\ sess[i].watch = "prune" /\ sess' = [sess EXCEPT ![i] = x]
  BY <1>2 DEF Prune, Calls
<1>4. /\ x \in SessStates /\ Staged(x) /\ Once(x, given[i])
      /\ x.status = sess[i].status /\ x.status # "running"
  BY <1>1, <1>2, <1>3 DEF SessStates, Staged, Once
<1>5. /\ reg' \subseteq reg
      /\ \A j \in reg : ~Terminal(j) \/ j = i => j \in reg'
  BY <1>3, PrunedKeeps
<1>6. Types' /\ Sound' /\ sess'[i] = x /\ \A j \in Ids \ {i} : sess'[j] = sess[j]
  BY <1>1, <1>3, <1>4, <1>5, Changes
<1>7. \A j \in Ids : Terminal(j)' = Terminal(j) /\ sess'[j].status = sess[j].status
  BY <1>4, <1>6 DEF Terminal
<1>8. Kept'
  <2>1. \A j \in Ids : sess'[j].status = "running" => j \in reg'
    BY <1>5, <1>7 DEF Inv, Kept, Terminal
  <2>2. \A j \in removing' : Terminal(j)'
    BY <1>3, <1>7, Typed DEF Inv, Kept
  <2>3. \A j \in Ids : Terminal(j)' => \E k \in DOMAIN ended' : ended'[k] = j
    BY <1>3, <1>7 DEF Inv, Kept
  <2> QED BY <2>1, <2>2, <2>3 DEF Kept
<1>9. Few'
  <2> SUFFICES ASSUME Cardinality(reg') > MaxSessions, NEW j \in reg', Over(j)', j # i PROVE FALSE
    BY DEF Few
  <2>1. Pruned(reg, i) \cap Victims(reg, i) = {}
    BY <1>1, <1>3, PrunedEnough
  <2>2. j \in Victims(reg, i)
    BY <1>1, <1>5, <1>7 DEF Victims, Over
  <2> QED BY <1>3, <2>1, <2>2
<1> QED BY <1>6, <1>8, <1>9 DEF Inv

LEMMA StartKeeps == ASSUME ProcessAssumption, Inv, NEW i \in Ids, Start(i) PROVE Inv'
<1>1. /\ sess[i] \in SessStates /\ Staged(sess[i]) /\ Once(sess[i], given[i])
      /\ reg \subseteq Ids /\ ended \in Seq(Ids) /\ given \in [Ids -> [Chunks -> Nat]]
      /\ exec \in [Ids -> {"none", "yield", "polling", "returned"}] /\ removing \subseteq Ids
  BY Typed DEF Inv, Sound
<1>2. PICK how \in {"returned", "yield"} :
        /\ exec' = [exec EXCEPT ![i] = how]
        /\ sess' = [sess EXCEPT ![i] =
                      [NoSession EXCEPT !.status = "running", !.alive = TRUE, !.watch = "wait",
                                        !.ctx = IF how = "yield" THEN @ ELSE CtxAfter(@)]]
  BY DEF Start
<1>3. PICK x : x = [NoSession EXCEPT !.status = "running", !.alive = TRUE, !.watch = "wait",
                                     !.ctx = IF how = "yield" THEN @ ELSE CtxAfter(@)]
  OBVIOUS
<1>4. /\ reg' = Pruned(reg \cup {i}, i) /\ UNCHANGED <<ended, poll, removing, killing, given>>
      /\ sess[i].status = "none" /\ sess' = [sess EXCEPT ![i] = x]
  BY <1>2, <1>3 DEF Start
<1>5. /\ x.status = "running" /\ x.alive = TRUE /\ x.watch = "wait" /\ x.read = 0 /\ x.written = 0
      /\ x.pending = {} /\ x.cut = {} /\ x.kill = FALSE /\ x.closed = FALSE /\ x.notify = FALSE
      /\ x.ctx \in {"live", "cancelled"}
  BY <1>3 DEF NoSession, CtxAfter
<1>6. x \in SessStates
  <2>1. 0 \in 0 .. MaxChunks
    BY DEF ProcessAssumption
  <2>2. NoSession \in SessStates
    BY <2>1 DEF SessStates, NoSession
  <2>3. CtxAfter("live") \in {"live", "cancelled"} /\ NoSession.ctx = "live"
    BY DEF CtxAfter, NoSession
  <2> HIDE DEF NoSession
  <2> QED BY <1>3, <2>2, <2>3 DEF SessStates
<1>7. Staged(x)
  BY <1>5 DEF Staged
<1>8. Once(x, given[i])
  <2>1. sess[i].read = 0
    BY <1>1, <1>4 DEF Staged, SessStates
  <2> QED BY <1>1, <1>5, <2>1 DEF Once, Chunks
<1>9. /\ reg' \subseteq reg \cup {i}
      /\ \A j \in reg \cup {i} : ~Terminal(j) \/ j = i => j \in reg'
  <2> DEFINE in == reg \cup {i}
  <2> HIDE DEF in
  <2>1. reg' \subseteq in /\ \A j \in in : ~Terminal(j) \/ j = i => j \in reg'
    BY <1>4, PrunedKeeps DEF in
  <2> QED BY <2>1 DEF in
<1>10. exec' \in [Ids -> {"none", "yield", "polling", "returned"}]
  BY <1>1, <1>2
<1>11. Types' /\ Sound' /\ sess'[i] = x /\ \A j \in Ids \ {i} : sess'[j] = sess[j]
  <2>1. reg' \subseteq Ids /\ ended' \in Seq(Ids)
    BY <1>1, <1>4, <1>9
  <2> QED BY <1>4, <1>6, <1>7, <1>8, <1>10, <2>1, Changes
<1>12. /\ ~Terminal(i) /\ ~Terminal(i)'
       /\ \A j \in Ids \ {i} : Terminal(j)' = Terminal(j) /\ Over(j)' = Over(j)
  BY <1>4, <1>5, <1>11 DEF Terminal, Over
<1>13. Kept'
  <2>1. \A j \in Ids : sess'[j].status = "running" => j \in reg'
    BY <1>9, <1>11 DEF Inv, Kept, Terminal
  <2>2. \A j \in removing' : Terminal(j)'
    BY <1>1, <1>4, <1>12 DEF Inv, Kept
  <2>3. \A j \in Ids : Terminal(j)' => \E k \in DOMAIN ended' : ended'[k] = j
    BY <1>4, <1>12 DEF Inv, Kept
  <2> QED BY <2>1, <2>2, <2>3 DEF Kept
<1>14. Few'
  <2> SUFFICES ASSUME Cardinality(reg') > MaxSessions, NEW j \in reg', Over(j)' PROVE FALSE
    BY DEF Few
  <2>1. j # i /\ j \in reg /\ Terminal(j)
    BY <1>1, <1>9, <1>12 DEF Over
  <2>2. (reg \cup {i}) \in SUBSET Ids
    BY <1>1
  <2>3. Pruned(reg \cup {i}, i) \cap Victims(reg \cup {i}, i) = {}
    BY <1>4, <2>2, PrunedEnough
  <2>4. j \in Victims(reg \cup {i}, i)
    BY <2>1 DEF Victims
  <2> QED BY <1>4, <2>3, <2>4
<1> QED BY <1>11, <1>13, <1>14 DEF Inv

LEMMA RemoveDeleteKeeps == ASSUME ProcessAssumption, Inv, NEW i \in Ids, RemoveDelete(i) PROVE Inv'
<1>1. Types /\ sess \in [Ids -> SessStates] /\ reg \subseteq Ids /\ removing \subseteq Ids /\ Terminal(i)
  BY Typed DEF Inv, Kept, RemoveDelete
<1>2. /\ removing' = removing \ {i} /\ reg' = reg \ {i}
      /\ UNCHANGED <<sess, ended, exec, poll, killing, given>>
  BY DEF RemoveDelete
<1>3. Types'
  BY <1>1, <1>2, Typed, TypedNext
<1>4. Sound'
  BY <1>2 DEF Inv, Sound
<1>5. Kept'
  BY <1>1, <1>2 DEF Inv, Kept, Terminal
<1>6. Few'
  <2>1. IsFiniteSet(reg)
    BY <1>1, FS_Subset DEF ProcessAssumption
  <2>2. /\ Cardinality(reg') <= Cardinality(reg)
        /\ Cardinality(reg) \in Nat /\ Cardinality(reg') \in Nat /\ MaxSessions \in Nat
    BY <1>2, <2>1, FS_Subset, FS_CardinalityType DEF ProcessAssumption
  <2>3. \A j \in Ids : Over(j)' = Over(j)
    BY <1>2 DEF Over, Terminal
  <2>4. Cardinality(reg') > MaxSessions => Cardinality(reg) > MaxSessions
    BY <2>2
  <2> QED BY <1>1, <1>2, <2>3, <2>4 DEF Inv, Few
<1> QED BY <1>3, <1>4, <1>5, <1>6 DEF Inv
-----------------------------------------------------------------------------
LEMMA InitInv == ASSUME ProcessAssumption, Init PROVE Inv
<1>1. 0 \in 0 .. MaxChunks
  BY DEF ProcessAssumption
<1>2. NoSession \in SessStates /\ Staged(NoSession)
  BY <1>1 DEF SessStates, NoSession, Staged
<1>3. NoPoll \in PollStates /\ NoPoll.pc = "idle"
  BY DEF PollStates, NoPoll, NoId
<1>4. Types
  BY <1>2, <1>3 DEF Init, Types, TypeOK, SessStates, PollStates
<1>5. Sound
  <2>1. \A i \in Ids : Once(NoSession, given[i])
    BY DEF Init, Once, NoSession, Chunks
  <2> QED BY <1>2, <2>1 DEF Init, Sound
<1>6. Kept
  BY DEF Init, Kept, Terminal, NoSession
<1>7. Few
  BY DEF Init, Few
<1> QED BY <1>4, <1>5, <1>6, <1>7 DEF Inv

LEMMA NextInv == ASSUME ProcessAssumption, Inv, [Next]_vars PROVE Inv'
<1>1. ASSUME NEW i \in Ids, Start(i) \/ Yield(i) \/ Return(i) \/ Write(i) \/ Ends(i) \/ Deadline(i)
      PROVE  Inv'
  BY <1>1, StartKeeps, YieldKeeps, ReturnKeeps, WriteKeeps, EndsKeeps, DeadlineKeeps
<1>2. ASSUME NEW i \in Ids, Watch(i) PROVE Inv'
  BY <1>2, TerminateKeeps, WaitReturnsKeeps, MarkExitedKeeps, PruneKeeps DEF Watch
<1>3. ASSUME NEW i \in Ids,
             Read(i) \/ Poll(i) \/ Kill(i) \/ KillTree(i) \/ RemoveLook(i) \/ RemoveDelete(i)
      PROVE  Inv'
  BY <1>3, ReadKeeps, PollKeeps, KillKeeps, KillTreeKeeps, RemoveLookKeeps, RemoveDeleteKeeps
<1>4. ASSUME NEW p \in Pollers, Polling(p) PROVE Inv'
  BY <1>4, DrainKeeps, WakeKeeps DEF Polling
<1>5. CASE UNCHANGED vars
  <2>1. UNCHANGED <<sess, reg, ended, given, exec, poll, removing, killing>>
    BY <1>5 DEF vars
  <2> QED BY <2>1, Apart, Typed DEF Inv
<1>6. CASE Next
  BY <1>1, <1>2, <1>3, <1>4, <1>6 DEF Next
<1> QED BY <1>5, <1>6

\* The invariant: a chunk that was read is in one place, what runs is registered,
\* what is to be removed has ended, and at most one session that is done is too many.
THEOREM Invariant == ASSUME ProcessAssumption PROVE Spec => []Inv
<1>1. Init => Inv
  BY InitInv
<1>2. Inv /\ [Next]_vars => Inv'
  BY NextInv
<1> QED BY <1>1, <1>2, PTL DEF Spec

\* What the fields of the sessions, the polls and the lists hold.
THEOREM TypeCorrect == ASSUME ProcessAssumption PROVE Spec => []TypeOK
<1>1. Inv => TypeOK
  BY DEF Inv, Types
<1> QED BY <1>1, Invariant, PTL

LEMMA OnceGiven == ASSUME ProcessAssumption, Inv PROVE OutputOnce
<1> SUFFICES ASSUME NEW i \in Ids, NEW c \in 1 .. sess[i].read
             PROVE  given[i][c] + Cardinality({w \in {"pending", "cut"} : c \in sess[i][w]}) = 1
  BY DEF OutputOnce
<1> DEFINE places == {w \in {"pending", "cut"} : c \in sess[i][w]}
<1>1. sess[i] \in SessStates /\ Once(sess[i], given[i])
  BY Typed DEF Inv, Sound
<1>2. c \in Chunks /\ c <= sess[i].read /\ sess[i].read \in Int
  <2>1. PICK r \in 0 .. MaxChunks : r = sess[i].read
    BY <1>1 DEF SessStates
  <2>2. c \in 1 .. r
    BY <2>1
  <2>3. c \in 1 .. MaxChunks /\ c <= r /\ r \in Int
    BY <2>2 DEF ProcessAssumption
  <2> QED BY <2>1, <2>3 DEF Chunks
<1>3. /\ c \in sess[i]["pending"] <=> c \in sess[i].pending
      /\ c \in sess[i]["cut"] <=> c \in sess[i].cut
  OBVIOUS
<1>4. /\ Cardinality({}) = 0 /\ Cardinality({"pending"}) = 1 /\ Cardinality({"cut"}) = 1
  BY FS_EmptySet, FS_Singleton
<1>5. \/ given[i][c] = 1 /\ c \notin sess[i].pending /\ c \notin sess[i].cut
      \/ given[i][c] = 0 /\ c \in sess[i].pending /\ c \notin sess[i].cut
      \/ given[i][c] = 0 /\ c \notin sess[i].pending /\ c \in sess[i].cut
  <2>1. ~(c > sess[i].read)
    BY <1>2 DEF Chunks
  <2> QED BY <1>1, <1>2, <2>1 DEF Once
<1>6. CASE given[i][c] = 1 /\ c \notin sess[i].pending /\ c \notin sess[i].cut
  <2>1. places = {}
    BY <1>3, <1>6
  <2> HIDE DEF places
  <2>2. Cardinality(places) = 0
    BY <1>4, <2>1
  <2> QED BY <1>6, <2>2 DEF places
<1>7. CASE given[i][c] = 0 /\ c \in sess[i].pending /\ c \notin sess[i].cut
  <2>1. places = {"pending"}
    BY <1>3, <1>7
  <2> HIDE DEF places
  <2>2. Cardinality(places) = 1
    BY <1>4, <2>1
  <2> QED BY <1>7, <2>2 DEF places
<1>8. CASE given[i][c] = 0 /\ c \notin sess[i].pending /\ c \in sess[i].cut
  <2>1. places = {"cut"}
    BY <1>3, <1>8
  <2> HIDE DEF places
  <2>2. Cardinality(places) = 1
    BY <1>4, <2>1
  <2> QED BY <1>8, <2>2 DEF places
<1> QED BY <1>5, <1>6, <1>7, <1>8

\* What was read of a command is pending, was cut by the cap or went to exactly
\* one poll, whichever calls poll the session and however their steps interleave.
THEOREM ChunksGivenOnce == ASSUME ProcessAssumption PROVE Spec => []OutputOnce
BY OnceGiven, Invariant, PTL

LEMMA FewDone == ASSUME Inv PROVE Retention
<1>1. \A i \in Ids : sess[i].status = "running" => i \in reg
  BY DEF Inv, Kept
<1>2. ASSUME Cardinality(reg) > MaxSessions
      PROVE  Cardinality({i \in reg : Terminal(i) /\ sess[i].watch = "done"}) <= 1
  <2> DEFINE D == {i \in reg : Terminal(i) /\ sess[i].watch = "done"}
  <2>1. \A i, j \in D : i = j
    BY <1>2 DEF Inv, Few, Over
  <2>2. CASE D = {}
    BY <2>2, FS_EmptySet
  <2>3. CASE D # {}
    <3>1. PICK i : D = {i}
      BY <2>1, <2>3
    <3> HIDE DEF D
    <3>2. Cardinality(D) = 1
      BY <3>1, FS_Singleton
    <3> QED BY <3>2 DEF D
  <2> QED BY <2>2, <2>3
<1> QED BY <1>1, <1>2 DEF Retention

\* A session leaves the manager only after its command has ended, and too many are
\* registered only while all of them run but one: MarkExited, Clear, Remove and
\* StartSession in any order.
THEOREM EndedSessionsGo == ASSUME ProcessAssumption PROVE Spec => []Retention
BY FewDone, Invariant, PTL
=============================================================================
