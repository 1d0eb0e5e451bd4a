-------------------------- MODULE Subsystems_proofs --------------------------
(***************************************************************************)
(* Proofs about the subsystems that work on their own, as the run          *)
(* `subsystems` has them: one section each, on its instance in             *)
(* MCSubsystems, with the invariant that its steps keep, and at the end    *)
(* the theorems about the composition, in which one of them is the focus.  *)
(* The manager of MCP servers and that of processes have their proofs in   *)
(* modules of their own, of which this one takes instances.                *)
(***************************************************************************)
EXTENDS MCSubsystems, FiniteSetTheorems, WellFoundedInduction, TLAPS

\* The variables by the names that their subsystems give them.
cfg == x1
count == x1
files == x1
opts == x1
override == x1
tracker == x1
call == x2
estop == x2
file == x2
refs == x2
streak == x2
backups == x3
pos == x3
run == x3
scopeToRefs == x3
turn == x3
batch == x4
dropped == x4
falls == x4
refToScope == x4
wish == x4
covered == x5
fresh == x5
jobs == x5
lag == x5
active == x6
failures == x6
removing == x6
done == x7
uses == x7

USE DEF cfg, count, files, opts, override, tracker, call, estop, file, refs, streak,
        backups, pos, run, scopeToRefs, turn, batch, dropped, falls, refToScope, wish,
        covered, fresh, jobs, lag, active, failures, removing, done, uses

\* Each instance has a Cardinality of its own.
LEMMA OneCardinality ==
  /\ \A S : Batch!Cardinality(S) = Cardinality(S)
  /\ \A S : Audit!Cardinality(S) = Cardinality(S)
BY DEF Batch!Cardinality, Audit!Cardinality, Cardinality

\* What the configuration assumes of each.
LEMMA FallbackAssumed == Fallback!FallbackAssumption
BY Assumptions

LEMMA ModelAssumed == Model!SessionModelAssumption
BY Assumptions

LEMMA OutputAssumed == Output!ProcessAssumption
BY Assumptions

LEMMA BatchAssumed == Batch!BatchAssumption
BY Assumptions

LEMMA McpAssumed == Mcp!McpAssumption
BY Assumptions

LEMMA MediaAssumed == Media!MediaAssumption
BY Assumptions

LEMMA AuditAssumed == Audit!AuditAssumption
BY Assumptions

\* A set of natural numbers has a least one.
LEMMA Least ==
  ASSUME NEW T \in SUBSET Nat, T # {}
  PROVE  \E m \in T : \A k \in T : m <= k
<1> DEFINE R == OpToRel(<, Nat)
<1>1. IsWellFoundedOn(R, Nat)
  BY NatLessThanWellFounded
<1>2. PICK x \in T : \A y \in T : ~ (<<y, x>> \in R)
  <2> HIDE DEF R
  <2> QED BY <1>1, WFMin
<1>3. \A y \in T : ~ (y < x)
  BY <1>2 DEF OpToRel
<1> QED BY <1>3

-----------------------------------------------------------------------------
\* The cooldowns of the providers (ProviderFallback).

\* The cooldown that a count of failures gives.
Cooldown(s, n) == IF n = 0 THEN 0 ELSE s[n]
Cooldowns(s) ==
  /\ Len(s) \in Nat \ {0} /\ DOMAIN s = 1 .. Len(s)
  /\ \A n \in 0 .. Len(s) : Cooldown(s, n) \in Nat /\ Cooldown(s, n) <= FailureWindow
  /\ \A m, n \in 0 .. Len(s) : m <= n => Cooldown(s, m) <= Cooldown(s, n)
Within(e, end, cooldown) ==
  \/ end = 0
  \/ e.last # Fallback!Never /\ end <= e.last + cooldown

\* What an entry says of the time: no end lies further from the last failure than
\* the cooldown of its count.
Bounded(e) ==
  /\ e.last <= now
  /\ Within(e, e.end, Cooldown(Standard, e.errors))
  /\ Within(e, e.disabled, Cooldown(Billing, e.billing))

\* The cooldowns lie within what the counts give, which an end can then not undercut.
FbInv ==
  /\ Fallback!TypeOK
  /\ \A c \in Callers : ~Fallback!AtPc(c, "idle") => call[c].idx \in DOMAIN Chain
  /\ \A p \in Fallback!Providers : Bounded(tracker[p])

Entries == [errors : 0 .. Len(Standard), billing : 0 .. Len(Billing),
            end : Nat, disabled : Nat, last : 0 .. MaxTime \cup {Fallback!Never}]

LEMMA CooldownsAre == Cooldowns(Standard) /\ Cooldowns(Billing)
<1>1. ASSUME NEW s \in Seq(Nat) \ {<<>>}, \A i \in DOMAIN s : s[i] <= FailureWindow,
             \A i, j \in DOMAIN s : i <= j => s[i] <= s[j]
      PROVE  Cooldowns(s)
  <2>1. Len(s) \in Nat \ {0} /\ DOMAIN s = 1 .. Len(s) /\ \A i \in 1 .. Len(s) : s[i] \in Nat
    BY <1>1
  <2>2. FailureWindow \in Nat
    BY FallbackAssumed DEF Fallback!FallbackAssumption
  <2>3. \A n \in 1 .. Len(s) : n # 0 /\ Cooldown(s, n) = s[n]
    BY DEF Cooldown
  <2>4. Cooldown(s, 0) = 0
    BY DEF Cooldown
  <2>5. \A n \in 0 .. Len(s) : n = 0 \/ n \in 1 .. Len(s)
    BY <2>1
  <2>6. \A n \in 0 .. Len(s) : Cooldown(s, n) \in Nat /\ Cooldown(s, n) <= FailureWindow
    BY <1>1, <2>1, <2>2, <2>3, <2>4, <2>5
  <2>7. \A m, n \in 0 .. Len(s) : m <= n => Cooldown(s, m) <= Cooldown(s, n)
    BY <1>1, <2>1, <2>3, <2>4, <2>5, <2>6
  <2> QED BY <2>1, <2>6, <2>7 DEF Cooldowns
<1> QED BY <1>1, FallbackAssumed DEF Fallback!FallbackAssumption

LEMMA UpCounts ==
  ASSUME NEW s, Cooldowns(s), NEW n \in 0 .. Len(s)
  PROVE  Fallback!Up(n, s) \in 1 .. Len(s) /\ n <= Fallback!Up(n, s)
BY DEF Fallback!Up, Cooldowns

\* Failures of long ago are not counted, and their cooldowns are over.
LEMMA CountsAre ==
  ASSUME now \in 0 .. MaxTime, NEW e \in Entries, Bounded(e)
  PROVE  /\ Fallback!Counts(e) \in Entries
         /\ Fallback!Counts(e).end = e.end /\ Fallback!Counts(e).disabled = e.disabled
         /\ e.end <= now + Cooldown(Standard, Fallback!Counts(e).errors)
         /\ e.disabled <= now + Cooldown(Billing, Fallback!Counts(e).billing)
<1>1. Cooldowns(Standard) /\ Cooldowns(Billing) /\ MaxTime \in Nat /\ FailureWindow \in Nat
  BY CooldownsAre, FallbackAssumed DEF Fallback!FallbackAssumption
<1>2. /\ e.errors \in 0 .. Len(Standard) /\ e.billing \in 0 .. Len(Billing)
      /\ e.end \in Nat /\ e.disabled \in Nat /\ e.last \in 0 .. MaxTime \cup {Fallback!Never}
  BY DEF Entries
<1>3. /\ Cooldown(Standard, e.errors) \in 0 .. FailureWindow /\ Cooldown(Billing, e.billing) \in 0 .. FailureWindow
      /\ Cooldown(Standard, 0) = 0 /\ Cooldown(Billing, 0) = 0
  BY <1>1, <1>2 DEF Cooldowns, Cooldown
<1>4. /\ e.last <= now
      /\ e.end = 0 \/ (e.last # Fallback!Never /\ e.end <= e.last + Cooldown(Standard, e.errors))
      /\ e.disabled = 0 \/ (e.last # Fallback!Never /\ e.disabled <= e.last + Cooldown(Billing, e.billing))
  BY DEF Bounded, Within
<1>5. CASE e.last # Fallback!Never /\ now - e.last > FailureWindow
  <2> DEFINE none == [errors |-> 0, billing |-> 0, end |-> e.end, disabled |-> e.disabled, last |-> e.last]
  <2>1. Fallback!Counts(e) = none
    <3>1. Fallback!Counts(e) = [e EXCEPT !.errors = 0, !.billing = 0]
      BY <1>5 DEF Fallback!Counts
    <3>2. PICK g : g = [e EXCEPT !.errors = 0]
      OBVIOUS
    <3>3. g = [errors |-> 0, billing |-> e.billing, end |-> e.end, disabled |-> e.disabled, last |-> e.last]
      BY <3>2 DEF Entries
    <3>4. [g EXCEPT !.billing = 0] = none
      BY <3>3
    <3> QED BY <3>1, <3>2, <3>4
  <2>2. /\ none \in Entries
        /\ none.end = e.end
        /\ none.disabled = e.disabled
        /\ none.errors = 0
        /\ none.billing = 0
    BY <1>1, <1>2 DEF Entries, Cooldowns
  <2>3. e.end <= now /\ e.disabled <= now
    <3>1. now \in Nat /\ e.last \in Nat /\ e.last + FailureWindow <= now
      BY <1>1, <1>2, <1>5 DEF Fallback!Never
    <3>2. e.end <= now
      BY <1>1, <1>2, <1>3, <1>4, <3>1
    <3>3. e.disabled <= now
      BY <1>1, <1>2, <1>3, <1>4, <3>1
    <3> QED BY <3>2, <3>3
  <2> QED BY <1>3, <2>1, <2>2, <2>3
<1>6. CASE ~(e.last # Fallback!Never /\ now - e.last > FailureWindow)
  <2>1. Fallback!Counts(e) = e
    BY <1>6 DEF Fallback!Counts
  <2>2. now \in Nat /\ e.last \in Int
    BY <1>1, <1>2 DEF Fallback!Never
  <2>3. e.end <= now + Cooldown(Standard, e.errors)
    BY <1>1, <1>2, <1>3, <1>4, <2>2
  <2>4. e.disabled <= now + Cooldown(Billing, e.billing)
    BY <1>1, <1>2, <1>3, <1>4, <2>2
  <2> QED BY <2>1, <2>3, <2>4
<1> QED BY <1>5, <1>6

\* The entry after a failure, of either kind.
Marked(e, reason) ==
  LET errors == Fallback!Up(Fallback!Counts(e).errors, Standard)
      billing == Fallback!Up(Fallback!Counts(e).billing, Billing)
      failed == [Fallback!Counts(e) EXCEPT !.errors = errors, !.last = now]
  IN IF reason = "billing"
     THEN [failed EXCEPT !.billing = billing, !.disabled = now + Billing[billing]]
     ELSE [failed EXCEPT !.end = now + Standard[errors]]

LEMMA MarkedStands ==
  ASSUME now \in 0 .. MaxTime, NEW e \in Entries, Bounded(e), NEW reason
  PROVE  /\ Marked(e, reason) \in Entries /\ Bounded(Marked(e, reason))
         /\ Marked(e, reason).end >= e.end /\ Marked(e, reason).disabled >= e.disabled
<1>1. Cooldowns(Standard) /\ Cooldowns(Billing) /\ MaxTime \in Nat
  BY CooldownsAre, FallbackAssumed DEF Fallback!FallbackAssumption
<1> DEFINE counts == Fallback!Counts(e)
           errors == Fallback!Up(counts.errors, Standard)
           billing == Fallback!Up(counts.billing, Billing)
           f == Marked(e, reason)
<1>2. /\ counts \in Entries /\ counts.end = e.end /\ counts.disabled = e.disabled
      /\ e.end <= now + Cooldown(Standard, counts.errors)
      /\ e.disabled <= now + Cooldown(Billing, counts.billing)
  BY CountsAre
<1>3. /\ errors \in 1 .. Len(Standard) /\ billing \in 1 .. Len(Billing)
      /\ counts.errors \in 0 .. Len(Standard) /\ counts.billing \in 0 .. Len(Billing)
      /\ counts.errors <= errors /\ counts.billing <= billing
  BY <1>1, <1>2, UpCounts DEF Entries
<1>4. /\ Cooldown(Standard, errors) = Standard[errors] /\ Cooldown(Billing, billing) = Billing[billing]
      /\ Standard[errors] \in Nat /\ Billing[billing] \in Nat
      /\ Cooldown(Standard, counts.errors) \in Nat /\ Cooldown(Standard, counts.errors) <= Standard[errors]
      /\ Cooldown(Billing, counts.billing) \in Nat /\ Cooldown(Billing, counts.billing) <= Billing[billing]
  <2>1. errors \in 0 .. Len(Standard) /\ errors # 0 /\ billing \in 0 .. Len(Billing) /\ billing # 0
    BY <1>1, <1>3 DEF Cooldowns
  <2>2. Cooldown(Standard, errors) = Standard[errors] /\ Cooldown(Billing, billing) = Billing[billing]
    BY <2>1 DEF Cooldown
  <2> QED BY <1>1, <1>3, <2>1, <2>2 DEF Cooldowns
<1>5. e.end \in Nat /\ e.disabled \in Nat
  BY DEF Entries
<1> HIDE DEF counts, errors, billing
<1>6. f = IF reason = "billing"
          THEN [errors |-> errors, billing |-> billing, end |-> e.end,
                disabled |-> now + Billing[billing], last |-> now]
          ELSE [errors |-> errors, billing |-> counts.billing, end |-> now + Standard[errors],
                disabled |-> e.disabled, last |-> now]
  <2>1. PICK g : g = [counts EXCEPT !.errors = errors]
    OBVIOUS
  <2>2. g = [errors |-> errors, billing |-> counts.billing, end |-> e.end,
             disabled |-> e.disabled, last |-> counts.last]
    BY <1>2, <2>1 DEF Entries
  <2>3. PICK h : h = [g EXCEPT !.last = now]
    OBVIOUS
  <2>4. h = [errors |-> errors, billing |-> counts.billing, end |-> e.end,
             disabled |-> e.disabled, last |-> now]
    BY <2>2, <2>3
  <2>5. PICK k : k = [h EXCEPT !.billing = billing]
    OBVIOUS
  <2>6. k = [errors |-> errors, billing |-> billing, end |-> e.end, disabled |-> e.disabled, last |-> now]
    BY <2>4, <2>5
  <2>7. f = IF reason = "billing" THEN [k EXCEPT !.disabled = now + Billing[billing]]
                                  ELSE [h EXCEPT !.end = now + Standard[errors]]
    BY <2>1, <2>3, <2>5 DEF Marked, counts, errors, billing
  <2> QED BY <2>4, <2>6, <2>7
<1> HIDE DEF f
<1>7. f \in Entries
  <2>1. errors \in 0 .. Len(Standard) /\ billing \in 0 .. Len(Billing)
    <3>1. Len(Standard) \in Nat /\ Len(Billing) \in Nat
      BY <1>1 DEF Cooldowns
    <3> QED BY <1>3, <3>1
  <2>2. now + Billing[billing] \in Nat /\ now + Standard[errors] \in Nat
    BY <1>1, <1>4
  <2>3. now \in 0 .. MaxTime \cup {Fallback!Never}
    OBVIOUS
  <2> QED BY <1>3, <1>5, <1>6, <2>1, <2>2, <2>3 DEF Entries
<1>8. /\ f.last = now /\ f.errors = errors
      /\ IF reason = "billing"
         THEN f.billing = billing /\ f.disabled = now + Billing[billing] /\ f.end = e.end
         ELSE f.billing = counts.billing /\ f.disabled = e.disabled /\ f.end = now + Standard[errors]
  BY <1>6
<1>9. now \in Nat /\ now # Fallback!Never
  BY <1>1 DEF Fallback!Never
<1>10. f.end >= e.end /\ f.disabled >= e.disabled
  BY <1>2, <1>4, <1>5, <1>8, <1>9
<1>11. /\ f.end <= f.last + Cooldown(Standard, f.errors)
       /\ f.disabled <= f.last + Cooldown(Billing, f.billing)
  BY <1>2, <1>4, <1>5, <1>8, <1>9
<1>12. Bounded(f)
  BY <1>8, <1>9, <1>11 DEF Bounded, Within
<1> QED BY <1>7, <1>10, <1>12 DEF f

LEMMA FbInit == Fallback!Init => FbInv
<1> SUFFICES ASSUME Fallback!Init PROVE FbInv
  OBVIOUS
<1>1. Len(Standard) \in Nat /\ Len(Billing) \in Nat /\ MaxTime \in Nat /\ Len(Chain) \in Nat
  BY CooldownsAre, FallbackAssumed DEF Cooldowns, Fallback!FallbackAssumption
<1>2. Fallback!TypeOK
  BY <1>1 DEF Fallback!Init, Fallback!TypeOK, Fallback!NoEntry, Fallback!NoCall, Fallback!Never
<1>3. \A p \in Fallback!Providers : Bounded(tracker[p])
  BY DEF Fallback!Init, Bounded, Within, Fallback!NoEntry, Fallback!Never
<1> QED BY <1>2, <1>3 DEF Fallback!Init, FbInv, Fallback!AtPc, Fallback!NoCall

\* A step of a call: the call stays one.
Goes(c) ==
  \E pc \in {"idle", "next", "calling"}, idx \in 0 .. Len(Chain) :
    /\ pc # "idle" => idx \in DOMAIN Chain
    /\ call' = [call EXCEPT ![c] = [pc |-> pc, idx |-> idx]]

LEMMA StepGoes ==
  ASSUME FbInv, NEW c \in Callers, Fallback!Execute(c) \/ Fallback!Step(c)
  PROVE  /\ Goes(c)
         /\ Fallback!AtPc(c, "calling") => Fallback!Candidate(c) \in Fallback!Providers
<1>1. /\ call \in [Callers -> [pc : {"idle", "next", "calling"}, idx : 0 .. Len(Chain)]]
      /\ DOMAIN Chain = 1 .. Len(Chain) /\ Len(Chain) \in Nat \ {0}
  BY FallbackAssumed DEF Fallback!FallbackAssumption, FbInv, Fallback!TypeOK
<1>2. PICK i \in 0 .. Len(Chain) : i = call[c].idx
  BY <1>1
<1>3. ~Fallback!AtPc(c, "idle") => i \in DOMAIN Chain
  BY <1>2 DEF FbInv
<1>4. CASE Fallback!Execute(c)
  <2>1. call' = [call EXCEPT ![c] = [pc |-> "next", idx |-> 1]]
    <3>1. [Fallback!NoCall EXCEPT !.pc = "next"] = [pc |-> "next", idx |-> 0]
      BY DEF Fallback!NoCall
    <3>2. [[pc |-> "next", idx |-> 0] EXCEPT !.idx = 1] = [pc |-> "next", idx |-> 1]
      OBVIOUS
    <3> QED BY <1>4, <3>1, <3>2 DEF Fallback!Execute
  <2>2. 1 \in 0 .. Len(Chain) /\ 1 \in DOMAIN Chain
    BY <1>1
  <2> QED BY <1>4, <2>1, <2>2 DEF Goes, Fallback!Execute, Fallback!AtPc
<1>5. CASE Fallback!Try(c)
  <2>1. call' = [call EXCEPT ![c] = [pc |-> "calling", idx |-> i]]
    <3>1. [call[c] EXCEPT !.pc = "calling"] = [pc |-> "calling", idx |-> i]
      BY <1>1, <1>2
    <3> QED BY <1>5, <3>1 DEF Fallback!Try
  <2> QED BY <1>3, <1>5, <2>1 DEF Goes, Fallback!Try, Fallback!AtPc
<1>6. CASE Fallback!AtPc(c, "calling") \/ Fallback!Skip(c)
  <2>1. i \in DOMAIN Chain
    BY <1>3, <1>6 DEF Fallback!AtPc, Fallback!Skip
  <2>2. \/ call' = [call EXCEPT ![c] = [pc |-> "idle", idx |-> 0]]
        \/ i < Len(Chain) /\ call' = [call EXCEPT ![c] = [pc |-> "next", idx |-> i + 1]]
    BY <1>1, <1>2, <1>6 DEF Fallback!Step, Fallback!Execute, Fallback!Skip, Fallback!Try,
       Fallback!FallsBack, Fallback!Aborts, Fallback!Answers, Fallback!Advance, Fallback!NoCall,
       Fallback!AtPc
  <2>3. Goes(c)
    <3>1. /\ 0 \in 0 .. Len(Chain)
          /\ i < Len(Chain) => i + 1 \in DOMAIN Chain /\ i + 1 \in 0 .. Len(Chain)
      BY <1>1, <2>1
    <3> QED BY <2>2, <3>1 DEF Goes
  <2> QED BY <1>2, <2>1, <2>3 DEF Fallback!Candidate, Fallback!Providers
<1> QED BY <1>4, <1>5, <1>6 DEF Fallback!Step, Fallback!FallsBack, Fallback!Aborts,
           Fallback!Answers

LEMMA Moved ==
  ASSUME FbInv, NEW c \in Callers, Goes(c), now' = now, tracker' \in [Fallback!Providers -> Entries]
  PROVE  /\ Fallback!TypeOK'
         /\ \A d \in Callers : ~Fallback!AtPc(d, "idle")' => call'[d].idx \in DOMAIN Chain
<1> DEFINE CallStates == [pc : {"idle", "next", "calling"}, idx : 0 .. Len(Chain)]
<1>1. now \in 0 .. MaxTime /\ call \in [Callers -> CallStates]
  BY DEF FbInv, Fallback!TypeOK
<1>2. PICK pc \in {"idle", "next", "calling"}, idx \in 0 .. Len(Chain) :
        /\ pc # "idle" => idx \in DOMAIN Chain
        /\ call' = [call EXCEPT ![c] = [pc |-> pc, idx |-> idx]]
  BY DEF Goes
<1>3. call' \in [Callers -> CallStates]
  <2>1. [pc |-> pc, idx |-> idx] \in CallStates
    OBVIOUS
  <2> HIDE DEF CallStates
  <2> QED BY <1>1, <1>2, <2>1
<1>4. Fallback!TypeOK'
  BY <1>1, <1>3 DEF Fallback!TypeOK, Entries
<1>5. \A d \in Callers : ~Fallback!AtPc(d, "idle")' => call'[d].idx \in DOMAIN Chain
  BY <1>1, <1>2 DEF FbInv, Fallback!AtPc
<1> QED BY <1>4, <1>5

\* An entry changes to one that keeps the invariant, and no end is earlier or both are gone.
LEMMA Changed ==
  ASSUME FbInv, NEW c \in Callers, Goes(c), now' = now, NEW q \in Fallback!Providers, NEW e \in Entries,
         Bounded(e), tracker' = [tracker EXCEPT ![q] = e],
         \/ e.end = 0 /\ e.disabled = 0
         \/ e.end >= tracker[q].end /\ e.disabled >= tracker[q].disabled
  PROVE  FbInv' /\ Fallback!KeepsBackoff
<1>1. tracker \in [Fallback!Providers -> Entries]
  BY DEF FbInv, Fallback!TypeOK, Entries
<1>2. \A p \in Fallback!Providers : tracker'[p] = IF p = q THEN e ELSE tracker[p]
  BY <1>1
<1>3. \A p \in Fallback!Providers : tracker[p].end \in Nat /\ tracker[p].disabled \in Nat
  BY <1>1 DEF Entries
<1>4. tracker' \in [Fallback!Providers -> Entries]
  BY <1>1
<1>5. Fallback!TypeOK' /\ \A d \in Callers : ~Fallback!AtPc(d, "idle")' => call'[d].idx \in DOMAIN Chain
  BY <1>4, Moved
<1>6. Fallback!KeepsBackoff
  BY <1>2, <1>3 DEF Fallback!KeepsBackoff
<1>7. \A p \in Fallback!Providers : Bounded(tracker[p])'
  BY <1>2 DEF FbInv, Bounded, Within
<1> QED BY <1>5, <1>6, <1>7 DEF FbInv

LEMMA FbNext == FbInv /\ [Fallback!Next]_(Fallback!vars) => FbInv' /\ Fallback!KeepsBackoff
<1> SUFFICES ASSUME FbInv, [Fallback!Next]_(Fallback!vars) PROVE FbInv' /\ Fallback!KeepsBackoff
  OBVIOUS
<1>1. /\ now \in 0 .. MaxTime /\ MaxTime \in Nat
      /\ tracker \in [Fallback!Providers -> Entries] /\ Fallback!TypeOK
  <2>1. MaxTime \in Nat
    BY FallbackAssumed DEF Fallback!FallbackAssumption
  <2> QED BY <2>1 DEF FbInv, Fallback!TypeOK, Entries
<1>2. \A p \in Fallback!Providers : tracker[p].end \in Nat /\ tracker[p].disabled \in Nat
  BY <1>1 DEF Entries
<1>3. ASSUME UNCHANGED tracker PROVE Fallback!KeepsBackoff
  BY <1>2, <1>3 DEF Fallback!KeepsBackoff
<1>4. CASE UNCHANGED Fallback!vars
  <2>1. UNCHANGED <<now, tracker, call>>
    BY <1>4 DEF Fallback!vars
  <2> QED BY <1>3, <2>1 DEF FbInv, Fallback!TypeOK, Fallback!AtPc, Bounded, Within
<1>5. CASE Fallback!Tick
  <2>1. now' \in 0 .. MaxTime /\ now <= now' /\ UNCHANGED <<tracker, call>>
    BY <1>1, <1>5 DEF Fallback!Tick
  <2>2. \A p \in Fallback!Providers : Bounded(tracker[p])'
    <3> SUFFICES ASSUME NEW p \in Fallback!Providers PROVE Bounded(tracker[p])'
      OBVIOUS
    <3>1. Bounded(tracker[p]) /\ tracker[p].last \in Int
      BY <1>1 DEF FbInv, Entries, Fallback!Never
    <3> QED BY <1>1, <2>1, <3>1 DEF Bounded, Within
  <2> QED BY <1>1, <1>3, <2>1, <2>2 DEF FbInv, Fallback!TypeOK, Fallback!AtPc
<1>6. ASSUME NEW c \in Callers, Fallback!Execute(c) \/ Fallback!Skip(c) \/ Fallback!Try(c) \/ Fallback!Aborts(c)
      PROVE  FbInv' /\ Fallback!KeepsBackoff
  <2>1. UNCHANGED <<now, tracker>>
    BY <1>6 DEF Fallback!Execute, Fallback!Skip, Fallback!Try, Fallback!Aborts
  <2>2. Goes(c)
    BY <1>6, StepGoes DEF Fallback!Step
  <2>3. /\ Fallback!TypeOK'
        /\ \A d \in Callers : ~Fallback!AtPc(d, "idle")' => call'[d].idx \in DOMAIN Chain
    BY <1>1, <2>1, <2>2, Moved
  <2> QED BY <1>1, <1>3, <2>1, <2>3 DEF FbInv, Bounded, Within
<1>7. ASSUME NEW c \in Callers, Fallback!FallsBack(c)
      PROVE  FbInv' /\ Fallback!KeepsBackoff
  <2>1. Fallback!Candidate(c) \in Fallback!Providers /\ Goes(c) /\ now' = now
    BY <1>7, StepGoes DEF Fallback!Step, Fallback!FallsBack
  <2>2. PICK reason : Fallback!MarkFailure(Fallback!Candidate(c), reason)
    BY <1>7 DEF Fallback!FallsBack
  <2> DEFINE p == Fallback!Candidate(c)
  <2>3. tracker' = [tracker EXCEPT ![p] = Marked(tracker[p], reason)]
    BY <2>2 DEF Fallback!MarkFailure, Marked
  <2>4. PICK e : e = Marked(tracker[p], reason)
    OBVIOUS
  <2>5. PICK q \in Fallback!Providers : q = p
    BY <2>1
  <2>6. /\ e \in Entries /\ Bounded(e)
        /\ e.end >= tracker[q].end /\ e.disabled >= tracker[q].disabled
    BY <1>1, <2>4, <2>5, MarkedStands DEF FbInv
  <2>7. tracker' = [tracker EXCEPT ![q] = e]
    BY <2>3, <2>4, <2>5
  <2> QED BY <2>1, <2>6, <2>7, Changed
<1>8. ASSUME NEW c \in Callers, Fallback!Answers(c)
      PROVE  FbInv' /\ Fallback!KeepsBackoff
  <2>1. Fallback!Candidate(c) \in Fallback!Providers /\ Goes(c) /\ now' = now
    BY <1>8, StepGoes DEF Fallback!Step, Fallback!Answers
  <2>2. PICK q \in Fallback!Providers : q = Fallback!Candidate(c)
    BY <2>1
  <2>3. PICK e : e = [Fallback!NoEntry EXCEPT !.last = tracker[q].last]
    OBVIOUS
  <2>4. tracker' = [tracker EXCEPT ![q] = e]
    BY <1>8, <2>2, <2>3 DEF Fallback!Answers, Fallback!MarkSuccess
  <2>5. e = [errors |-> 0, billing |-> 0, end |-> 0, disabled |-> 0, last |-> tracker[q].last]
    BY <2>3 DEF Fallback!NoEntry
  <2>6. tracker[q].last \in 0 .. MaxTime \cup {Fallback!Never} /\ tracker[q].last <= now
    BY <1>1 DEF Entries, FbInv, Bounded
  <2>7. 0 \in 0 .. Len(Standard) /\ 0 \in 0 .. Len(Billing)
    BY CooldownsAre DEF Cooldowns
  <2>8. e \in Entries /\ Bounded(e) /\ e.end = 0 /\ e.disabled = 0
    BY <2>5, <2>6, <2>7 DEF Entries, Bounded, Within
  <2> QED BY <2>1, <2>4, <2>8, Changed
<1> QED BY <1>4, <1>5, <1>6, <1>7, <1>8 DEF Fallback!Next, Fallback!Step

-----------------------------------------------------------------------------
\* The model of a session (SessionModel).

Fall == [to : Model!Names, at : Int]
\* The k-th fallback before the latest.
Back(s, k) == s[Len(s) - k]
\* The latest n fallbacks were to one model, each within Window of the one before.
InRow(s, n, target) ==
  /\ n <= Len(s)
  /\ \A k \in 0 .. n - 1 : Back(s, k).to = target
  /\ \A k \in 0 .. n - 2 : Back(s, k).at - Back(s, k + 1).at <= Window

\* The latest fallbacks end with the streak, and with Threshold of them when a model is
\* about to be set.
ModelInv ==
  /\ now \in Int
  /\ falls \in Seq(Fall) /\ Len(falls) <= Threshold
  /\ streak.count \in 0 .. Threshold - 1 /\ streak.at \in Int
  /\ InRow(falls, streak.count, streak.target)
  /\ streak.count > 0 => Back(falls, 0).at = streak.at
  /\ DOMAIN run = {"pc", "model", "retry", "target", "answered"}
  /\ run.pc \in {"idle", "call", "check", "count", "set"}
  /\ run.pc \in {"check", "count", "set"} => run.target \in Model!Names
  /\ run.pc = "set" => Len(falls) = Threshold /\ InRow(falls, Threshold, run.target)

\* The list of the latest n, after one more.
Push(s, x) == LET all == Append(s, x) IN IF Len(all) > Threshold THEN Tail(all) ELSE all

LEMMA Pushed ==
  ASSUME NEW s \in Seq(Fall), NEW x \in Fall, Len(s) <= Threshold, Threshold \in Nat \ {0}
  PROVE  LET t == Push(s, x) IN
         /\ t \in Seq(Fall) /\ Len(t) = IF Len(s) = Threshold THEN Threshold ELSE Len(s) + 1
         /\ Back(t, 0) = x
         /\ \A k \in 1 .. Len(t) - 1 : Back(t, k) = Back(s, k - 1)
<1> DEFINE all == Append(s, x)
<1> SUFFICES ASSUME NEW t, t = IF Len(all) > Threshold THEN Tail(all) ELSE all
             PROVE  /\ t \in Seq(Fall) /\ Len(t) = IF Len(s) = Threshold THEN Threshold ELSE Len(s) + 1
                    /\ Back(t, 0) = x
                    /\ \A k \in 1 .. Len(t) - 1 : Back(t, k) = Back(s, k - 1)
  BY DEF Push
<1>1. /\ Len(s) \in Nat /\ all \in Seq(Fall) /\ Len(all) = Len(s) + 1 /\ all[Len(s) + 1] = x
      /\ \A i \in 1 .. Len(s) : all[i] = s[i]
  OBVIOUS
<1>2. CASE Len(all) > Threshold
  <2>1. all # <<>> /\ t = Tail(all) /\ Len(s) = Threshold
    BY <1>1, <1>2
  <2>2. t \in Seq(Fall) /\ Len(t) = Len(s) /\ \A i \in 1 .. Len(s) : t[i] = all[i + 1]
    <3> HIDE DEF all
    <3> QED BY <1>1, <2>1
  <2> HIDE DEF all
  <2>3. Back(t, 0) = x
    <3>1. Len(s) \in 1 .. Len(s) /\ Len(t) - 0 = Len(s)
      BY <1>1, <2>1, <2>2
    <3> QED BY <1>1, <2>2, <3>1 DEF Back
  <2>4. ASSUME NEW k \in 1 .. Len(t) - 1 PROVE Back(t, k) = Back(s, k - 1)
    <3>1. /\ Len(t) - k \in 1 .. Len(s) /\ (Len(t) - k) + 1 \in 1 .. Len(s)
          /\ (Len(t) - k) + 1 = Len(s) - (k - 1)
      BY <1>1, <2>2
    <3>2. t[Len(t) - k] = all[(Len(t) - k) + 1]
      BY <2>2, <3>1
    <3>3. all[(Len(t) - k) + 1] = s[(Len(t) - k) + 1]
      BY <1>1, <3>1
    <3> QED BY <3>1, <3>2, <3>3 DEF Back
  <2> QED BY <2>1, <2>2, <2>3, <2>4
<1>3. CASE ~(Len(all) > Threshold)
  <2>1. t = all
    BY <1>3
  <2> QED BY <1>1, <1>3, <2>1 DEF Back
<1> QED BY <1>2, <1>3

LEMMA Extends ==
  ASSUME NEW s \in Seq(Fall), NEW x \in Fall, Len(s) <= Threshold,
         NEW t, t = Push(s, x),
         NEW n \in 0 .. Threshold - 1, InRow(s, n, x.to), n > 0 => x.at - Back(s, 0).at <= Window
  PROVE  t \in Seq(Fall) /\ Len(t) <= Threshold /\ Back(t, 0) = x /\ InRow(t, n + 1, x.to)
<1>1. Threshold \in Nat \ {0} /\ Len(s) \in Nat
  BY ModelAssumed DEF Model!SessionModelAssumption
<1>2. /\ t \in Seq(Fall) /\ Len(t) = IF Len(s) = Threshold THEN Threshold ELSE Len(s) + 1
      /\ Back(t, 0) = x /\ \A k \in 1 .. Len(t) - 1 : Back(t, k) = Back(s, k - 1)
  BY <1>1, Pushed
<1>3. n <= Len(s) /\ n + 1 <= Len(t) /\ Len(t) \in Nat /\ n \in Nat
  BY <1>1, <1>2 DEF InRow
<1>4. \A k \in 0 .. n : Back(t, k).to = x.to
  <2> SUFFICES ASSUME NEW k \in 0 .. n PROVE Back(t, k).to = x.to
    OBVIOUS
  <2>1. CASE k = 0
    BY <1>2, <2>1
  <2>2. CASE k > 0
    <3>1. k \in 1 .. Len(t) - 1 /\ k - 1 \in 0 .. n - 1
      BY <1>3, <2>2
    <3> QED BY <1>2, <3>1 DEF InRow
  <2> QED BY <2>1, <2>2
<1>5. \A k \in 0 .. n - 1 : Back(t, k).at - Back(t, k + 1).at <= Window
  <2> SUFFICES ASSUME NEW k \in 0 .. n - 1 PROVE Back(t, k).at - Back(t, k + 1).at <= Window
    OBVIOUS
  <2>1. k + 1 \in 1 .. Len(t) - 1 /\ (k + 1) - 1 = k /\ Back(t, k + 1) = Back(s, k)
    <3>1. k + 1 \in 1 .. Len(t) - 1 /\ (k + 1) - 1 = k
      BY <1>3
    <3> QED BY <1>2, <3>1
  <2>2. CASE k = 0
    BY <1>2, <1>3, <2>1, <2>2
  <2>3. CASE k > 0
    <3>1. k \in 1 .. Len(t) - 1 /\ k - 1 \in 0 .. n - 2 /\ (k - 1) + 1 = k
      BY <1>3, <2>3
    <3> QED BY <1>2, <2>1, <3>1 DEF InRow
  <2> QED BY <2>2, <2>3
<1> QED BY <1>1, <1>2, <1>3, <1>4, <1>5 DEF InRow

LEMMA ModelInit == Model!Init => ModelInv
<1>1. Threshold \in Nat \ {0} /\ <<>> \in Seq(Fall) /\ Len(<<>>) = 0
  BY ModelAssumed DEF Model!SessionModelAssumption
<1> QED BY <1>1 DEF Model!Init, ModelInv, Model!NoStreak, Model!NoCall, InRow, Model!Never

\* The target of a run that exceeds the window is a model.
LEMMA OthersAre ==
  ASSUME NEW m, Model!Others(m) # {}
  PROVE  Models[CHOOSE i \in Model!Others(m) : \A j \in Model!Others(m) : i <= j] \in Model!Names
<1>1. Model!Others(m) \subseteq DOMAIN Models /\ DOMAIN Models \subseteq Nat
  BY ModelAssumed DEF Model!Others, Model!SessionModelAssumption
<1>2. \E i \in Model!Others(m) : \A j \in Model!Others(m) : i <= j
  BY <1>1, Least
<1> QED BY <1>1, <1>2 DEF Model!Names

LEMMA ModelNext == ModelInv /\ [Model!Next]_(Model!vars) => ModelInv'
<1> SUFFICES ASSUME ModelInv, [Model!Next]_(Model!vars) PROVE ModelInv'
  OBVIOUS
<1>1. Threshold \in Nat \ {0} /\ Window \in Nat
  BY ModelAssumed DEF Model!SessionModelAssumption
<1>2. ASSUME UNCHANGED <<streak, falls>>, now' \in Int,
             DOMAIN run' = DOMAIN run \/ run' = run, run'.pc \in {"idle", "call"} \/ run' = run
      PROVE  ModelInv'
  BY <1>2 DEF ModelInv, InRow
<1>13. ASSUME UNCHANGED <<now, streak, falls>>, DOMAIN run' = DOMAIN run, run'.pc \in {"check", "count"},
              run'.target \in Model!Names
       PROVE  ModelInv'
  BY <1>13 DEF ModelInv, InRow
<1>3. \A m, r : /\ Model!Calling(m, r).pc = "call" /\ Model!Called(m).pc = "idle"
                /\ DOMAIN Model!Calling(m, r) = {"pc", "model", "retry", "target", "answered"}
                /\ DOMAIN Model!Called(m) = {"pc", "model", "retry", "target", "answered"}
  BY DEF Model!Calling, Model!Called, Model!NoCall
<1>4. ASSUME NEW m, Model!Proceed(m)
      PROVE  run'.pc \in {"idle", "call"} /\ DOMAIN run' = {"pc", "model", "retry", "target", "answered"}
  BY <1>3, <1>4 DEF Model!Proceed
<1>5. CASE UNCHANGED Model!vars \/ Model!Tick \/ Model!UserOverride \/ Model!ApiSet \/ Model!ApiRead
  BY <1>2, <1>5 DEF ModelInv, Model!vars, Model!Tick, Model!UserOverride, Model!ApiSet,
     Model!ApiRead
<1>6. CASE Model!BeginRun \/ Model!NextCall \/ Model!Fails
  BY <1>2, <1>3, <1>6 DEF ModelInv, Model!BeginRun, Model!NextCall, Model!Fails
<1>7. CASE Model!WindowExceeded
  <2>1. PICK m \in Model!Names : run' = [run EXCEPT !.pc = "check", !.target = m]
    BY <1>7, OthersAre DEF Model!WindowExceeded
  <2>2. run'.pc = "check" /\ run'.target = m /\ DOMAIN run' = DOMAIN run
    BY <2>1 DEF ModelInv
  <2> QED BY <1>7, <1>13, <2>1, <2>2 DEF Model!WindowExceeded
<1>8. CASE Model!Answers
  <2>1. streak'.count = 0 /\ streak'.at \in Int /\ falls' = <<>> /\ falls' \in Seq(Fall) /\ Len(falls') = 0
    BY <1>8 DEF Model!Answers, Model!NoStreak, Model!Never
  <2> QED BY <1>1, <1>3, <1>8, <2>1 DEF Model!Answers, ModelInv, InRow
<1>9. CASE Model!FallsBack
  <2>1. PICK m \in Model!Names : run' = [run EXCEPT !.pc = "check", !.target = m, !.answered = TRUE]
    BY <1>9 DEF Model!FallsBack
  <2>2. run'.pc = "check" /\ run'.target = m /\ DOMAIN run' = DOMAIN run
    BY <2>1 DEF ModelInv
  <2> QED BY <1>9, <1>13, <2>1, <2>2 DEF Model!FallsBack
<1>10. CASE Model!Check
  <2>1. CASE Model!InForce
    BY <1>2, <1>4, <1>10, <2>1 DEF Model!Check, ModelInv
  <2>2. CASE ~Model!InForce
    <3>1. run' = [run EXCEPT !.pc = "count"] /\ run.target \in Model!Names
      BY <1>10, <2>2 DEF Model!Check, ModelInv
    <3>2. run'.pc = "count" /\ run'.target = run.target /\ DOMAIN run' = DOMAIN run
      BY <3>1 DEF ModelInv
    <3> QED BY <1>10, <1>13, <3>1, <3>2 DEF Model!Check
  <2> QED BY <2>1, <2>2
<1>11. CASE Model!Count
  <2> DEFINE x == [to |-> run.target, at |-> now]
  <2>1. x \in Fall /\ x.to = run.target /\ x.at = now /\ falls \in Seq(Fall) /\ Len(falls) <= Threshold
    BY <1>11 DEF Model!Count, ModelInv, Fall
  <2>2. PICK n \in 0 .. Threshold - 1 :
          /\ Model!Extended = [target |-> run.target, count |-> n + 1, at |-> now]
          /\ InRow(falls, n, run.target)
          /\ n > 0 => now - Back(falls, 0).at <= Window
    <3>1. CASE streak.target = run.target /\ now - streak.at <= Window
      BY <3>1 DEF Model!Extended, ModelInv
    <3>2. CASE ~(streak.target = run.target /\ now - streak.at <= Window)
      <4>1. Model!Extended = [target |-> run.target, count |-> 0 + 1, at |-> now]
        BY <3>2 DEF Model!Extended, Model!NoStreak
      <4>2. InRow(falls, 0, run.target) /\ 0 \in 0 .. Threshold - 1
        BY <1>1, <2>1 DEF InRow
      <4> QED BY <4>1, <4>2
    <3> QED BY <3>1, <3>2
  <2>3. PICK t : /\ t = falls'
                 /\ t = Push(falls, x)
    BY <1>11 DEF Model!Count, Push
  <2>4. t \in Seq(Fall) /\ Len(t) <= Threshold /\ Back(t, 0) = x /\ InRow(t, n + 1, run.target)
    <3>1. PICK s : s = falls
      OBVIOUS
    <3>2. PICK y : y = x
      OBVIOUS
    <3> HIDE DEF x
    <3> QED BY <1>1, <2>1, <2>2, <2>3, <3>1, <3>2, Extends
  <2>5. CASE n + 1 >= Threshold
    <3>1. n + 1 = Threshold /\ Len(t) = Threshold
      BY <1>1, <2>4, <2>5 DEF InRow
    <3>2. streak' = Model!NoStreak /\ run' = [run EXCEPT !.pc = "set"] /\ now' = now
      BY <1>11, <2>2, <2>5 DEF Model!Count
    <3>3. /\ run'.pc = "set"
          /\ run'.target = run.target
          /\ run.target \in Model!Names
          /\ DOMAIN run' = DOMAIN run
      BY <1>11, <3>2 DEF ModelInv, Model!Count
    <3>4. streak'.count = 0 /\ streak'.at \in Int
      BY <3>2 DEF Model!NoStreak, Model!Never
    <3>5. InRow(falls, 0, streak.target)'
      BY <2>3, <2>4 DEF InRow
    <3> QED BY <1>1, <2>3, <2>4, <3>1, <3>2, <3>3, <3>4, <3>5 DEF ModelInv
  <2>6. CASE n + 1 < Threshold
    <3>1. /\ streak' = [target |-> run.target, count |-> n + 1, at |-> now]
          /\ Model!Proceed(run.model)
          /\ now' = now
      BY <1>1, <1>11, <2>2, <2>6 DEF Model!Count
    <3>2. streak'.target = run.target /\ streak'.count = n + 1 /\ streak'.at = now
      BY <3>1
    <3>3. InRow(falls, streak.count, streak.target)' /\ Back(falls, 0)'.at = now
      BY <2>1, <2>3, <2>4, <3>2
    <3> QED BY <1>1, <1>4, <2>3, <2>4, <2>6, <3>1, <3>2, <3>3 DEF ModelInv
  <2> QED BY <1>1, <2>5, <2>6
<1>12. CASE Model!Downgrade
  BY <1>2, <1>4, <1>12 DEF Model!Downgrade, ModelInv
<1> QED BY <1>5, <1>6, <1>7, <1>8, <1>9, <1>10, <1>11, <1>12 DEF Model!Next, Model!Step

\* The row of the latest Threshold fallbacks, told from the first.
LEMMA ModelMeans == ModelInv => Model!DowngradeEarned
<1> SUFFICES ASSUME ModelInv, run.pc = "set" PROVE Model!DowngradeEarned
  BY DEF Model!DowngradeEarned
<1>1. /\ Threshold \in Nat \ {0} /\ Len(falls) = Threshold /\ DOMAIN falls = 1 .. Threshold
      /\ InRow(falls, Threshold, run.target)
  BY ModelAssumed DEF ModelInv, Model!SessionModelAssumption
<1>2. ASSUME NEW i \in 1 .. Threshold PROVE falls[i].to = run.target
  <2>1. Threshold - i \in 0 .. Threshold - 1 /\ Threshold - (Threshold - i) = i
    BY <1>1
  <2> QED BY <1>1, <2>1 DEF InRow, Back
<1>3. ASSUME NEW i \in 1 .. Threshold - 1 PROVE falls[i + 1].at - falls[i].at <= Window
  <2>1. /\ (Threshold - 1) - i \in 0 .. Threshold - 2 /\ Threshold - ((Threshold - 1) - i) = i + 1
        /\ Threshold - (((Threshold - 1) - i) + 1) = i
    BY <1>1
  <2> QED BY <1>1, <2>1 DEF InRow, Back
<1> QED BY <1>1, <1>2, <1>3 DEF Model!DowngradeEarned

-----------------------------------------------------------------------------
\* The plan mode of a session (PlanMode).

\* What is saved is what the user was told, until a save fails (lag).
PlanInv ==
  /\ file \in Plan!States /\ wish \in Plan!States /\ lag \in BOOLEAN
  /\ ~lag => file = wish
  /\ Plan!ApprovedOnly

\* The run that begins carries what the user was told until then.
LEMMA RunBegins ==
  ASSUME NEW t
  PROVE  /\ \A b : LET r == [Plan!Run(t) EXCEPT !.prompted = b] IN
              ~r.approved /\ r.prompted = b /\ r.enabled = cfg.enabled /\ r.told = wish /\ r.lag = lag
         /\ LET r == [Plan!Run(t) EXCEPT !.approved = TRUE] IN
              r.approved /\ ~r.prompted /\ r.task = t /\ r.told = wish /\ r.lag = lag
         /\ LET r == [Plan!Run(t) EXCEPT !.resumed = TRUE] IN ~r.approved /\ r.resumed
<1>1. /\ Plan!Run(t).task = t /\ Plan!Run(t).enabled = cfg.enabled
      /\ Plan!Run(t).told = wish /\ Plan!Run(t).lag = lag /\ Plan!Run(t).approved = FALSE
      /\ Plan!Run(t).prompted = FALSE
      /\ DOMAIN Plan!Run(t) = {"pc", "task", "prompted", "approved", "resumed", "acted", "enabled",
                               "told", "lag"}
  BY DEF Plan!Run, Plan!Idle
<1> HIDE DEF Plan!Run
<1> QED BY <1>1

\* What is saved is what the user was told, or it lags.
LEMMA Saved ==
  ASSUME PlanInv, NEW s \in Plan!States, Plan!Save(s), wish' = s, s.task # Plan!NoTask => s.mode = "plan"
  PROVE  /\ file' \in Plan!States /\ wish' \in Plan!States /\ lag' \in BOOLEAN
         /\ ~lag' => file' = wish'
         /\ file'.task # Plan!NoTask => file'.mode = "plan"
BY DEF PlanInv, Plan!Save, Plan!ApprovedOnly

LEMMA PlanInit == Plan!Init => PlanInv
<1>1. Plan!NoFile \in Plan!States /\ Plan!NoFile.task = Plan!NoTask /\ Plan!Idle.pc = "idle"
  BY DEF Plan!NoFile, Plan!States, Plan!Idle
<1> QED BY <1>1 DEF Plan!Init, PlanInv, Plan!ApprovedOnly

LEMMA PlanNext == PlanInv /\ [Plan!Next]_(Plan!vars) => PlanInv'
<1> SUFFICES ASSUME PlanInv, [Plan!Next]_(Plan!vars) PROVE PlanInv'
  OBVIOUS
<1>1. file \in Plan!States /\ wish \in Plan!States /\ (~lag => file = wish) /\ lag \in BOOLEAN
  BY DEF PlanInv
<1>2. \A t \in Requests \cup {Plan!NoTask} : Plan!Planning(t) \in Plan!States /\ Plan!Planning(t).mode = "plan"
  BY DEF Plan!Planning, Plan!States
<1>3. Plan!Running \in Plan!States /\ Plan!Running.task = Plan!NoTask
  BY DEF Plan!Running, Plan!States
<1>4. CASE UNCHANGED Plan!vars
  BY <1>4 DEF PlanInv, Plan!ApprovedOnly, Plan!vars
<1>5. ASSUME NEW t \in Requests \cup {Plan!NoTask}, Plan!Message(t) PROVE PlanInv'
  <2> DEFINE plan == cfg.enabled /\ Plan!ForMessage.mode = "plan"
  <2>1. PICK b : b = plan /\ turn' = [Plan!Run(t) EXCEPT !.prompted = b]
    BY <1>5 DEF Plan!Message
  <2>2. /\ ~turn'.approved /\ turn'.prompted = b /\ turn'.enabled = cfg.enabled
        /\ turn'.told = wish /\ turn'.lag = lag
    BY <2>1, RunBegins
  <2>3. \/ wish' = Plan!Planning(t) /\ Plan!Save(Plan!Planning(t))
        \/ UNCHANGED <<file, wish, lag, failures>>
    BY <1>5 DEF Plan!Message
  <2>4. /\ file' \in Plan!States /\ wish' \in Plan!States /\ lag' \in BOOLEAN
        /\ ~lag' => file' = wish'
        /\ file'.task # Plan!NoTask => file'.mode = "plan"
    BY <1>1, <1>2, <2>3, Saved DEF PlanInv, Plan!ApprovedOnly
  <2>5. ~lag /\ wish.mode = "plan" => Plan!ForMessage.mode = "plan"
    BY <1>1 DEF Plan!ForMessage, Plan!Loaded, Plan!NoFile
  <2>6. ~lag => b \/ wish.mode # "plan" \/ ~cfg.enabled
    BY <2>1, <2>5
  <2> QED BY <2>2, <2>4, <2>6 DEF PlanInv, Plan!ApprovedOnly
<1>6. ASSUME NEW t \in Requests \cup {Plan!NoTask}, Plan!Plan(t) PROVE PlanInv'
  <2>1. PICK pending \in Requests \cup {Plan!NoTask} : wish' = Plan!Planning(pending) /\ Plan!Save(Plan!Planning(pending))
    BY <1>1, <1>6 DEF Plan!Plan, Plan!ForCommand, Plan!Loaded, Plan!States
  <2> QED BY <1>2, <1>6, <2>1, Saved DEF Plan!Plan, PlanInv, Plan!ApprovedOnly
<1>7. CASE Plan!Approve
  <2>1. /\ file' \in Plan!States /\ wish' \in Plan!States /\ lag' \in BOOLEAN
        /\ ~lag' => file' = wish'
        /\ file'.task # Plan!NoTask => file'.mode = "plan"
    BY <1>3, <1>7, Saved DEF Plan!Approve
  <2>2. CASE Plan!ForCommand.task = Plan!NoTask
    BY <1>7, <2>1, <2>2 DEF Plan!Approve, Plan!Approved, Plan!Idle, PlanInv, Plan!ApprovedOnly
  <2>3. CASE Plan!ForCommand.task # Plan!NoTask
    <3>1. turn' = [Plan!Run(Plan!ForCommand.task) EXCEPT !.approved = TRUE] /\ Plan!ForCommand.mode = "plan"
      BY <1>7, <2>3 DEF Plan!Approve, Plan!Approved
    <3>2. turn'.approved /\ ~turn'.prompted /\ turn'.task = Plan!ForCommand.task /\ turn'.told = wish /\ turn'.lag = lag
      BY <3>1, RunBegins
    <3>3. Plan!ForCommand = file
      BY <2>3 DEF Plan!ForCommand, Plan!Loaded
    <3>4. file = Plan!Planning(Plan!ForCommand.task)
      BY <1>1, <3>1, <3>3 DEF Plan!States, Plan!Planning
    <3> QED BY <1>1, <2>1, <3>2, <3>4 DEF PlanInv, Plan!ApprovedOnly
  <2> QED BY <2>2, <2>3
<1>8. CASE Plan!Cancel
  BY <1>3, <1>8, Saved DEF Plan!Cancel, PlanInv, Plan!ApprovedOnly
<1>9. CASE Plan!Done
  BY <1>9 DEF Plan!Done, Plan!Idle, PlanInv, Plan!ApprovedOnly
<1>10. CASE Plan!Toggle
  BY <1>10 DEF Plan!Toggle, PlanInv, Plan!ApprovedOnly
<1>11. CASE Plan!Act
  <2>1. /\ turn'.pc = turn.pc /\ turn'.approved = turn.approved /\ turn'.resumed = turn.resumed
        /\ turn'.prompted = turn.prompted /\ turn'.told = turn.told /\ turn'.lag = turn.lag
        /\ turn'.task = turn.task /\ turn'.enabled = turn.enabled
    BY <1>11 DEF Plan!Act
  <2> QED BY <1>11, <2>1 DEF Plan!Act, PlanInv, Plan!ApprovedOnly
<1>12. CASE Plan!Resume
  <2>1. ~turn'.approved /\ turn'.resumed
    BY <1>12, RunBegins DEF Plan!Resume
  <2> QED BY <1>12, <2>1 DEF Plan!Resume, PlanInv, Plan!ApprovedOnly
<1> QED BY <1>4, <1>5, <1>6, <1>7, <1>8, <1>9, <1>10, <1>11, <1>12 DEF Plan!Next

-----------------------------------------------------------------------------
\* The tool calls of a response (ToolBatch).

\* Calls that were collected and have not ended.
Waiting == batch \cup jobs \cup active

\* They are from before pos, and all others from there have ended.
InOrder ==
  /\ Batch!Flushing => batch = {}
  /\ jobs \cap active = {}
  /\ Waiting \subseteq 1 .. pos - 1
  /\ \A j \in Batch!Index : done[j] = "none" <=> j >= pos \/ j \in Waiting

\* Only parallel calls are collected, and another runs alone, as the last before pos.
BatchInv ==
  /\ Batch!TypeOK
  /\ InOrder
  /\ \A j \in batch \cup jobs : Batch!Parallel(j)
  /\ \A i \in active : ~Batch!Parallel(i) => i = pos - 1 /\ active = {i} /\ jobs = {}
  /\ MaxConcurrency > 0 => Cardinality(active) <= MaxConcurrency

LEMMA Indices == Batch!Index = 1 .. Len(ToolCalls) /\ Len(ToolCalls) \in Nat /\ IsFiniteSet(Batch!Index)
  <1>1. ToolCalls \in Seq(STRING)
    BY BatchAssumed DEF Batch!BatchAssumption
  <1>2. Batch!Index = 1 .. Len(ToolCalls) /\ Len(ToolCalls) \in Nat
    BY <1>1 DEF Batch!Index
  <1> QED
    BY <1>2, FS_Interval

\* The worker's next call is one of the batch.
LEMMA FirstIsOne ==
  ASSUME NEW S \in SUBSET Batch!Index, S # {}
  PROVE  (CHOOSE x \in S : \A y \in S : x <= y) \in S
<1>1. S \subseteq Nat
  BY Indices
<1>2. \E x \in S : \A y \in S : x <= y
  BY <1>1, Least
<1> QED BY <1>2

LEMMA BatchInit == Batch!Init => BatchInv
<1> SUFFICES ASSUME Batch!Init PROVE BatchInv
  OBVIOUS
<1>1. Batch!TypeOK
  BY Indices DEF Batch!Init, Batch!TypeOK, Batch!EstopStates
<1>2. InOrder
  BY Indices DEF Batch!Init, InOrder, Waiting, Batch!Flushing
<1> QED BY <1>1, <1>2, BatchAssumed, FS_EmptySet DEF Batch!Init, BatchInv, Batch!BatchAssumption

LEMMA BatchNext == BatchInv /\ [Batch!Next]_(Batch!vars) => BatchInv'
<1> SUFFICES ASSUME BatchInv, [Batch!Next]_(Batch!vars) PROVE BatchInv'
  OBVIOUS
<1>1. /\ MaxConcurrency \in Nat
      /\ Batch!Index = 1 .. Len(ToolCalls)
      /\ Len(ToolCalls) \in Nat
      /\ IsFiniteSet(Batch!Index)
  BY BatchAssumed, Indices DEF Batch!BatchAssumption
<1>2. Batch!TypeOK /\ InOrder
  BY DEF BatchInv
<1>3. IsFiniteSet(active) /\ Cardinality(active) \in Nat
  BY <1>1, <1>2, FS_Subset, FS_CardinalityType DEF Batch!TypeOK
\* A call begins to run, or is denied, when nothing else is to be told of it.
<1>4. ASSUME NEW i \in Batch!Index \ active, Batch!Begin(i)
      PROVE  /\ active' \in {active, active \cup {i}}
             /\ done' \in [Batch!Index -> {"none", "ran", "denied"}]
             /\ \A j \in Batch!Index \ {i} : done'[j] = done[j]
             /\ i \in active' => done' = done
             /\ i \notin active' => done'[i] = "denied" /\ active' = active
             /\ IsFiniteSet(active') /\ Cardinality(active') \in Nat
             /\ Cardinality(active') <= Cardinality(active) + 1
  <2>1. \/ active' = active \cup {i} /\ done' = done
        \/ done' = [done EXCEPT ![i] = "denied"] /\ active' = active
    BY <1>4 DEF Batch!Begin
  <2>2. done \in [Batch!Index -> {"none", "ran", "denied"}]
    BY <1>2 DEF Batch!TypeOK
  <2>3. /\ IsFiniteSet(active \cup {i}) /\ Cardinality(active \cup {i}) \in Nat
        /\ Cardinality(active \cup {i}) <= Cardinality(active) + 1
    BY <1>3, FS_AddElement
  <2> QED BY <2>1, <2>2, <2>3, <1>3
<1>5. CASE UNCHANGED Batch!vars
  BY <1>2, <1>5 DEF Batch!vars, BatchInv, Batch!TypeOK, InOrder, Waiting, Batch!Flushing,
     Batch!Parallel
<1>6. CASE Batch!Estop
  BY <1>2, <1>6 DEF Batch!Estop, BatchInv, Batch!TypeOK, InOrder, Waiting, Batch!Flushing,
     Batch!Parallel
<1>7. CASE Batch!Collect
  <2>1. /\ pos \in Batch!Index /\ jobs = {} /\ active = {} /\ Batch!Parallel(pos)
        /\ batch' = batch \cup {pos} /\ pos' = pos + 1
        /\ UNCHANGED <<opts, estop, jobs, active, done>>
    BY <1>7 DEF Batch!Collect, Batch!Todo, Batch!Flushing
  <2>2. Batch!TypeOK'
    BY <1>1, <1>2, <2>1 DEF Batch!TypeOK
  <2>3. InOrder'
    BY <1>1, <1>2, <2>1 DEF Batch!TypeOK, InOrder, Waiting, Batch!Flushing
  <2> QED BY <2>1, <2>2, <2>3 DEF BatchInv, Batch!Parallel
<1>8. CASE Batch!Flush
  <2>1. /\ jobs = {} /\ active = {} /\ jobs' = batch /\ batch' = {}
        /\ UNCHANGED <<opts, estop, pos, active, done>>
    BY <1>8 DEF Batch!Flush, Batch!Flushing
  <2>2. Batch!TypeOK'
    BY <1>2, <2>1 DEF Batch!TypeOK
  <2>3. InOrder'
    BY <1>2, <2>1 DEF InOrder, Waiting, Batch!Flushing
  <2> QED BY <2>1, <2>2, <2>3 DEF BatchInv, Batch!Parallel
<1>9. CASE Batch!RunParallel
  <2>1. PICK i \in jobs : jobs' = jobs \ {i} /\ Batch!Begin(i)
    BY <1>2, <1>9, FirstIsOne DEF Batch!RunParallel, Batch!TypeOK
  <2>2. /\ i \in Batch!Index \ active /\ Batch!Parallel(i) /\ batch = {} /\ Cardinality(active) < Batch!Workers
        /\ UNCHANGED <<opts, estop, pos, batch>>
    BY <1>2, <1>9, <2>1, OneCardinality DEF Batch!RunParallel, BatchInv, Batch!TypeOK, InOrder,
       Batch!Flushing
  <2>3. Batch!TypeOK'
    BY <1>2, <1>4, <2>1, <2>2 DEF Batch!TypeOK
  <2>4. InOrder'
    BY <1>1, <1>2, <1>4, <2>1, <2>2 DEF Batch!TypeOK, InOrder, Waiting, Batch!Flushing
  <2>5. MaxConcurrency > 0 => Cardinality(active') <= MaxConcurrency
    <3>1. /\ MaxConcurrency > 0 => Cardinality(active) < MaxConcurrency
          /\ Cardinality(active') \in Nat /\ Cardinality(active') <= Cardinality(active) + 1
      BY <1>1, <1>4, <2>1, <2>2 DEF Batch!Workers
    <3> QED BY <1>1, <1>3, <3>1
  <2>6. \A j \in active : Batch!Parallel(j)
    BY <2>1 DEF BatchInv
  <2> QED BY <1>4, <2>1, <2>2, <2>3, <2>4, <2>5, <2>6 DEF BatchInv, Batch!Parallel
<1>10. CASE Batch!RunAlone
  <2>1. /\ pos \in Batch!Index /\ jobs = {} /\ active = {} /\ batch = {} /\ Batch!Begin(pos)
        /\ pos' = pos + 1 /\ UNCHANGED <<opts, estop, batch, jobs>>
    BY <1>10 DEF Batch!RunAlone, Batch!Todo, Batch!Flushing
  <2>2. pos \in Batch!Index \ active
    BY <2>1
  <2>3. Batch!TypeOK'
    BY <1>1, <1>2, <1>4, <2>1, <2>2 DEF Batch!TypeOK
  <2>4. InOrder'
    BY <1>1, <1>2, <1>4, <2>1, <2>2 DEF Batch!TypeOK, InOrder, Waiting, Batch!Flushing
  <2>5. MaxConcurrency > 0 => Cardinality(active') <= MaxConcurrency
    BY <1>1, <1>4, <2>1, <2>2, FS_EmptySet
  <2>6. active' \in {{}, {pos}}
    BY <1>4, <2>1, <2>2
  <2> QED BY <1>1, <2>1, <2>3, <2>4, <2>5, <2>6 DEF BatchInv, Batch!Parallel
<1>11. ASSUME NEW i \in Batch!Index, Batch!Finish(i) PROVE BatchInv'
  <2>1. /\ i \in active /\ active' = active \ {i} /\ done' = [done EXCEPT ![i] = "ran"]
        /\ UNCHANGED <<opts, estop, pos, batch, jobs>> /\ batch = {}
    BY <1>2, <1>11 DEF Batch!Finish, InOrder, Batch!Flushing
  <2>2. Batch!TypeOK'
    BY <1>2, <2>1 DEF Batch!TypeOK
  <2>3. InOrder'
    BY <1>1, <1>2, <2>1 DEF Batch!TypeOK, InOrder, Waiting, Batch!Flushing
  <2>4. Cardinality(active') <= Cardinality(active) /\ Cardinality(active') \in Nat
    BY <1>3, <2>1, FS_Subset, FS_CardinalityType
  <2>5. MaxConcurrency > 0 => Cardinality(active') <= MaxConcurrency
    BY <1>1, <1>3, <2>4 DEF BatchInv
  <2> QED BY <2>1, <2>2, <2>3, <2>5 DEF BatchInv, Batch!Parallel
<1> QED BY <1>5, <1>6, <1>7, <1>8, <1>9, <1>10, <1>11 DEF Batch!Next, Batch!Step

LEMMA BatchMeans == BatchInv => Batch!OneAtATime
<1> SUFFICES ASSUME BatchInv, NEW i \in active, ~Batch!Parallel(i), NEW j \in Batch!Index
             PROVE  (done[j] = "none") = (j >= i)
  BY OneCardinality DEF BatchInv, Batch!OneAtATime
<1>1. i = pos - 1 /\ active = {i} /\ jobs = {} /\ batch = {}
  BY DEF BatchInv, InOrder, Batch!Flushing
<1>2. done[j] = "none" <=> j >= pos \/ j = i
  BY <1>1 DEF BatchInv, InOrder, Waiting
<1>3. pos \in Nat /\ j \in Nat
  BY Indices DEF BatchInv, Batch!TypeOK
<1> QED BY <1>1, <1>2, <1>3

-----------------------------------------------------------------------------
\* The files that messages bring (MediaStore).

\* The maps of the store tell the same of every reference.
MapsAgree ==
  /\ \A r \in Refs : r \in Media!Live <=> refToScope[r] # Media!NoScope
  /\ \A s \in Scopes : scopeToRefs[s] = {r \in Refs : refToScope[r] = s}

\* Somebody is still to store or to remove the file.
Accounted(p) ==
  \/ p \in fresh
  \/ \E r \in Media!Live : refs[r].path = p
  \/ \E w \in Media!Removers : p \in removing[w]

\* It is there, and nobody is about to remove it.
Kept(p) == p \in files /\ \A w \in Media!Removers : p \notin removing[w]

\* A path that was downloaded once belongs to its download, then to its one reference,
\* then to the one that removes it.
Owned(p) ==
  /\ p \in fresh => Kept(p) /\ \A r \in Media!Live : refs[r].path # p
  /\ \A r \in Media!Live : refs[r].path = p => Kept(p) /\ \A q \in Media!Live : refs[q].path = p => q = r

\* No file is forgotten, and one of a single use has one owner.
MediaInv ==
  /\ Media!TypeOK
  /\ MapsAgree
  /\ \A p \in files : Accounted(p)
  /\ \A p \in Paths : uses[p] <= 1 => Owned(p)
  /\ \A p \in Paths : uses[p] = 0 => ~Accounted(p)

LEMMA MediaInit == Media!Init => MediaInv
BY MediaAssumed DEF Media!Init, MediaInv, Media!TypeOK, MapsAgree, Accounted, Owned, Media!Live,
   Media!NoScope, Media!MediaAssumption, Media!Removers

LEMMA MediaMeans == MediaInv => Media!FilesFollowRefs
BY DEF MediaInv, Media!TypeOK, Media!FilesFollowRefs, MapsAgree, Accounted, Owned, Kept,
   Media!PathsOf

\* The references gone, their paths are to be removed.
LEMMA Forgets ==
  ASSUME MediaInv, NEW gone \in SUBSET Media!Live, NEW w \in Media!Removers, Media!ForgetAll(gone),
         removing[w] = {}, removing' = [removing EXCEPT ![w] = Media!PathsOf(gone)],
         UNCHANGED <<now, files, fresh, uses>>
  PROVE  MediaInv'
<1>1. Media!TypeOK /\ MapsAgree /\ Media!NoScope \notin Scopes /\ gone \subseteq Refs
  BY MediaAssumed DEF MediaInv, Media!MediaAssumption, Media!TypeOK
<1>2. /\ Media!Live' = Media!Live \ gone
      /\ \A r \in Media!Live \ gone : refs'[r] = refs[r]
      /\ refToScope' = [r \in Refs |-> IF r \in gone THEN Media!NoScope ELSE refToScope[r]]
      /\ scopeToRefs' = [s \in Scopes |-> scopeToRefs[s] \ gone]
  BY DEF Media!ForgetAll, Media!Forget, Media!Live, Media!Restrict
<1>3. Media!PathsOf(gone) \subseteq Paths
  BY <1>1 DEF Media!PathsOf, Media!TypeOK
<1>4. Media!TypeOK'
  BY <1>1, <1>2, <1>3 DEF Media!TypeOK
<1>5. MapsAgree'
  BY <1>1, <1>2 DEF MapsAgree, Media!TypeOK
<1>6. \A v \in Media!Removers, p \in Paths :
        p \in removing'[v] <=> IF v = w THEN \E r \in gone : refs[r].path = p ELSE p \in removing[v]
  BY <1>1 DEF Media!TypeOK, Media!PathsOf
<1>7. \A p \in Paths : Accounted(p) <=> Accounted(p)'
  BY <1>1, <1>2, <1>6 DEF Accounted, Media!TypeOK
<1>8. ASSUME NEW p \in Paths, uses'[p] <= 1 PROVE Owned(p)'
  <2>1. Owned(p)
    BY <1>8 DEF MediaInv
  <2>2. ASSUME Kept(p), \A r \in gone : refs[r].path # p PROVE Kept(p)'
    BY <1>6, <2>2 DEF Kept
  <2> QED BY <1>2, <2>1, <2>2 DEF Owned
<1> QED BY <1>1, <1>4, <1>5, <1>7, <1>8 DEF MediaInv, Media!TypeOK

LEMMA MediaNext == MediaInv /\ [Media!Next]_(Media!vars) => MediaInv'
<1> SUFFICES ASSUME MediaInv, [Media!Next]_(Media!vars) PROVE MediaInv'
  OBVIOUS
<1>1. Media!TypeOK /\ MapsAgree /\ Media!NoScope \notin Scopes /\ {MaxAge, MaxTime} \subseteq Nat
  BY MediaAssumed DEF MediaInv, Media!MediaAssumption
<1>2. CASE UNCHANGED Media!vars
  BY <1>2 DEF Media!vars, Media!maps, MediaInv, Media!TypeOK, MapsAgree, Accounted, Owned, Kept,
     Media!Live
<1>3. CASE Media!Tick
  BY <1>1, <1>3 DEF Media!Tick, Media!maps, MediaInv, Media!TypeOK, MapsAgree, Accounted, Owned,
     Kept, Media!Live
<1>4. ASSUME NEW p \in Paths, Media!Download(p) PROVE MediaInv'
  <2>1. /\ p \notin fresh /\ uses[p] \in 0 .. 1
        /\ files' = files \cup {p} /\ fresh' = fresh \cup {p} /\ uses' = [uses EXCEPT ![p] = uses[p] + 1]
        /\ UNCHANGED <<now, refs, scopeToRefs, refToScope, removing>>
    BY <1>1, <1>4 DEF Media!Download, Media!maps, Media!TypeOK
  <2>2. Media!TypeOK'
    BY <1>1, <2>1 DEF Media!TypeOK, Media!Live
  <2>3. MapsAgree'
    BY <1>1, <2>1 DEF MapsAgree, Media!Live
  <2>4. \A q \in Paths : Accounted(q)' <=> q = p \/ Accounted(q)
    BY <2>1 DEF Accounted, Media!Live
  <2>5. \A q \in Paths \ {p} : uses'[q] = uses[q] /\ (Owned(q) => Owned(q)')
    BY <1>1, <2>1 DEF Owned, Kept, Media!Live, Media!TypeOK
  <2>6. uses'[p] # 0
    BY <1>1, <2>1 DEF Media!TypeOK
  <2>7. ASSUME uses'[p] <= 1 PROVE Owned(p)'
    <3>1. ~Accounted(p)
      BY <1>1, <2>1, <2>7 DEF MediaInv, Media!TypeOK
    <3> QED BY <2>1, <3>1 DEF Accounted, Owned, Kept, Media!Live
  <2>8. \A q \in files' : q = p \/ q \in files
    BY <2>1
  <2> QED BY <1>1, <2>2, <2>3, <2>4, <2>5, <2>6, <2>7, <2>8 DEF MediaInv, Media!TypeOK
<1>5. ASSUME NEW p \in Paths, Media!StoreFails(p) PROVE MediaInv'
  BY <1>1, <1>5 DEF Media!StoreFails, Media!maps, MediaInv, Media!TypeOK, MapsAgree, Accounted,
     Owned, Kept, Media!Live
<1>6. ASSUME NEW p \in Paths, NEW r \in Refs, NEW s \in Scopes, Media!Store(p, r, s) PROVE MediaInv'
  <2>1. /\ p \in fresh /\ p \in files /\ r \notin Media!Live /\ Media!Live' = Media!Live \cup {r}
        /\ refs'[r] = [path |-> p, at |-> now] /\ \A x \in Media!Live : refs'[x] = refs[x]
        /\ scopeToRefs' = [scopeToRefs EXCEPT ![s] = @ \cup {r}]
        /\ refToScope' = [refToScope EXCEPT ![r] = s]
        /\ fresh' = fresh \ {p} /\ UNCHANGED <<now, files, removing, uses>>
    BY <1>6 DEF Media!Store, Media!Live
  <2>2. Media!TypeOK'
    BY <1>1, <2>1 DEF Media!TypeOK
  <2>3. MapsAgree'
    BY <1>1, <2>1 DEF MapsAgree, Media!TypeOK
  <2>4. \A q \in Paths : Accounted(q) <=> Accounted(q)'
    BY <1>1, <2>1 DEF Accounted
  <2>5. \A q \in Paths : Owned(q) => Owned(q)'
    BY <2>1 DEF Owned, Kept
  <2> QED BY <1>1, <2>1, <2>2, <2>3, <2>4, <2>5 DEF MediaInv, Media!TypeOK
<1>7. ASSUME NEW p \in Paths, NEW w \in Media!Removers, Media!Remove(w, p) PROVE MediaInv'
  BY <1>1, <1>7 DEF Media!Remove, Media!maps, MediaInv, Media!TypeOK, MapsAgree, Accounted,
     Owned, Kept, Media!Live
<1>8. ASSUME NEW s \in Scopes, Media!ReleaseAll(s) PROVE MediaInv'
  <2>1. scopeToRefs[s] \in SUBSET Media!Live /\ scopeToRefs[s] \cap Media!Live = scopeToRefs[s]
    BY <1>1 DEF MapsAgree
  <2> QED BY <1>8, <2>1, Forgets DEF Media!ReleaseAll, Media!Removers
<1>9. CASE Media!CleanExpired
  BY <1>9, Forgets DEF Media!CleanExpired, Media!Removers, Media!Expired
<1> QED BY <1>2, <1>3, <1>4, <1>5, <1>6, <1>7, <1>8, <1>9 DEF Media!Next

-----------------------------------------------------------------------------
\* The audit log (AuditLog).

\* The events of earlier files are earlier than those of later ones.
Ordered(b) == \A t, u \in Audit!Seconds : t < u => \A x \in b[t], y \in b[u] : x < y
OnDisk == file \cup UNION {backups[t] : t \in Audit!Seconds}

\* The files are in the order of their seconds, and the current one is the latest.
AuditInv ==
  /\ now \in Audit!Seconds /\ count \in Nat /\ file \subseteq 1 .. count
  /\ backups \in [Audit!Seconds -> SUBSET (1 .. count)]
  /\ Ordered(backups)
  /\ \A t \in Audit!Seconds : \A x \in backups[t], y \in file : x < y
  /\ \A t \in Audit!Seconds : t > now => backups[t] = {}
  /\ Audit!AuditTail

LEMMA Greatest ==
  ASSUME NEW n \in Nat, NEW S \in SUBSET (1 .. n), S # {}
  PROVE  Audit!Max(S) \in S /\ \A x \in S : x <= Audit!Max(S)
<1> DEFINE T == {n - x : x \in S}
<1>1. T \in SUBSET Nat /\ T # {}
  <2>1. \A x \in S : x \in Int /\ 1 <= x /\ x <= n
    OBVIOUS
  <2>2. \A x \in S : n - x \in Nat
    BY <2>1
  <2> QED BY <2>2
<1>2. PICK m \in T : \A k \in T : m <= k
  BY <1>1, Least
<1>3. PICK g \in S : m = n - g
  BY <1>2
<1>4. \A x \in S : g >= x
  <2> SUFFICES ASSUME NEW x \in S PROVE g >= x
    OBVIOUS
  <2>1. n - g <= n - x
    BY <1>2, <1>3
  <2> QED BY <2>1
<1> QED BY <1>4 DEF Audit!Max

LEMMA SecondsAre == /\ Audit!Seconds \subseteq Nat
                    /\ IsFiniteSet(Audit!Seconds)
                    /\ MaxTime \in Nat
                    /\ MaxBackups \in Nat \ {0}
                    /\ MaxEvents \in Nat
<1>1. MaxTime \in Nat /\ MaxBackups \in Nat \ {0} /\ MaxEvents \in Nat
  BY AuditAssumed DEF Audit!AuditAssumption
<1> QED BY <1>1, FS_Interval DEF Audit!Seconds

\* Of one file too many, the pruning takes the oldest.
LEMMA PruningTakesOldest ==
  ASSUME NEW n \in Nat, NEW b \in [Audit!Seconds -> SUBSET (1 .. n)], Ordered(b),
         Cardinality(Audit!Named(b)) <= MaxBackups + 1
  PROVE  /\ Audit!Pruned(b) \in [Audit!Seconds -> SUBSET (1 .. n)]
         /\ \A t \in Audit!Seconds : \/ Audit!Pruned(b)[t] = b[t]
                                     \/ /\ Audit!Pruned(b)[t] = {}
                                        /\ \A u \in Audit!Seconds \ {t} : \A x \in b[t], y \in b[u] : x < y
         /\ Cardinality(Audit!Named(Audit!Pruned(b))) <= MaxBackups
<1>1. /\ Audit!Named(b) \in SUBSET Audit!Seconds /\ IsFiniteSet(Audit!Named(b)) /\ Cardinality(Audit!Named(b)) \in Nat
      /\ Audit!Seconds \subseteq Nat /\ MaxBackups \in Nat \ {0}
  BY SecondsAre, FS_Subset, FS_CardinalityType DEF Audit!Named
<1>2. \A t \in Audit!Seconds : IsFiniteSet(Audit!Older(b, t)) /\ Cardinality(Audit!Older(b, t)) \in Nat
  <2> SUFFICES ASSUME NEW t \in Audit!Seconds
               PROVE  IsFiniteSet(Audit!Older(b, t)) /\ Cardinality(Audit!Older(b, t)) \in Nat
    OBVIOUS
  <2>1. Audit!Older(b, t) \in SUBSET Audit!Named(b)
    BY DEF Audit!Older
  <2> QED BY <1>1, <2>1, FS_Subset, FS_CardinalityType
<1>3. \A t \in Audit!Named(b) : Audit!Max(b[t]) \in b[t] /\ b[t] \subseteq Nat
  <2> SUFFICES ASSUME NEW t \in Audit!Named(b) PROVE Audit!Max(b[t]) \in b[t] /\ b[t] \subseteq Nat
    OBVIOUS
  <2>1. b[t] \in SUBSET (1 .. n) /\ b[t] # {}
    BY DEF Audit!Named
  <2>2. Audit!Max(b[t]) \in b[t]
    BY <2>1, Greatest
  <2>3. b[t] \subseteq Nat
    BY <2>1
  <2> QED BY <2>2, <2>3
\* Older files are those with earlier seconds.
<1>4. \A t, u \in Audit!Named(b) : u \in Audit!Older(b, t) <=> u < t
  <2> SUFFICES ASSUME NEW t \in Audit!Named(b), NEW u \in Audit!Named(b) PROVE u \in Audit!Older(b, t) <=> u < t
    OBVIOUS
  <2>1. /\ u < t => Audit!Max(b[u]) < Audit!Max(b[t])
        /\ t < u => Audit!Max(b[t]) < Audit!Max(b[u])
    BY <1>1, <1>3 DEF Ordered
  <2>2. Audit!Max(b[u]) \in Nat /\ Audit!Max(b[t]) \in Nat /\ u \in Nat /\ t \in Nat
    BY <1>1, <1>3
  <2>3. u \in Audit!Older(b, t) <=> Audit!Max(b[u]) < Audit!Max(b[t])
    BY Zenon DEF Audit!Older
  <2>4. CASE u = t
    BY <2>2, <2>3, <2>4
  <2> QED BY <2>1, <2>2, <2>3
<1>5. \A t \in Audit!Seconds :
        Audit!Pruned(b)[t] = IF b[t] # {} /\ Cardinality(Audit!Older(b, t)) < Audit!Excess(b)
                             THEN {} ELSE b[t]
  BY OneCardinality DEF Audit!Pruned
<1>6. Audit!Excess(b) \in Int /\ Audit!Excess(b) <= 1
  BY <1>1, OneCardinality DEF Audit!Excess
<1>7. Audit!Pruned(b) \in [Audit!Seconds -> SUBSET (1 .. n)]
  BY DEF Audit!Pruned
<1>8. ASSUME NEW t \in Audit!Seconds, Audit!Pruned(b)[t] # b[t]
      PROVE  Audit!Pruned(b)[t] = {} /\ t \in Audit!Named(b) /\ \A u \in Audit!Named(b) : ~(u < t)
  <2>1. Audit!Pruned(b)[t] = {} /\ t \in Audit!Named(b) /\ Cardinality(Audit!Older(b, t)) < Audit!Excess(b)
    BY <1>5, <1>8 DEF Audit!Named
  <2>2. Audit!Older(b, t) = {}
    <3>1. Cardinality(Audit!Older(b, t)) = 0
      BY <1>2, <1>6, <2>1
    <3> QED BY <1>2, <3>1, FS_EmptySet
  <2> QED BY <1>4, <2>1, <2>2
<1>9. \A t \in Audit!Seconds : \/ Audit!Pruned(b)[t] = b[t]
                               \/ /\ Audit!Pruned(b)[t] = {}
                                  /\ \A u \in Audit!Seconds \ {t} : \A x \in b[t], y \in b[u] : x < y
  <2> SUFFICES ASSUME NEW t \in Audit!Seconds, Audit!Pruned(b)[t] # b[t], NEW u \in Audit!Seconds \ {t},
                      NEW x \in b[t], NEW y \in b[u]
               PROVE  x < y
    BY <1>8
  <2>1. u \in Audit!Named(b)
    BY DEF Audit!Named
  <2>2. t < u
    BY <1>1, <1>8, <2>1
  <2> QED BY <2>2 DEF Ordered
<1>10. Cardinality(Audit!Named(Audit!Pruned(b))) <= MaxBackups
  <2>1. Audit!Named(Audit!Pruned(b)) \in SUBSET Audit!Named(b)
    BY <1>5 DEF Audit!Named
  <2>2. CASE Audit!Excess(b) <= 0
    <3>1. Cardinality(Audit!Named(b)) <= MaxBackups
      BY <1>1, <2>2, OneCardinality DEF Audit!Excess
    <3>2. /\ Cardinality(Audit!Named(Audit!Pruned(b))) \in Nat
          /\ Cardinality(Audit!Named(Audit!Pruned(b))) <= Cardinality(Audit!Named(b))
      BY <1>1, <2>1, FS_Subset, FS_CardinalityType
    <3> QED BY <1>1, <3>1, <3>2
  <2>3. CASE Audit!Excess(b) = 1
    <3>1. Cardinality(Audit!Named(b)) = MaxBackups + 1
      BY <1>1, <2>3, OneCardinality DEF Audit!Excess
    <3>2. PICK t \in Audit!Named(b) : \A u \in Audit!Named(b) : t <= u
      <4>1. Audit!Named(b) # {}
        BY <1>1, <3>1, FS_EmptySet
      <4>2. Audit!Named(b) \in SUBSET Nat
        BY <1>1
      <4> QED BY <4>1, <4>2, Least
    <3>3. Audit!Older(b, t) = {}
      <4>1. ASSUME NEW u \in Audit!Named(b) PROVE ~(u < t)
        <5>1. t <= u /\ u \in Nat /\ t \in Nat
          BY <1>1, <3>2
        <5> QED BY <5>1
      <4>2. Audit!Older(b, t) \subseteq Audit!Named(b)
        BY DEF Audit!Older
      <4> QED BY <1>4, <4>1, <4>2
    <3>4. Cardinality(Audit!Older(b, t)) < Audit!Excess(b)
      BY <2>3, <3>3, FS_EmptySet
    <3>5. Audit!Pruned(b)[t] = {}
      BY <1>1, <1>5, <3>4
    <3>6. Audit!Named(Audit!Pruned(b)) \in SUBSET (Audit!Named(b) \ {t})
      BY <2>1, <3>5 DEF Audit!Named
    <3>7. IsFiniteSet(Audit!Named(b) \ {t}) /\ Cardinality(Audit!Named(b) \ {t}) = MaxBackups
      <4>1. /\ IsFiniteSet(Audit!Named(b) \ {t})
            /\ Cardinality(Audit!Named(b) \ {t}) = Cardinality(Audit!Named(b)) - 1
        BY <1>1, FS_RemoveElement
      <4> QED BY <1>1, <3>1, <4>1
    <3> QED BY <3>6, <3>7, FS_Subset
  <2> QED BY <1>6, <2>2, <2>3
<1> QED BY <1>7, <1>9, <1>10

LEMMA AuditInit == Audit!Init => AuditInv
<1> SUFFICES ASSUME Audit!Init PROVE AuditInv
  OBVIOUS
<1>1. Audit!Named(backups) = {} /\ 0 \in Audit!Seconds /\ MaxBackups \in Nat
  BY SecondsAre DEF Audit!Init, Audit!Named, Audit!Seconds
<1>2. Audit!AuditTail
  <2>1. Cardinality(Audit!Named(backups)) <= MaxBackups
    BY <1>1, FS_EmptySet
  <2>2. \A e \in 1 .. count : FALSE
    BY DEF Audit!Init
  <2> QED BY <2>1, <2>2, OneCardinality DEF Audit!AuditTail
<1>3. Ordered(backups)
  BY DEF Audit!Init, Ordered
<1>4. now \in Audit!Seconds /\ count \in Nat /\ file = {} /\ \A t \in Audit!Seconds : backups[t] = {}
  BY <1>1 DEF Audit!Init
<1>5. backups \in [Audit!Seconds -> SUBSET (1 .. count)]
  BY DEF Audit!Init
<1> QED BY <1>2, <1>3, <1>4, <1>5 DEF AuditInv

LEMMA AuditNext == AuditInv /\ [Audit!Next]_(Audit!vars) => AuditInv'
<1> SUFFICES ASSUME AuditInv, [Audit!Next]_(Audit!vars) PROVE AuditInv'
  OBVIOUS
<1>1. /\ now \in Audit!Seconds /\ count \in Nat /\ file \subseteq 1 .. count
      /\ backups \in [Audit!Seconds -> SUBSET (1 .. count)]
      /\ Audit!Seconds \subseteq Nat /\ MaxTime \in Nat
  BY SecondsAre DEF AuditInv
<1>2. CASE UNCHANGED Audit!vars
  BY <1>2 DEF Audit!vars, AuditInv, Audit!AuditTail, Ordered
<1>3. CASE Audit!Tick
  <2>1. now' = now + 1 /\ now < MaxTime /\ UNCHANGED <<count, file, backups, dropped, covered>>
    BY <1>3 DEF Audit!Tick
  <2>2. now' \in Audit!Seconds /\ \A t \in Audit!Seconds : t > now' => t > now
    BY <1>1, <2>1 DEF Audit!Seconds
  <2> QED BY <2>1, <2>2 DEF AuditInv, Audit!AuditTail, Ordered
<1>4. CASE Audit!Record
  <2>1. PICK c : c = count + 1 /\ count' = c /\ now' = now /\ c \in Nat
    BY <1>1, <1>4 DEF Audit!Record
  \* What was written, or lost.
  <2>2. ASSUME NEW to, Audit!Written(to, c)
        PROVE  file' \in {to, to \cup {c}} /\ c \in file' \cup dropped' /\ dropped \subseteq dropped'
    BY <2>2 DEF Audit!Written
  <2>3. CASE Audit!Written(file, c) /\ UNCHANGED <<backups, covered>>
    <3>1. /\ file \subseteq file'
          /\ file' \subseteq file \cup {c}
          /\ c \in file' \cup dropped'
          /\ dropped \subseteq dropped'
      BY <2>2, <2>3
    <3>2. Audit!AuditTail'
      <4>1. Cardinality(Audit!Named(backups')) <= MaxBackups
        BY <2>3, OneCardinality DEF AuditInv, Audit!AuditTail
      <4>2. ASSUME NEW e \in 1 .. c, e \notin OnDisk' \cup dropped' \cup covered'
            PROVE  \A k \in OnDisk' : e < k
        <5>1. e \in 1 .. count /\ e \notin OnDisk \cup dropped \cup covered
          BY <1>1, <2>1, <2>3, <3>1, <4>2 DEF OnDisk
        <5>2. \A k \in OnDisk : e < k
          BY <5>1 DEF AuditInv, Audit!AuditTail, OnDisk
        <5>3. OnDisk' \subseteq OnDisk \cup {c}
          BY <2>3, <3>1 DEF OnDisk
        <5>4. e < c
          BY <1>1, <2>1, <5>1
        <5> QED BY <5>2, <5>3, <5>4
      <4> QED BY <2>1, <4>1, <4>2, OneCardinality DEF Audit!AuditTail, OnDisk, Audit!Named
    <3>3. /\ backups' = backups /\ now' \in Audit!Seconds /\ count' \in Nat
          /\ \A x \in 1 .. count : x \in 1 .. count' /\ x < c
          /\ c \in 1 .. count'
      BY <1>1, <2>1, <2>3
    <3>4. file' \subseteq 1 .. count' /\ backups' \in [Audit!Seconds -> SUBSET (1 .. count')]
      BY <1>1, <3>1, <3>3
    <3>5. ASSUME NEW t \in Audit!Seconds, NEW x \in backups'[t], NEW y \in file' PROVE x < y
      <4>1. x \in backups[t] /\ x \in 1 .. count
        BY <1>1, <3>3, <3>5
      <4> QED BY <3>1, <3>3, <4>1 DEF AuditInv
    <3>6. Ordered(backups') /\ \A t \in Audit!Seconds : t > now' => backups'[t] = {}
      BY <2>1, <3>3 DEF AuditInv
    <3> QED BY <3>2, <3>3, <3>4, <3>5, <3>6 DEF AuditInv, Ordered
  <2>4. CASE Audit!Written({}, c) /\ backups' = Audit!Pruned(Audit!Renamed) /\ covered' = covered \cup backups[now]
    <3>1. file' \subseteq {c} /\ c \in file' \cup dropped' /\ dropped \subseteq dropped'
      BY <2>2, <2>4
    <3>2. /\ Audit!Renamed \in [Audit!Seconds -> SUBSET (1 .. count)] /\ Audit!Renamed[now] = file
          /\ \A t \in Audit!Seconds \ {now} : Audit!Renamed[t] = backups[t]
      BY <1>1 DEF Audit!Renamed
    <3>3. \A t \in Audit!Seconds : t > now => Audit!Renamed[t] = {}
      <4>1. \A t \in Audit!Seconds : t > now => t # now
        BY <1>1
      <4> QED BY <3>2, <4>1 DEF AuditInv
    <3>4. Ordered(Audit!Renamed)
      <4> SUFFICES ASSUME NEW t \in Audit!Seconds, NEW u \in Audit!Seconds, t < u,
                          NEW x \in Audit!Renamed[t], NEW y \in Audit!Renamed[u]
                   PROVE  x < y
        BY DEF Ordered
      <4>1. ~(u > now) /\ t # u
        BY <1>1, <3>3
      <4>2. t # now
        BY <1>1, <4>1
      <4>3. x \in backups[t]
        BY <3>2, <4>2
      <4>4. CASE u = now
        BY <3>2, <4>3, <4>4 DEF AuditInv
      <4>5. CASE u # now
        <5>1. y \in backups[u]
          BY <3>2, <4>5
        <5> QED BY <4>3, <5>1 DEF AuditInv, Ordered
      <4> QED BY <4>4, <4>5
    <3>5. Cardinality(Audit!Named(Audit!Renamed)) <= MaxBackups + 1
      <4>1. /\ Audit!Named(backups) \in SUBSET Audit!Seconds
            /\ Audit!Named(Audit!Renamed) \in SUBSET (Audit!Named(backups) \cup {now})
        BY <3>2 DEF Audit!Named
      <4>2. IsFiniteSet(Audit!Named(backups)) /\ Cardinality(Audit!Named(backups)) \in Nat
        BY <4>1, SecondsAre, FS_Subset, FS_CardinalityType
      <4>3. /\ IsFiniteSet(Audit!Named(backups) \cup {now})
            /\ Cardinality(Audit!Named(backups) \cup {now})
                 \in {Cardinality(Audit!Named(backups)), Cardinality(Audit!Named(backups)) + 1}
        BY <4>2, FS_AddElement
      <4>4. /\ Cardinality(Audit!Named(Audit!Renamed)) \in Nat
            /\ Cardinality(Audit!Named(Audit!Renamed)) <= Cardinality(Audit!Named(backups) \cup {now})
        BY <4>1, <4>3, FS_Subset, FS_CardinalityType
      <4>5. Cardinality(Audit!Named(backups)) <= MaxBackups
        BY OneCardinality DEF AuditInv, Audit!AuditTail
      <4> HIDE DEF Audit!Named
      <4> QED BY <4>2, <4>3, <4>4, <4>5, SecondsAre
    <3>6. /\ backups' \in [Audit!Seconds -> SUBSET (1 .. count)]
          /\ \A t \in Audit!Seconds : \/ backups'[t] = Audit!Renamed[t]
                                      \/ /\ backups'[t] = {}
                                         /\ \A u \in Audit!Seconds \ {t} :
                                              \A x \in Audit!Renamed[t], y \in Audit!Renamed[u] : x < y
          /\ Cardinality(Audit!Named(backups')) <= MaxBackups
      <4> HIDE DEF Audit!Named, Audit!Pruned, Audit!Renamed, Ordered
      <4> QED BY <1>1, <2>4, <3>2, <3>4, <3>5, PruningTakesOldest
    <3>7. \A t \in Audit!Seconds : backups'[t] \subseteq Audit!Renamed[t] /\ Audit!Renamed[t] \subseteq 1 .. count
      BY <3>2, <3>6
    <3>8. Audit!AuditTail'
      <4>1. ASSUME NEW e \in 1 .. c, e \notin OnDisk' \cup dropped' \cup covered'
            PROVE  \A k \in OnDisk' : e < k
        <5>1. e \in 1 .. count /\ e \notin dropped \cup covered \cup backups[now]
          BY <1>1, <2>1, <2>4, <3>1, <4>1 DEF OnDisk
        <5>2. OnDisk' \subseteq {c} \cup UNION {Audit!Renamed[t] : t \in Audit!Seconds}
          BY <3>1, <3>7 DEF OnDisk
        <5>6. e < c
          BY <1>1, <2>1, <5>1
        <5>3. UNION {Audit!Renamed[t] : t \in Audit!Seconds} \subseteq OnDisk
          BY <3>2 DEF OnDisk
        <5>4. CASE e \in OnDisk
          <6>1. PICK t \in Audit!Seconds : e \in Audit!Renamed[t]
            BY <1>1, <3>2, <5>1, <5>4 DEF OnDisk
          <6>2. e \notin backups'[t]
            BY <4>1 DEF OnDisk
          <6>3. backups'[t] = {} /\ \A u \in Audit!Seconds \ {t} : \A y \in Audit!Renamed[u] : e < y
            BY <3>6, <6>1, <6>2
          <6>4. ASSUME NEW k \in OnDisk', k # c PROVE e < k
            <7>1. PICK u \in Audit!Seconds : k \in backups'[u]
              BY <3>1, <6>4 DEF OnDisk
            <7>2. u # t /\ k \in Audit!Renamed[u]
              BY <3>7, <6>3, <7>1
            <7> QED BY <6>3, <7>2
          <6> QED BY <5>6, <6>4
        <5>5. CASE e \notin OnDisk
          <6>1. \A k \in OnDisk : e < k
            BY <5>1, <5>5 DEF AuditInv, Audit!AuditTail, OnDisk
          <6> QED BY <5>2, <5>3, <5>6, <6>1
        <5> QED BY <5>4, <5>5
      <4> QED BY <2>1, <3>6, <4>1, OneCardinality DEF Audit!AuditTail, OnDisk, Audit!Named
    <3>9. Ordered(backups')
      BY <3>4, <3>7 DEF Ordered
    <3>10. \A x \in 1 .. count : x \in 1 .. count' /\ x < c
      BY <1>1, <2>1
    <3>11. /\ \A t \in Audit!Seconds : \A x \in backups'[t], y \in file' : x < y
           /\ backups' \in [Audit!Seconds -> SUBSET (1 .. count')]
           /\ file' \subseteq 1 .. count'
      BY <1>1, <2>1, <3>1, <3>6, <3>10
    <3>12. \A t \in Audit!Seconds : t > now' => backups'[t] = {}
      BY <2>1, <3>3, <3>7
    <3> QED BY <1>1, <2>1, <3>8, <3>9, <3>11, <3>12 DEF AuditInv, Ordered
  <2> QED BY <1>4, <2>1, <2>3, <2>4 DEF Audit!Record
<1> QED BY <1>2, <1>3, <1>4 DEF Audit!Next

-----------------------------------------------------------------------------
\* The MCP servers and the processes, whose proofs are in their own modules: their steps
\* are those of the instances of these modules.
McpP == INSTANCE McpManager_proofs WITH
  Calls <- Callers,
  closed <- x1, servers <- x2, wg <- x3, lockers <- x4, call <- x5, tools <- x6, current <- x7,
  reload <- x8, closer <- x9
ProcP == INSTANCE ProcessManager_proofs WITH
  sess <- x1, reg <- x2, ended <- x3, exec <- x4, poll <- x5, removing <- x6, killing <- x7,
  given <- x8

LEMMA McpSteps ==
  /\ Mcp!McpAssumption => McpP!McpAssumption
  /\ Mcp!Init => McpP!Init
  /\ [Mcp!Next]_(Mcp!vars) => [McpP!Next]_(McpP!vars)
  /\ McpP!OneManagerOpen => Mcp!OneManagerOpen
<1>1. Mcp!McpAssumption => McpP!McpAssumption
  BY DEF Mcp!McpAssumption, McpP!McpAssumption, Mcp!IsFiniteSet, McpP!IsFiniteSet
<1>2. /\ Mcp!Init => McpP!Init
      /\ Mcp!Next => McpP!Next
      /\ UNCHANGED Mcp!vars => UNCHANGED McpP!vars
      /\ McpP!OneManagerOpen => Mcp!OneManagerOpen
  BY DEF Mcp!None, McpP!None, Mcp!Managers, McpP!Managers, Mcp!vars, McpP!vars, Mcp!mgr,
         McpP!mgr, Mcp!loop, McpP!loop, Mcp!NoCall, McpP!NoCall, Mcp!Closers, McpP!Closers,
         Mcp!NoClose, McpP!NoClose, Mcp!Idle, McpP!Idle, Mcp!TakeTool, McpP!TakeTool,
         Mcp!CallCheckLocked, McpP!CallCheckLocked, Mcp!CallCheck, McpP!CallCheck,
         Mcp!CallAdd, McpP!CallAdd, Mcp!CallReturns, McpP!CallReturns, Mcp!CloseSwap,
         McpP!CloseSwap, Mcp!CloseWait, McpP!CloseWait, Mcp!CloseSessions, McpP!CloseSessions,
         Mcp!Close, McpP!Close, Mcp!Closing, McpP!Closing, Mcp!ReloadBegin, McpP!ReloadBegin,
         Mcp!ReloadDisabled, McpP!ReloadDisabled, Mcp!ReloadLoad, McpP!ReloadLoad,
         Mcp!ReloadRegister, McpP!ReloadRegister, Mcp!ReloadReplace, McpP!ReloadReplace,
         Mcp!ReloadEnd, McpP!ReloadEnd, Mcp!Stop, McpP!Stop, Mcp!Init, McpP!Init,
         Mcp!CallStep, McpP!CallStep, Mcp!ReloadStep, McpP!ReloadStep, Mcp!Next, McpP!Next,
         Mcp!OneManagerOpen, McpP!OneManagerOpen
<1> QED BY <1>1, <1>2

LEMMA OutputSteps ==
  /\ Output!ProcessAssumption => ProcP!ProcessAssumption
  /\ Output!Init => ProcP!Init
  /\ [Output!Next]_(Output!vars) => [ProcP!Next]_(ProcP!vars)
  /\ ProcP!OutputOnce => Output!OutputOnce
<1>1. Output!ProcessAssumption => ProcP!ProcessAssumption
  BY DEF Output!ProcessAssumption, ProcP!ProcessAssumption, Output!IsFiniteSet,
         ProcP!IsFiniteSet, Output!Cardinality, ProcP!Cardinality
<1>2. Output!Init => ProcP!Init
  BY Zenon DEF Output!NoId, ProcP!NoId, Output!NoSession, ProcP!NoSession, Output!Chunks,
         ProcP!Chunks, Output!NoPoll, ProcP!NoPoll, Output!Init, ProcP!Init
<1>3. Output!Next => ProcP!Next
  <2>1. \A i : Output!Start(i) => ProcP!Start(i)
    BY Zenon DEF Output!Start, ProcP!Start, Output!Pruned, ProcP!Pruned, Output!NoSession,
         ProcP!NoSession, Output!CtxAfter, ProcP!CtxAfter, Output!Cardinality,
         ProcP!Cardinality, Output!Terminal, ProcP!Terminal, Output!Victims, ProcP!Victims,
         Output!IsFiniteSet, ProcP!IsFiniteSet
  <2>2. \A i : Output!Yield(i) => ProcP!Yield(i)
    BY Zenon DEF Output!Yield, ProcP!Yield
  <2>3. \A i : Output!Return(i) => ProcP!Return(i)
    BY Zenon DEF Output!Return, ProcP!Return, Output!CtxAfter, ProcP!CtxAfter
  <2>4. \A i : Output!Write(i) => ProcP!Write(i)
    BY Zenon DEF Output!Write, ProcP!Write, Output!Others, ProcP!Others, Output!Calls,
         ProcP!Calls
  <2>5. \A i : Output!Ends(i) => ProcP!Ends(i)
    BY Zenon DEF Output!Ends, ProcP!Ends, Output!Others, ProcP!Others, Output!Calls, ProcP!Calls
  <2>6. \A i : Output!Deadline(i) => ProcP!Deadline(i)
    BY Zenon DEF Output!Deadline, ProcP!Deadline, Output!Others, ProcP!Others, Output!Calls,
         ProcP!Calls
  <2>7. \A i : Output!Read(i) => ProcP!Read(i)
    BY Zenon DEF Output!Read, ProcP!Read, Output!Latest, ProcP!Latest, Output!Others,
         ProcP!Others, Output!Cardinality, ProcP!Cardinality, Output!Calls, ProcP!Calls,
         Output!IsFiniteSet, ProcP!IsFiniteSet
  <2>8. \A i : Output!Terminate(i) => ProcP!Terminate(i)
    BY Zenon DEF Output!Terminate, ProcP!Terminate, Output!Others, ProcP!Others, Output!Calls,
         ProcP!Calls
  <2>9. \A i : Output!WaitReturns(i) => ProcP!WaitReturns(i)
    BY Zenon DEF Output!WaitReturns, ProcP!WaitReturns, Output!Others, ProcP!Others,
         Output!Calls, ProcP!Calls
  <2>10. \A i : Output!MarkExited(i) => ProcP!MarkExited(i)
    BY Zenon DEF Output!MarkExited, ProcP!MarkExited, Output!Calls, ProcP!Calls
  <2>11. \A i : Output!Prune(i) => ProcP!Prune(i)
    BY Zenon DEF Output!Prune, ProcP!Prune, Output!Pruned, ProcP!Pruned, Output!Calls,
         ProcP!Calls, Output!Cardinality, ProcP!Cardinality, Output!Terminal, ProcP!Terminal,
         Output!Victims, ProcP!Victims, Output!IsFiniteSet, ProcP!IsFiniteSet
  <2>12. \A i : Output!Poll(i) => ProcP!Poll(i)
    BY Zenon DEF Output!Poll, ProcP!Poll
  <2>13. \A i : Output!Kill(i) => ProcP!Kill(i)
    BY Zenon DEF Output!Kill, ProcP!Kill
  <2>14. \A i : Output!KillTree(i) => ProcP!KillTree(i)
    BY Zenon DEF Output!KillTree, ProcP!KillTree
  <2>15. \A i : Output!RemoveLook(i) => ProcP!RemoveLook(i)
    BY Zenon DEF Output!RemoveLook, ProcP!RemoveLook, Output!Terminal, ProcP!Terminal
  <2>16. \A i : Output!RemoveDelete(i) => ProcP!RemoveDelete(i)
    BY Zenon DEF Output!RemoveDelete, ProcP!RemoveDelete
  <2>17. \A p : Output!Drain(p) => ProcP!Drain(p)
    BY Zenon DEF Output!Drain, ProcP!Drain, Output!Terminal, ProcP!Terminal, Output!Taken,
         ProcP!Taken, Output!NoPoll, ProcP!NoPoll, Output!Chunks, ProcP!Chunks, Output!NoId,
         ProcP!NoId
  <2>18. \A p : Output!Wake(p) => ProcP!Wake(p)
    BY Zenon DEF Output!Wake, ProcP!Wake, Output!NoPoll, ProcP!NoPoll, Output!NoId, ProcP!NoId
  <2> QED BY <2>1, <2>2, <2>3, <2>4, <2>5, <2>6, <2>7, <2>8, <2>9, <2>10, <2>11, <2>12, <2>13,
            <2>14, <2>15, <2>16, <2>17, <2>18 DEF Output!Next, ProcP!Next, Output!Watch,
            ProcP!Watch, Output!Polling, ProcP!Polling
<1>4. UNCHANGED Output!vars => UNCHANGED ProcP!vars
  BY DEF Output!vars, ProcP!vars
<1>5. ProcP!OutputOnce => Output!OutputOnce
  <2>1. \A S : ProcP!Cardinality(S) = Output!Cardinality(S)
    BY DEF Output!Cardinality, ProcP!Cardinality, Output!IsFiniteSet, ProcP!IsFiniteSet
  <2> QED BY <2>1 DEF Output!OutputOnce, ProcP!OutputOnce
<1> QED BY <1>1, <1>2, <1>3, <1>4, <1>5

-----------------------------------------------------------------------------
\* The composition: what the focus has is what its subsystem keeps.
Inv ==
  /\ focus = "fallback" => FbInv
  /\ focus = "model" => ModelInv
  /\ focus = "output" => ProcP!Inv
  /\ focus = "batch" => BatchInv
  /\ focus = "mcp" => McpP!Inv
  /\ focus = "media" => MediaInv
  /\ focus = "audit" => AuditInv
  /\ focus = "plan" => PlanInv

LEMMA FocusStays == [Next]_vars => focus' = focus
BY DEF Next, vars

\* A step of the system is one of the focus.
LEMMA FocusSteps ==
  ASSUME [Next]_vars
  PROVE  /\ focus = "fallback" => [Fallback!Next]_(Fallback!vars)
         /\ focus = "model" => [Model!Next]_(Model!vars)
         /\ focus = "output" => [Output!Next]_(Output!vars)
         /\ focus = "batch" => [Batch!Next]_(Batch!vars)
         /\ focus = "mcp" => [Mcp!Next]_(Mcp!vars)
         /\ focus = "media" => [Media!Next]_(Media!vars)
         /\ focus = "audit" => [Audit!Next]_(Audit!vars)
         /\ focus = "plan" => [Plan!Next]_(Plan!vars)
BY DEF Next, vars, Fallback!vars, Model!vars, Output!vars, Batch!vars, Mcp!vars, Media!vars,
   Audit!vars, Plan!vars

LEMMA InitInv == Init => Inv
<1> SUFFICES ASSUME Init PROVE Inv
  OBVIOUS
<1>1. /\ focus = "fallback" => Fallback!Init
      /\ focus = "model" => Model!Init
      /\ focus = "output" => Output!Init
      /\ focus = "batch" => Batch!Init
      /\ focus = "mcp" => Mcp!Init
      /\ focus = "media" => Media!Init
      /\ focus = "audit" => Audit!Init
      /\ focus = "plan" => Plan!Init
  BY DEF Init
<1>2. McpP!McpAssumption /\ (Mcp!Init => McpP!Init)
  BY McpAssumed, McpSteps
<1>3. ProcP!ProcessAssumption /\ (Output!Init => ProcP!Init)
  BY OutputAssumed, OutputSteps
<1> QED BY <1>1, <1>2, <1>3, FbInit, ModelInit, BatchInit, MediaInit, AuditInit, PlanInit,
          McpP!InitInv, ProcP!InitInv DEF Inv

LEMMA NextInv == Inv /\ [Next]_vars => Inv'
<1> SUFFICES ASSUME Inv, [Next]_vars PROVE Inv'
  OBVIOUS
<1>1. focus' = focus
  BY FocusStays
<1>2. CASE focus = "fallback"
  <2>1. [Fallback!Next]_(Fallback!vars) /\ FbInv
    BY <1>2, FocusSteps DEF Inv
  <2>2. FbInv'
    BY <2>1, FbNext
  <2> QED BY <1>1, <1>2, <2>2 DEF Inv
<1>3. CASE focus = "model"
  <2>1. [Model!Next]_(Model!vars) /\ ModelInv
    BY <1>3, FocusSteps DEF Inv
  <2>2. ModelInv'
    BY <2>1, ModelNext
  <2> QED BY <1>1, <1>3, <2>2 DEF Inv
<1>4. CASE focus = "output"
  <2>1. [Output!Next]_(Output!vars) /\ ProcP!Inv
    BY <1>4, FocusSteps DEF Inv
  <2>2. ProcP!Inv'
    BY <2>1, OutputAssumed, OutputSteps, ProcP!NextInv
  <2> QED BY <1>1, <1>4, <2>2 DEF Inv
<1>5. CASE focus = "batch"
  <2>1. [Batch!Next]_(Batch!vars) /\ BatchInv
    BY <1>5, FocusSteps DEF Inv
  <2>2. BatchInv'
    BY <2>1, BatchNext
  <2> QED BY <1>1, <1>5, <2>2 DEF Inv
<1>6. CASE focus = "mcp"
  <2>1. [Mcp!Next]_(Mcp!vars) /\ McpP!Inv
    BY <1>6, FocusSteps DEF Inv
  <2>2. McpP!Inv'
    BY <2>1, McpAssumed, McpSteps, McpP!NextInv
  <2> QED BY <1>1, <1>6, <2>2 DEF Inv
<1>7. CASE focus = "media"
  <2>1. [Media!Next]_(Media!vars) /\ MediaInv
    BY <1>7, FocusSteps DEF Inv
  <2>2. MediaInv'
    BY <2>1, MediaNext
  <2> QED BY <1>1, <1>7, <2>2 DEF Inv
<1>8. CASE focus = "audit"
  <2>1. [Audit!Next]_(Audit!vars) /\ AuditInv
    BY <1>8, FocusSteps DEF Inv
  <2>2. AuditInv'
    BY <2>1, AuditNext
  <2> QED BY <1>1, <1>8, <2>2 DEF Inv
<1>9. CASE focus = "plan"
  <2>1. [Plan!Next]_(Plan!vars) /\ PlanInv
    BY <1>9, FocusSteps DEF Inv
  <2>2. PlanInv'
    BY <2>1, PlanNext
  <2> QED BY <1>1, <1>9, <2>2 DEF Inv
<1>10. CASE focus \notin {"fallback", "model", "output", "batch", "mcp", "media", "audit", "plan"}
  BY <1>1, <1>10 DEF Inv
<1> QED BY <1>2, <1>3, <1>4, <1>5, <1>6, <1>7, <1>8, <1>9, <1>10

LEMMA Invariant == Spec => []Inv
BY InitInv, NextInv, PTL DEF Spec

\* Whatever fails and reloads, no connection to an MCP server is open when nothing is
\* under way but those of the manager that the agent loop uses (loop_mcp.go).
THEOREM OneManager == Spec => []OneManagerOpen
<1>1. Inv => OneManagerOpen
  BY McpAssumed, McpSteps, McpP!OpenIsOne DEF Inv, OneManagerOpen
<1> QED BY <1>1, Invariant, PTL

\* A chunk of a command's output that was read went to one poll, or is still to be
\* polled, or was cut by the limit (shell_session.go).
THEOREM ChunksGoOnce == Spec => []OutputOnce
<1>1. Inv => OutputOnce
  BY OutputAssumed, OutputSteps, ProcP!OnceGiven DEF Inv, OutputOnce
<1> QED BY <1>1, Invariant, PTL

\* The executor of a response's tool calls runs no more at a time than it may, and one
\* that may not run in parallel alone, in its place (toolcall_executor.go).
THEOREM SerialAlone == Spec => []OneAtATime
<1>1. Inv => OneAtATime
  BY BatchMeans DEF Inv, OneAtATime
<1> QED BY <1>1, Invariant, PTL

\* The references of the media store, their scopes and the files on disk agree, with the
\* removal of files under way (pkg/media/store.go).
THEOREM StoreAgrees == Spec => []FilesFollowRefs
<1>1. Inv => FilesFollowRefs
  BY MediaMeans DEF Inv, FilesFollowRefs
<1> QED BY <1>1, Invariant, PTL

\* The audit log loses, of what it wrote, nothing later than anything it still has, but
\* for files renamed in the same second; and it keeps few files (auditlog.go).
THEOREM LatestLogged == Spec => []AuditTail
<1>1. Inv => AuditTail
  BY DEF Inv, AuditInv, AuditTail
<1> QED BY <1>1, Invariant, PTL

\* A session that changed its model had the threshold of fallbacks to that model in a
\* row, and a task of the plan mode that is executed was approved and asked for
\* (loop_model_downgrade.go, loop_commands.go).
THEOREM Earned == Spec => []ModesEarned
<1>1. Inv => ModesEarned
  BY ModelMeans DEF Inv, PlanInv, ModesEarned
<1> QED BY <1>1, Invariant, PTL

\* No end of a cooldown of a provider gets earlier but by a success: the cooldown that a
\* failure begins ends no sooner than the one before it would (cooldown.go).
THEOREM CooldownsStand == Spec => BackoffStands
<1>1. Inv /\ [Next]_vars => (focus = "fallback" => Fallback!KeepsBackoff)
  BY FocusSteps, FbNext DEF Inv
<1> QED BY <1>1, Invariant, PTL DEF Spec, BackoffStands
==============================================================================
