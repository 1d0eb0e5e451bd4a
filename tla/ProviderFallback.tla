--------------------------- MODULE ProviderFallback ---------------------------
(***************************************************************************)
(* The fallback chain over the candidates of an agent                      *)
(* (pkg/providers/fallback.go) and the cooldowns that the calls of all     *)
(* runs share (cooldown.go).  A call is one Execute.                       *)
(*                                                                         *)
(* Time is a number of units; the sequences of cooldowns keep the order of *)
(* the real ones (1, 5, 25, 60 minutes and 5, 10, 20, 24 hours).           *)
(***************************************************************************)
EXTENDS Integers, Sequences, FiniteSets

CONSTANTS Calls,          \* concurrent calls
          Candidates,     \* sequence of providers, the primary's first
          Standard,       \* cooldown after the n-th failure; the last one is the cap
          Billing,        \* the same for failures of billing
          FailureWindow,  \* defaultFailureWindow
          Errors,         \* errors of a call
          MaxTime         \* bound on the time

Never == -1
Providers == {Candidates[i] : i \in DOMAIN Candidates}

FallbackAssumption ==
    /\ Candidates \in Seq(STRING) \ {<<>>}
    /\ Standard \in Seq(Nat) \ {<<>>} /\ Billing \in Seq(Nat) \ {<<>>}
    /\ FailureWindow \in Nat /\ MaxTime \in Nat
    /\ Errors \subseteq [deadline : BOOLEAN, image : BOOLEAN, number : 0 .. 599, says : SUBSET STRING]
    \* The longest cooldown is over before the counts are forgotten.
    /\ \A i \in DOMAIN Standard : Standard[i] <= FailureWindow
    /\ \A i \in DOMAIN Billing : Billing[i] <= FailureWindow
    \* No failure has a shorter cooldown than the one before it.
    /\ \A i, j \in DOMAIN Standard : i <= j => Standard[i] <= Standard[j]
    /\ \A i, j \in DOMAIN Billing : i <= j => Billing[i] <= Billing[j]

VARIABLES
  now,
  tracker,   \* CooldownTracker.entries: errors, billing, end, disabled, last
  call       \* pc and index of the candidate

vars == <<now, tracker, call>>

NoEntry == [errors |-> 0, billing |-> 0, end |-> 0, disabled |-> 0, last |-> Never]
NoCall == [pc |-> "idle", idx |-> 0]

(***************************************************************************)
(* CooldownTracker.  A count is kept up to the cap of its sequence: beyond *)
(* it, every count gives the same cooldown.                                *)
(***************************************************************************)
Up(n, s) == IF n < Len(s) THEN n + 1 ELSE n
IsAvailable(p) == now >= tracker[p].disabled /\ now >= tracker[p].end

\* Failures of more than FailureWindow ago are forgotten.
Counts(e) ==
  IF e.last # Never /\ now - e.last > FailureWindow
  THEN [e EXCEPT !.errors = 0, !.billing = 0] ELSE e

\* Mutant: a failure of another kind lifts the disabling of billing.
MarkFailureOver(p, reason) ==
  LET e == Counts(tracker[p])
      errors == Up(e.errors, Standard)
      billing == Up(e.billing, Billing)
      failed == [e EXCEPT !.errors = errors, !.last = now]
  IN tracker' = [tracker EXCEPT ![p] =
       IF reason = "billing"
       THEN [failed EXCEPT !.billing = billing, !.disabled = now + Billing[billing]]
       ELSE [failed EXCEPT !.end = now + Standard[errors], !.disabled = 0]]
MarkFailure(p, reason) ==
  LET e == Counts(tracker[p])
      errors == Up(e.errors, Standard)
      billing == Up(e.billing, Billing)
      failed == [e EXCEPT !.errors = errors, !.last = now]
  IN tracker' = [tracker EXCEPT ![p] =
       IF reason = "billing"
       THEN [failed EXCEPT !.billing = billing, !.disabled = now + Billing[billing]]
       ELSE [failed EXCEPT !.end = now + Standard[errors]]]

MarkSuccess(p) ==
  tracker' = [tracker EXCEPT ![p] = [NoEntry EXCEPT !.last = tracker[p].last]]

(***************************************************************************)
(* ClassifyError.  An error is a deadline, or a text: whether it is about  *)
(* the size of an image, the first number in it that passes for a status,  *)
(* and the classes it has words of.                                        *)
(***************************************************************************)
ByStatus(status) ==
  CASE status \in {401, 403} -> "auth"
    [] status = 402 -> "billing"
    [] status = 429 -> "rate_limit"
    [] status = 400 -> "format"
    [] status \in {408, 500, 502, 503, 521, 522, 523, 524, 529} -> "timeout"
    [] OTHER -> "none"

ByMessage(says) ==
  CASE says \cap {"rate_limit", "overloaded"} # {} -> "rate_limit"
    [] "billing" \in says -> "billing"
    [] "timeout" \in says -> "timeout"
    [] "auth" \in says -> "auth"
    [] "format" \in says -> "format"
    [] OTHER -> "none"

Classified(e) ==
  IF e.deadline THEN "timeout"
  ELSE IF e.image THEN "format"
  ELSE IF ByStatus(e.number) # "none" THEN ByStatus(e.number) ELSE ByMessage(e.says)

IsRetriable(reason) == reason \notin {"format", "none"}

(***************************************************************************)
(* FallbackChain.Execute                                                   *)
(***************************************************************************)
AtPc(c, pc) == call[c].pc = pc
Candidate(c) == Candidates[call[c].idx]

Execute(c) ==
  /\ AtPc(c, "idle")
  /\ call' = [call EXCEPT ![c] = [NoCall EXCEPT !.pc = "next", !.idx = 1]]
  /\ UNCHANGED <<now, tracker>>

\* On to the next candidate; after the last one the chain is exhausted.
Advance(c) ==
  call' = [call EXCEPT ![c] =
             IF @.idx < Len(Candidates) THEN [pc |-> "next", idx |-> @.idx + 1]
             ELSE NoCall]

\* The candidate is in a cooldown.
Skip(c) ==
  /\ AtPc(c, "next") /\ ~IsAvailable(Candidate(c))
  /\ Advance(c)
  /\ UNCHANGED <<now, tracker>>

Try(c) ==
  /\ AtPc(c, "next") /\ IsAvailable(Candidate(c))
  /\ call' = [call EXCEPT ![c].pc = "calling"]
  /\ UNCHANGED <<now, tracker>>

\* A retriable failure.
FallsBack(c) ==
  /\ AtPc(c, "calling")
  /\ \E e \in Errors : IsRetriable(Classified(e)) /\ MarkFailure(Candidate(c), Classified(e))
  /\ Advance(c)
  /\ UNCHANGED now

\* The context is cancelled, or the error is one of format or of no class.
Aborts(c) ==
  /\ AtPc(c, "calling")
  /\ \E cancelled \in BOOLEAN : cancelled \/ \E e \in Errors : ~IsRetriable(Classified(e))
  /\ call' = [call EXCEPT ![c] = NoCall]
  /\ UNCHANGED <<now, tracker>>

Answers(c) ==
  /\ AtPc(c, "calling")
  /\ MarkSuccess(Candidate(c))
  /\ call' = [call EXCEPT ![c] = NoCall]
  /\ UNCHANGED now

Tick == now < MaxTime /\ now' = now + 1 /\ UNCHANGED <<tracker, call>>
-----------------------------------------------------------------------------
Init ==
  /\ now = 0
  /\ tracker = [p \in Providers |-> NoEntry]
  /\ call = [c \in Calls |-> NoCall]

Step(c) == Skip(c) \/ Try(c) \/ FallsBack(c) \/ Aborts(c) \/ Answers(c)
Next == Tick \/ \E c \in Calls : Execute(c) \/ Step(c)

Spec == Init /\ [][Next]_vars
\* A provider answers or fails within its timeout.
FairSpec == Spec /\ \A c \in Calls : WF_vars(Step(c))
-----------------------------------------------------------------------------
TypeOK ==
  /\ now \in 0 .. MaxTime
  /\ tracker \in [Providers -> [errors : 0 .. Len(Standard), billing : 0 .. Len(Billing),
                                end : Nat, disabled : Nat, last : 0 .. MaxTime \cup {Never}]]
  /\ call \in [Calls -> [pc : {"idle", "next", "calling"}, idx : 0 .. Len(Candidates)]]

\* A failure never makes a provider available earlier than the failures before
\* it had: whatever the reasons of the failures of concurrent calls, their order
\* and the age of the counts, only a success ends a cooldown early.
KeepsBackoff ==
  \A p \in Providers :
    \/ tracker'[p].end = 0 /\ tracker'[p].disabled = 0
    \/ tracker'[p].end >= tracker[p].end /\ tracker'[p].disabled >= tracker[p].disabled
BackoffStands == [][KeepsBackoff]_vars

\* Refuted: an error is taken for what it says.  Any number of three digits in its text
\* passes for a status first (error_classifier.go:11-15).
TakenAsSaid == \A e \in Errors : ~e.deadline /\ ~e.image => Classified(e) = ByMessage(e.says)

\* Every call ends, whatever the candidates answer and the other calls do.
CallsEnd == \A c \in Calls : ~AtPc(c, "idle") ~> AtPc(c, "idle")
=============================================================================
