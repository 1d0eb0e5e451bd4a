------------------------------ MODULE RunLedger ------------------------------
(***************************************************************************)
(* What docs/cron.md promises about runHistory: every run of a scheduled   *)
(* job that begins is recorded once, with its outcome, in the order of the *)
(* runs, whatever restarts happen in between; the last HistoryLimit        *)
(* records are kept.                                                       *)
(***************************************************************************)
EXTENDS Naturals, Sequences

CONSTANTS Job, RunId, NoRun, HistoryLimit

VARIABLES
  ledger,   \* the records of each job
  current   \* the run each job has in progress

vars == <<ledger, current>>

Outcome == {"ok", "error", "aborted"}

Record(h, r, s) ==
  LET g == Append(h, [run |-> r, status |-> s])
  IN IF Len(g) > HistoryLimit THEN Tail(g) ELSE g

Init ==
  /\ ledger = [j \in Job |-> <<>>]
  /\ current = [j \in Job |-> NoRun]

Begin(j, r) ==
  /\ current[j] = NoRun
  /\ \A i \in DOMAIN ledger[j] : ledger[j][i].run # r
  /\ current' = [current EXCEPT ![j] = r]
  /\ UNCHANGED ledger

End(j, s) ==
  /\ current[j] # NoRun
  /\ ledger' = [ledger EXCEPT ![j] = Record(@, current[j], s)]
  /\ current' = [current EXCEPT ![j] = NoRun]

\* The job is removed.
Forget(j) ==
  /\ ledger' = [ledger EXCEPT ![j] = <<>>]
  /\ current' = [current EXCEPT ![j] = NoRun]

Next == \E j \in Job : \/ \E r \in RunId : Begin(j, r)
                       \/ \E s \in Outcome : End(j, s)
                       \/ Forget(j)

Spec == Init /\ [][Next]_vars

=============================================================================
