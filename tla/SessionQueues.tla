---------------------------- MODULE SessionQueues ----------------------------
(***************************************************************************)
(* What the inbound queue of the gateway promises (docs/gateway.md:17-22,  *)
(* pkg/agent/loop.go:366-429): messages of a conversation run one at a     *)
(* time in the order they were accepted, at most MaxConcurrency at once;   *)
(* only a steering message may be set aside for the run in progress, and   *)
(* only shutdown may drop anything else.                                   *)
(***************************************************************************)
EXTENDS Naturals, FiniteSets

CONSTANTS Msg, Key, Bucket, Steering, NoMsg, MaxConcurrency

VARIABLES
  arrival,  \* position in the order of acceptance, 0 before it
  waiting,  \* accepted and not yet run
  current,  \* the message each conversation runs
  aside,    \* steering set aside for a run
  open      \* shutdown has not begun

vars == <<arrival, waiting, current, aside, open>>

Init ==
  /\ arrival = [m \in Msg |-> 0]
  /\ waiting = {}
  /\ current = [k \in Key |-> NoMsg]
  /\ aside = {}
  /\ open = TRUE

Accept(m) ==
  /\ arrival[m] = 0
  /\ arrival' = [arrival EXCEPT ![m] = Cardinality({n \in Msg : arrival[n] # 0}) + 1]
  /\ waiting' = waiting \cup {m}
  /\ UNCHANGED <<current, aside, open>>

Running == {k \in Key : current[k] # NoMsg}

\* Only the oldest waiting message of an idle conversation may start.
Start(m) ==
  /\ m \in waiting
  /\ \A n \in waiting : Bucket[n] = Bucket[m] => arrival[m] <= arrival[n]
  /\ current[Bucket[m]] = NoMsg
  /\ Cardinality(Running) < MaxConcurrency
  /\ waiting' = waiting \ {m}
  /\ current' = [current EXCEPT ![Bucket[m]] = m]
  /\ UNCHANGED <<arrival, aside, open>>

Finish(k) ==
  /\ current[k] # NoMsg
  /\ current' = [current EXCEPT ![k] = NoMsg]
  /\ UNCHANGED <<arrival, waiting, aside, open>>

SetAside(m) ==
  /\ m \in waiting \cap Steering
  /\ waiting' = waiting \ {m}
  /\ aside' = aside \cup {m}
  /\ UNCHANGED <<arrival, current, open>>

\* Steering leaves the inbox when a run of its conversation takes it in or
\* when the conversation is between two runs.
Clear(k) ==
  /\ aside' = {m \in aside : Bucket[m] # k}
  /\ UNCHANGED <<arrival, waiting, current, open>>

Shut ==
  /\ open' = FALSE
  /\ UNCHANGED <<arrival, waiting, current, aside>>

Drop(m) ==
  /\ ~open
  /\ m \in waiting
  /\ waiting' = waiting \ {m}
  /\ UNCHANGED <<arrival, current, aside, open>>

Next ==
  \/ \E m \in Msg : Accept(m) \/ Start(m) \/ SetAside(m) \/ Drop(m)
  \/ \E k \in Key : Finish(k) \/ Clear(k)
  \/ Shut

Spec == Init /\ [][Next]_vars

=============================================================================
