------------------------------- MODULE WebFetch -------------------------------
(***************************************************************************)
(* The web_fetch tool (pkg/tools/web_fetch.go): answers are cached by URL, *)
(* and calls that ask for the same URL at once share one flight of         *)
(* golang.org/x/sync/singleflight, which runs under the context of the     *)
(* call that leads it.  An answer is the time when it was put, and whether *)
(* the context of its leader was cancelled; its page does not matter.      *)
(***************************************************************************)
EXTENDS Integers, FiniteSets, Functions

CONSTANTS Urls, Calls,
          TTL, MaxEntries,  \* cacheTTL, cacheMaxEntries
          MaxTime           \* bound on the clock

WebFetchAssumption == TTL \in Nat /\ MaxEntries \in Nat \ {0} /\ MaxTime \in Nat

VARIABLES
  now,
  cache,     \* URL -> [expires, answer]
  flight,    \* URL -> the call that leads its flight, or none
  call,      \* call -> [pc, url, began, answer]
  fetched    \* history: URL -> when its answer was put, while nothing evicts it

vars == <<now, cache, flight, call, fetched>>

Never == -1
Nobody == "nobody"
NoAnswer == [put |-> Never, cancelled |-> FALSE, by |-> Nobody]
Idle == [pc |-> "idle", url |-> CHOOSE u \in Urls : TRUE, began |-> 0, answer |-> NoAnswer]

At(c, pc) == call[c].pc = pc
Goes(c, pc) == call' = [call EXCEPT ![c].pc = pc]
Answered(c, pc, answer) == call' = [call EXCEPT ![c].pc = pc, ![c].answer = answer]

\* now.After(ExpiresAt) drops an entry.
Valid == {u \in DOMAIN cache : now <= cache[u].expires}
Pruned == Restrict(cache, Valid)

Execute(c) ==
  /\ At(c, "idle")
  /\ \E u \in Urls : call' = [call EXCEPT ![c] = [Idle EXCEPT !.pc = "look", !.url = u, !.began = now]]
  /\ UNCHANGED <<now, cache, flight, fetched>>

\* getCached prunes what has expired; first before the flight, then inside it.
Look(c) ==
  LET u == call[c].url IN
  /\ At(c, "look")
  /\ cache' = Pruned
  /\ IF u \in Valid THEN Answered(c, "return", cache[u].answer) ELSE Goes(c, "join")
  /\ UNCHANGED <<now, flight, fetched>>

\* Mutant: the flight does not look again.
LookAgainNot(c) ==
  /\ At(c, "again") /\ Goes(c, "fetch")
  /\ UNCHANGED <<now, cache, flight, fetched>>
LookAgain(c) ==
  LET u == call[c].url IN
  /\ At(c, "again")
  /\ cache' = Pruned
  /\ IF u \in Valid THEN Answered(c, "land", cache[u].answer) ELSE Goes(c, "fetch")
  /\ UNCHANGED <<now, flight, fetched>>

\* sf.Do: the first call leads, the others wait for its answer.
Join(c) ==
  LET u == call[c].url IN
  /\ At(c, "join")
  /\ IF flight[u] = Nobody
     THEN flight' = [flight EXCEPT ![u] = c] /\ Goes(c, "again")
     ELSE flight' = flight /\ Goes(c, "wait")
  /\ UNCHANGED <<now, cache, fetched>>

\* putCache: prune, evict the entries that expire first, and set.  A request ends
\* with an answer or a failure, which is an answer too, or with its context.
Evicts(u, rest) ==
  LET others == DOMAIN rest \ {u} IN
  IF Cardinality(DOMAIN rest) < MaxEntries THEN {others}
  ELSE {others \ {v} : v \in {v \in DOMAIN rest : \A w \in DOMAIN rest : rest[v].expires <= rest[w].expires}}
Fetch(c) ==
  LET u == call[c].url IN
  /\ At(c, "fetch")
  /\ \E cancelled \in BOOLEAN, kept \in Evicts(u, Pruned) :
       LET answer == [put |-> now, cancelled |-> cancelled, by |-> c]
           entry == [expires |-> now + TTL, answer |-> answer] IN
       /\ cache' = [v \in kept \cup {u} |-> IF v = u THEN entry ELSE cache[v]]
       /\ fetched' = [v \in Urls |-> IF v = u THEN now
                                     ELSE IF v \in Valid \ kept THEN Never ELSE fetched[v]]
       /\ Answered(c, "land", answer)
  /\ UNCHANGED <<now, flight>>

\* The flight ends: its leader and those who wait return its answer.
Land(c) ==
  LET u == call[c].url IN
  /\ At(c, "land")
  /\ flight' = [flight EXCEPT ![u] = Nobody]
  /\ call' = [d \in Calls |->
       IF d = c \/ (call[d].url = u /\ At(d, "wait"))
       THEN [call[d] EXCEPT !.pc = "return", !.answer = call[c].answer] ELSE call[d]]
  /\ UNCHANGED <<now, cache, fetched>>

Return(c) ==
  /\ At(c, "return")
  /\ call' = [call EXCEPT ![c] = Idle]
  /\ UNCHANGED <<now, cache, flight, fetched>>

\* A flight that has its answer lands at once.
Tick ==
  /\ now < MaxTime /\ \A c \in Calls : ~At(c, "land")
  /\ now' = now + 1
  /\ UNCHANGED <<cache, flight, call, fetched>>
-----------------------------------------------------------------------------
Init ==
  /\ now = 0
  /\ cache = [u \in {} |-> Idle]
  /\ flight = [u \in Urls |-> Nobody]
  /\ call = [c \in Calls |-> Idle]
  /\ fetched = [u \in Urls |-> Never]

Next ==
  \/ \E c \in Calls :
       Execute(c) \/ Look(c) \/ Join(c) \/ LookAgain(c) \/ Fetch(c) \/ Land(c) \/ Return(c)
  \/ Tick

Spec == Init /\ [][Next]_vars
-----------------------------------------------------------------------------
Answers == [put : -1 .. MaxTime, cancelled : BOOLEAN, by : Calls \cup {Nobody}]
TypeOK ==
  /\ now \in 0 .. MaxTime
  /\ DOMAIN cache \subseteq Urls /\ Cardinality(DOMAIN cache) <= MaxEntries
  /\ \A u \in DOMAIN cache : cache[u] \in [expires : 0 .. MaxTime + TTL, answer : Answers]
  /\ flight \in [Urls -> Calls \cup {Nobody}]
  /\ call \in [Calls -> [pc : {"idle", "look", "join", "again", "fetch", "land", "wait", "return"},
                         url : Urls, began : 0 .. MaxTime, answer : Answers]]
  /\ fetched \in [Urls -> -1 .. MaxTime]

\* No call is answered with what had expired when it began (getCached), and no URL is
\* requested again while its answer is there for the asking (the second look).
FetchedOnce ==
  /\ \A c \in Calls : At(c, "return") => call[c].answer.put + TTL >= call[c].began
  /\ \A c \in Calls : At(c, "fetch") => fetched[call[c].url] = Never
                                        \/ fetched[call[c].url] + TTL < now

\* What a call is told of a cancelled request is its own.  This is not so: the answer of
\* a cancelled leader goes to all who wait, and into the cache.
OwnCancellation ==
  \A c \in Calls : At(c, "return") /\ call[c].answer.cancelled => call[c].answer.by = c
=============================================================================
