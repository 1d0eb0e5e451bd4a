------------------------------ MODULE SkillSearch ------------------------------
(***************************************************************************)
(* The search for skills (pkg/skills/registry.go): RegistryManager asks    *)
(* all registries at once, a few at a time, and merges what they find; and *)
(* SearchCache keeps the answers of the queries that were used last, for   *)
(* the same query or one that shares most of its trigrams.                 *)
(***************************************************************************)
EXTENDS Integers, Sequences, SequencesExt, FiniteSets, Functions, TLC

CONSTANTS Trigrams,         \* query -> its trigrams, of buildTrigrams
          Threshold,        \* similarityThreshold, of 100
          MaxEntries, TTL,  \* of the cache
          MaxTime,          \* bound on the clock
          Found,            \* registry -> scores of what it finds, in its order
          MaxConcurrent, Limit

Queries == DOMAIN Trigrams
Registries == DOMAIN Found
SearchAssumption ==
  /\ Threshold \in 1 .. 100 /\ MaxEntries \in Nat \ {0} /\ TTL \in Nat \ {0} /\ MaxTime \in Nat
  /\ MaxConcurrent \in Nat \ {0} /\ Limit \in Nat

VARIABLES
  now,
  entries,  \* query -> when it was put
  order,    \* of the queries in entries, the latest used last
  uses,     \* history: the queries that were put, or answered others, the latest last
  search    \* the search at hand: registry -> state, what is merged, and the answer

vars == <<now, entries, order, uses, search>>

ToEnd(seq, q) == Append(Remove(seq, q), q)

\* jaccardSimilarity, where two queries too short for a trigram are alike.
Similarity(q, e) ==
  LET all == Trigrams[q] \cup Trigrams[e]
  IN IF all = {} THEN 100 ELSE (100 * Cardinality(Trigrams[q] \cap Trigrams[e])) \div Cardinality(all)

Fresh == {e \in DOMAIN entries : now - entries[e] < TTL}

\* Get answers with the query itself, or with one of the most similar.
Hits(q) ==
  IF q \in Fresh THEN {q}
  ELSE {e \in Fresh : /\ Similarity(q, e) >= Threshold
                      /\ \A f \in Fresh : Similarity(q, f) <= Similarity(q, e)}
\* Mutant: the query that was asked moves to the end.
GetMoving(q) ==
  /\ \E e \in Hits(q) : order' = ToEnd(order, q) /\ uses' = ToEnd(uses, e)
  /\ UNCHANGED <<now, entries, search>>
Get(q) ==
  /\ \E e \in Hits(q) : order' = ToEnd(order, e) /\ uses' = ToEnd(uses, e)
  /\ UNCHANGED <<now, entries, search>>

\* Put drops what has expired, and the entries used longest ago.
Put(q) ==
  LET unexpired == SelectSeq(order, LAMBDA e : e \in Fresh)
      kept == IF q \in Fresh \/ Len(unexpired) < MaxEntries THEN unexpired
              ELSE SubSeq(unexpired, Len(unexpired) - MaxEntries + 2, Len(unexpired))
  IN /\ order' = ToEnd(kept, q)
     /\ entries' = [e \in Range(kept) \cup {q} |-> IF e = q THEN now ELSE entries[e]]
     /\ uses' = ToEnd(uses, q)
     /\ UNCHANGED <<now, search>>

Tick == now < MaxTime /\ now' = now + 1 /\ UNCHANGED <<entries, order, uses, search>>
-----------------------------------------------------------------------------
NoSearch == [pc |-> "idle", at |-> [r \in Registries |-> "none"], merged |-> <<>>, answer |-> <<>>]
InState(s) == {r \in Registries : search.at[r] = s}

SearchAll ==
  /\ search.pc # "run"
  /\ search' = [NoSearch EXCEPT !.pc = "run", !.at = [r \in Registries |-> "wait"]]
  /\ UNCHANGED <<now, entries, order, uses>>

\* A slot of the semaphore.
Acquire(r) ==
  /\ search.at[r] = "wait" /\ Cardinality(InState("search")) < MaxConcurrent
  /\ search' = [search EXCEPT !.at[r] = "search"]
  /\ UNCHANGED <<now, entries, order, uses>>

Finds(r) ==
  /\ search.at[r] = "search"
  /\ search' = [search EXCEPT !.at[r] = "found",
                  !.merged = @ \o [i \in DOMAIN Found[r] |-> [score |-> Found[r][i], from |-> r]]]
  /\ UNCHANGED <<now, entries, order, uses>>

\* It fails, its minute is over, or the context is done.
Fails(r) ==
  /\ search.at[r] \in {"wait", "search"}
  /\ search' = [search EXCEPT !.at[r] = "failed"]
  /\ UNCHANGED <<now, entries, order, uses>>

Above(s, t) == s.score > t.score
Clamped(seq) == IF Limit > 0 /\ Len(seq) > Limit THEN SubSeq(seq, 1, Limit) ELSE seq
\* Mutant: what is merged is clamped, then sorted.
BestFirst(merged) == SortSeq(Clamped(merged), Above)
Best(merged) == Clamped(SortSeq(merged, Above))

\* All goroutines are done, and the channel of the results is closed.
Merge ==
  /\ search.pc = "run" /\ InState("wait") \cup InState("search") = {}
  /\ search' = [search EXCEPT !.pc = IF InState("found") = {} THEN "error" ELSE "answered",
                              !.answer = Best(search.merged)]
  /\ UNCHANGED <<now, entries, order, uses>>
-----------------------------------------------------------------------------
Init == now = 0 /\ entries = [q \in {} |-> 0] /\ order = <<>> /\ uses = <<>> /\ search = NoSearch

Next ==
  \/ \E q \in Queries : Get(q) \/ Put(q)
  \/ \E r \in Registries : Acquire(r) \/ Finds(r) \/ Fails(r)
  \/ Tick \/ SearchAll \/ Merge

Spec == Init /\ [][Next]_vars
-----------------------------------------------------------------------------
Results == [score : Nat, from : Registries]
TypeOK ==
  /\ now \in 0 .. MaxTime
  /\ DOMAIN entries \subseteq Queries /\ \A e \in DOMAIN entries : entries[e] \in 0 .. now
  /\ IsInjective(uses) /\ Range(uses) \subseteq Queries
  /\ search.pc \in {"idle", "run", "answered", "error"}
  /\ search.at \in [Registries -> {"none", "wait", "search", "found", "failed"}]
  /\ search.merged \in Seq(Results) /\ search.answer \in Seq(Results)

\* The cache holds at most its number of entries, and of those that have not expired it
\* has the ones used last: its order is that of their use.
LatestKept ==
  /\ Cardinality(DOMAIN entries) <= MaxEntries
  /\ order = SelectSeq(uses, LAMBDA q : q \in DOMAIN entries)

\* A search answers with the best that any registry found, the best first, whatever the
\* order in which they finished, and it fails only when all have failed.
BestOfAll ==
  /\ search.pc = "answered" =>
       LET all == [r \in InState("found") |-> Found[r]]
           inAnswer(r) == {i \in DOMAIN search.answer : search.answer[i].from = r}
       IN /\ \A i, j \in DOMAIN search.answer : i < j => search.answer[i].score >= search.answer[j].score
          /\ \A i \in DOMAIN search.answer : search.answer[i].from \in DOMAIN all
          /\ Len(search.answer) < FoldFunction(LAMBDA s, n : n + Len(s), 0, all)
               => Limit > 0 /\ Len(search.answer) = Limit
          /\ \A r \in DOMAIN all : \A v \in Range(all[r]) :
               LET found == Cardinality({k \in DOMAIN all[r] : all[r][k] = v})
                   given == Cardinality({i \in inAnswer(r) : search.answer[i].score = v})
               IN given < found => \A i \in DOMAIN search.answer : search.answer[i].score >= v
  /\ search.pc = "error" => search.merged = <<>>

\* An answer of the cache is that of a query alike.  This is not so for queries of less
\* than three bytes, which are all alike.
ShortApart == \A q \in Queries, e \in DOMAIN entries : q # e /\ Trigrams[q] = {} => e \notin Hits(q)
=============================================================================
