---------------------------- MODULE AgentRun_proofs ----------------------------
(***************************************************************************)
(* Theorems about the runs of a session (AgentRun) and about what          *)
(* sanitizeHistoryForProvider makes of a history (Transcript).             *)
(*                                                                         *)
(* Three relations carry the argument.  Owed(m, P): the messages m are     *)
(* Paired but for the calls of P, asked for last and not answered yet.     *)
(* Sound(h): right after a request, a history holds only results of        *)
(* different calls of that request, however many of them are missing.      *)
(* Ready(h, P): the results of P may still be appended to h.               *)
(* SanitizeFits shows that the pass makes a Paired transcript of a Sound   *)
(* history; the steps of a run keep the history Sound and the messages     *)
(* Owed what the run waits for.                                            *)
(***************************************************************************)
EXTENDS AgentRun, FiniteSetTheorems, TLAPS
LEMMA Least ==
  ASSUME NEW T \in SUBSET Nat, T # {}
  PROVE  \E m \in T : \A k \in T : m <= k
<1> DEFINE R == OpToRel(<, Nat)
<1>1. IsWellFoundedOn(R, Nat)
  BY NatLessThanWellFounded
<1>2. PICK x \in T : \A y \in T : ~ (<<y, x>> \in R)
  <2> HIDE DEF R
  <2> QED BY <1>1, WFMin
<1>3. \A y \in T : ~ (y < x)
  BY <1>2 DEF OpToRel
<1> QED BY <1>3

-----------------------------------------------------------------------------
(* Results: one result for each call, in the order of their ids.            *)

Below(S, c) == {d \in S : d < c}
Rank(S, c) == Cardinality(Below(S, c))

LEMMA RankType ==
  ASSUME NEW S \in SUBSET Nat, IsFiniteSet(S), NEW c \in S
  PROVE  Rank(S, c) \in Nat /\ Rank(S, c) < Cardinality(S)
<1>1. Below(S, c) \in SUBSET S /\ c \notin Below(S, c)
  BY DEF Below
<1>2. /\ IsFiniteSet(Below(S, c)) /\ Cardinality(Below(S, c)) <= Cardinality(S)
      /\ Cardinality(S) = Cardinality(Below(S, c)) => S = Below(S, c)
  BY <1>1, FS_Subset
<1>3. Cardinality(Below(S, c)) \in Nat /\ Cardinality(S) \in Nat
  BY <1>2, FS_CardinalityType
<1>4. S # Below(S, c)
  BY <1>1
<1> QED BY <1>2, <1>3, <1>4 DEF Rank

LEMMA RankGrows ==
  ASSUME NEW S \in SUBSET Nat, IsFiniteSet(S), NEW c \in S, NEW d \in S, c < d
  PROVE  Rank(S, c) < Rank(S, d)
<1>1. /\ Below(S, d) \in SUBSET S /\ Below(S, c) \in SUBSET Below(S, d)
      /\ c \in Below(S, d) /\ c \notin Below(S, c)
  <2>1. c \in Nat /\ d \in Nat /\ \A x \in S : x \in Nat
    OBVIOUS
  <2>2. \A x \in S : x < c => x < d
    BY <2>1
  <2>3. c \in Below(S, d) /\ c \notin Below(S, c)
    BY <2>1 DEF Below
  <2>4. Below(S, d) \in SUBSET S /\ Below(S, c) \in SUBSET Below(S, d)
    BY <2>2 DEF Below
  <2> QED BY <2>3, <2>4
<1>2. IsFiniteSet(Below(S, d))
  BY <1>1, FS_Subset
<1>3. /\ IsFiniteSet(Below(S, c)) /\ Cardinality(Below(S, c)) <= Cardinality(Below(S, d))
      /\ Cardinality(Below(S, d)) = Cardinality(Below(S, c)) => Below(S, d) = Below(S, c)
  BY <1>1, <1>2, FS_Subset
<1>4. Cardinality(Below(S, c)) \in Nat /\ Cardinality(Below(S, d)) \in Nat
  BY <1>2, <1>3, FS_CardinalityType
<1>5. Below(S, d) # Below(S, c)
  BY <1>1
<1> QED BY <1>3, <1>4, <1>5 DEF Rank

LEMMA RankIsOne ==
  ASSUME NEW S \in SUBSET Nat, IsFiniteSet(S), NEW c \in S, NEW d \in S,
         Rank(S, c) = Rank(S, d)
  PROVE  c = d
<1>1. Rank(S, c) \in Nat /\ Rank(S, d) \in Nat
  BY RankType
<1>2. c \in Nat /\ d \in Nat
  OBVIOUS
<1>3. CASE c < d
  BY <1>1, <1>3, RankGrows
<1>4. CASE d < c
  BY <1>1, <1>4, RankGrows
<1> QED BY <1>2, <1>3, <1>4

\* Removing the smallest call moves the others one rank down.
LEMMA RankExists ==
  ASSUME NEW S \in SUBSET Nat, IsFiniteSet(S), NEW i \in 1..Cardinality(S)
  PROVE  \E c \in S : Rank(S, c) = i - 1
<1> DEFINE P(n) == \A T \in SUBSET Nat : IsFiniteSet(T) /\ Cardinality(T) = n =>
                     \A j \in 1..n : \E c \in T : Rank(T, c) = j - 1
           Bad == {n \in Nat : ~P(n)}
<1>0. Cardinality(S) \in Nat
  BY FS_CardinalityType
<1>1. ASSUME Bad # {} PROVE FALSE
  <2>1. PICK n \in Bad : \A k \in Bad : n <= k
    <3>1. Bad \in SUBSET Nat
      <4> HIDE DEF P
      <4> QED OBVIOUS
    <3> HIDE DEF Bad
    <3> QED BY <1>1, <3>1, Least
  <2>2. n \in Nat /\ ~P(n)
    OBVIOUS
  <2>3. PICK T \in SUBSET Nat : /\ IsFiniteSet(T) /\ Cardinality(T) = n
                                /\ ~(\A j \in 1..n : \E c \in T : Rank(T, c) = j - 1)
    BY <2>2
  <2>4. PICK j \in 1..n : ~ \E c \in T : Rank(T, c) = j - 1
    BY <2>3
  <2>5. T # {}
    BY <2>2, <2>3, <2>4, FS_EmptySet
  <2>6. PICK m \in T : \A k \in T : m <= k
    BY <2>5, Least
  <2> DEFINE U == T \ {m}
  <2>7. IsFiniteSet(U) /\ Cardinality(U) = n - 1 /\ U \in SUBSET Nat
    BY <2>3, FS_RemoveElement
  <2>8. P(n - 1)
    <3>1. n - 1 \in Nat /\ ~(n <= n - 1)
      BY <2>2, <2>4
    <3> HIDE DEF P
    <3> QED BY <2>1, <3>1
  <2>9. CASE j = 1
    <3>0. \A k \in T : k \in Nat /\ ~(k < m)
      BY <2>6
    <3>1. Below(T, m) = {}
      BY <3>0 DEF Below
    <3>2. Rank(T, m) = j - 1
      BY <2>9, <3>1, FS_EmptySet DEF Rank
    <3> QED BY <2>4, <3>2
  <2>10. CASE j # 1
    <3>1. j - 1 \in 1..(n - 1)
      BY <2>2, <2>10
    <3>2. PICK c \in U : Rank(U, c) = (j - 1) - 1
      BY <2>7, <2>8, <3>1
    <3>3. Below(T, c) = Below(U, c) \cup {m} /\ m \notin Below(U, c)
      BY <2>6, <3>2 DEF Below
    <3>4. IsFiniteSet(Below(U, c))
      <4>1. Below(U, c) \in SUBSET U
        BY DEF Below
      <4> QED BY <2>7, <4>1, FS_Subset
    <3>5. Rank(T, c) = Rank(U, c) + 1
      BY <3>3, <3>4, FS_AddElement DEF Rank
    <3> QED BY <2>2, <2>4, <3>1, <3>2, <3>5
  <2> QED BY <2>9, <2>10
<1>2. P(Cardinality(S))
  <2> HIDE DEF P
  <2> QED BY <1>0, <1>1
<1> QED BY <1>2

\* The call whose result is the i-th.
Nth(S, i) == CHOOSE c \in S : Cardinality({d \in S : d < c}) = i - 1

LEMMA NthIs ==
  ASSUME NEW S \in SUBSET Nat, IsFiniteSet(S), NEW i \in 1..Cardinality(S)
  PROVE  Nth(S, i) \in S /\ Rank(S, Nth(S, i)) = i - 1
<1>1. \E c \in S : Cardinality({d \in S : d < c}) = i - 1
  BY RankExists DEF Rank, Below
<1> QED BY <1>1 DEF Nth, Rank, Below

LEMMA ResultsAre ==
  ASSUME NEW S \in SUBSET Nat, IsFiniteSet(S)
  PROVE  /\ Cardinality(S) \in Nat
         /\ Len(Results(S)) = Cardinality(S) /\ DOMAIN Results(S) = 1..Cardinality(S)
         /\ \A i \in 1..Cardinality(S) : Results(S)[i] = Result(Nth(S, i)) /\ Nth(S, i) \in S
         /\ \A i, j \in 1..Cardinality(S) : i # j => Nth(S, i) # Nth(S, j)
         /\ \A c \in S : \E i \in 1..Cardinality(S) : Nth(S, i) = c
         /\ \A M : (\A c \in S : Result(c) \in M) => Results(S) \in Seq(M)
<1>1. Cardinality(S) \in Nat
  BY FS_CardinalityType
<1>2. Results(S) = [i \in 1..Cardinality(S) |-> Result(Nth(S, i))]
  BY DEF Results, Nth
<1>3. \A i \in 1..Cardinality(S) : Nth(S, i) \in S /\ Rank(S, Nth(S, i)) = i - 1
  BY NthIs
<1>4. \A i, j \in 1..Cardinality(S) : i # j => Nth(S, i) # Nth(S, j)
  BY <1>1, <1>3
<1>5. ASSUME NEW c \in S PROVE \E i \in 1..Cardinality(S) : Nth(S, i) = c
  <2>1. Rank(S, c) \in Nat /\ Rank(S, c) < Cardinality(S)
    BY RankType
  <2>2. Rank(S, c) + 1 \in 1..Cardinality(S)
    BY <1>1, <2>1
  <2>3. PICK i \in 1..Cardinality(S) : i = Rank(S, c) + 1
    BY <2>2
  <2>4. Nth(S, i) \in S /\ Rank(S, Nth(S, i)) = Rank(S, c)
    BY <1>3, <2>1, <2>3
  <2>5. PICK d \in S : d = Nth(S, i)
    BY <2>4
  <2>6. d = c
    BY <2>4, <2>5, RankIsOne
  <2> QED BY <2>5, <2>6
<1>6. ASSUME NEW M, \A c \in S : Result(c) \in M
      PROVE  Results(S) \in Seq(M)
  <2>1. PICK n \in Nat : n = Cardinality(S)
    BY <1>1
  <2>2. \A i \in 1..n : Result(Nth(S, i)) \in M
    BY <1>3, <1>6, <2>1
  <2>3. Results(S) \in [1..n -> M]
    <3> HIDE DEF Result
    <3> QED BY <1>2, <2>1, <2>2
  <2> QED BY <2>3
<1>7. DOMAIN Results(S) = 1..Cardinality(S)
  BY <1>2
<1>8. Len(Results(S)) = Cardinality(S)
  <2>1. Results(S) \in Seq({Result(c) : c \in S})
    BY <1>6
  <2> QED BY <1>1, <1>7, <2>1
<1>9. \A i \in 1..Cardinality(S) : Results(S)[i] = Result(Nth(S, i)) /\ Nth(S, i) \in S
  BY <1>2, <1>3
<1> QED BY <1>1, <1>4, <1>5, <1>6, <1>7, <1>8, <1>9

-----------------------------------------------------------------------------
(* Transcripts that are accepted but for the calls P of their last request, *)
(* whose results come next.                                                 *)

IdsIn(m, a, b) == UNION {m[j].ids : j \in a..b}
ToolsIn(m, a, b) == \A j \in a..b : m[j].role = "tool"

Waits(m, i, P) ==
  /\ P # {} /\ P \subseteq m[i].ids
  /\ Len(m) - i + Cardinality(P) = Cardinality(m[i].ids)
  /\ ToolsIn(m, i + 1, Len(m))
  /\ IdsIn(m, i + 1, Len(m)) = m[i].ids \ P
Follows(m, i) == \E k \in 1..(i - 1) : Asks(m, k) /\ i - k <= Cardinality(m[k].ids)

Owed(m, P) ==
  /\ \A i \in DOMAIN m : Asks(m, i) => Answered(m, i) \/ Waits(m, i, P)
  /\ \A i \in DOMAIN m : m[i].role = "tool" => Follows(m, i)
  /\ P # {} => \E i \in DOMAIN m : Asks(m, i) /\ Waits(m, i, P)

Extends(n, m) == Len(m) <= Len(n) /\ \A i \in 1..Len(m) : n[i] = m[i]

LEMMA IdsType ==
  ASSUME NEW S \in SUBSET CallIds
  PROVE  S \in SUBSET Nat /\ IsFiniteSet(S) /\ Cardinality(S) \in Nat
<1>1. IsFiniteSet(CallIds) /\ CallIds \subseteq Nat
  BY RunAssumption
<1>2. IsFiniteSet(S)
  BY <1>1, FS_Subset
<1> QED BY <1>1, <1>2, FS_CardinalityType

LEMMA MessageIs ==
  ASSUME NEW m \in Seq(MessageType), NEW i \in DOMAIN m
  PROVE  /\ m[i].ids \in SUBSET CallIds /\ Cardinality(m[i].ids) \in Nat
         /\ m[i] = [role |-> m[i].role, ids |-> m[i].ids]
         /\ i \in Nat /\ 1 <= i /\ i <= Len(m) /\ Len(m) \in Nat
<1>1. m[i] \in MessageType
  OBVIOUS
<1>2. m[i].ids \in SUBSET CallIds /\ m[i] = [role |-> m[i].role, ids |-> m[i].ids]
  BY <1>1 DEF MessageType
<1>3. i \in Nat /\ 1 <= i /\ i <= Len(m) /\ Len(m) \in Nat
  OBVIOUS
<1> QED BY <1>2, <1>3, IdsType

LEMMA IdsSame ==
  ASSUME NEW m, NEW n, NEW a, NEW b, \A j \in a..b : n[j] = m[j]
  PROVE  /\ IdsIn(n, a, b) = IdsIn(m, a, b)
         /\ ToolsIn(n, a, b) <=> ToolsIn(m, a, b)
BY DEF IdsIn, ToolsIn

\* Ids and roles of two stretches of a transcript, one after the other.
LEMMA IdsJoin ==
  ASSUME NEW m, NEW a \in Nat, NEW b \in Nat, NEW c \in Nat, a <= b + 1, b <= c
  PROVE  /\ IdsIn(m, a, c) = IdsIn(m, a, b) \cup IdsIn(m, b + 1, c)
         /\ ToolsIn(m, a, c) <=> ToolsIn(m, a, b) /\ ToolsIn(m, b + 1, c)
<1>1. a..c = (a..b) \cup ((b + 1)..c)
  OBVIOUS
<1> QED BY <1>1 DEF IdsIn, ToolsIn

LEMMA AnsweredIs ==
  ASSUME NEW m, NEW i
  PROVE  Answered(m, i) <=> /\ i + Cardinality(m[i].ids) <= Len(m)
                            /\ ToolsIn(m, i + 1, i + Cardinality(m[i].ids))
                            /\ IdsIn(m, i + 1, i + Cardinality(m[i].ids)) = m[i].ids
BY DEF Answered, ToolsIn, IdsIn

LEMMA OwedNothing ==
  ASSUME NEW m PROVE Owed(m, {}) <=> Paired(m)
BY DEF Owed, Waits, Paired, Follows

LEMMA AnsweredStays ==
  ASSUME NEW m \in Seq(MessageType), NEW n \in Seq(MessageType), Extends(n, m),
         NEW i \in DOMAIN m
  PROVE  /\ Asks(n, i) <=> Asks(m, i)
         /\ i \in DOMAIN n /\ n[i] = m[i]
         /\ Answered(m, i) => Answered(n, i)
<1>1. /\ i \in Nat /\ 1 <= i /\ i <= Len(m) /\ Len(m) \in Nat
      /\ Len(n) \in Nat /\ Len(m) <= Len(n)
      /\ DOMAIN n = 1..Len(n) /\ DOMAIN m = 1..Len(m) /\ n[i] = m[i]
      /\ \A j \in 1..Len(m) : n[j] = m[j]
  BY DEF Extends
<1>2. PICK c \in Nat : c = Cardinality(m[i].ids)
  BY MessageIs
<1>3. ASSUME Answered(m, i) PROVE Answered(n, i)
  <2>1. i + c <= Len(m) /\ ToolsIn(m, i + 1, i + c) /\ IdsIn(m, i + 1, i + c) = m[i].ids
    BY <1>2, <1>3, AnsweredIs
  <2>2. \A j \in (i + 1)..(i + c) : n[j] = m[j]
    BY <1>1, <2>1
  <2>3. ToolsIn(n, i + 1, i + c) /\ IdsIn(n, i + 1, i + c) = m[i].ids
    BY <2>1, <2>2, IdsSame
  <2>4. i + c <= Len(n)
    BY <1>1, <2>1
  <2> QED BY <1>1, <1>2, <2>3, <2>4, AnsweredIs
<1>4. Asks(n, i) <=> Asks(m, i)
  BY <1>1 DEF Asks
<1> QED BY <1>1, <1>3, <1>4

LEMMA FollowsStays ==
  ASSUME NEW m \in Seq(MessageType), NEW n \in Seq(MessageType), Extends(n, m),
         NEW i \in DOMAIN m, Follows(m, i)
  PROVE  Follows(n, i)
<1>1. PICK k \in 1..(i - 1) : Asks(m, k) /\ i - k <= Cardinality(m[k].ids)
  BY DEF Follows
<1>2. k \in DOMAIN m
  OBVIOUS
<1>3. Asks(n, k) /\ n[k] = m[k]
  BY <1>1, <1>2, AnsweredStays
<1> QED BY <1>1, <1>3 DEF Follows

LEMMA Appended ==
  ASSUME NEW m \in Seq(MessageType), NEW x \in MessageType
  PROVE  /\ Append(m, x) \in Seq(MessageType) /\ Extends(Append(m, x), m)
         /\ Len(Append(m, x)) = Len(m) + 1 /\ Append(m, x)[Len(m) + 1] = x
         /\ Len(m) \in Nat /\ DOMAIN m = 1..Len(m)
         /\ DOMAIN Append(m, x) = 1..(Len(m) + 1)
BY DEF Extends

LEMMA MessageTypes ==
  /\ User \in MessageType
  /\ \A B \in SUBSET CallIds : Assistant(B) \in MessageType
  /\ \A c \in CallIds : Result(c) \in MessageType
BY DEF User, Assistant, Result, MessageType

LEMMA PairedPlain ==
  ASSUME NEW m \in Seq(MessageType), Paired(m), NEW x \in MessageType,
         x.role # "tool", ~(x.role = "assistant" /\ x.ids # {})
  PROVE  Paired(Append(m, x))
<1> DEFINE n == Append(m, x)
<1>1. /\ n \in Seq(MessageType) /\ Extends(n, m) /\ n[Len(m) + 1] = x
      /\ DOMAIN m = 1..Len(m) /\ DOMAIN n = 1..(Len(m) + 1) /\ Len(m) \in Nat
  BY Appended
<1>2. Owed(m, {})
  BY OwedNothing
<1> HIDE DEF n
<1>3. ASSUME NEW i \in DOMAIN n, Asks(n, i) PROVE Answered(n, i)
  <2>1. i \in DOMAIN m
    BY <1>1, <1>3 DEF Asks
  <2>2. Answered(m, i)
    BY <1>1, <1>2, <1>3, <2>1, AnsweredStays DEF Owed, Waits
  <2> QED BY <1>1, <2>1, <2>2, AnsweredStays
<1>4. ASSUME NEW i \in DOMAIN n, n[i].role = "tool" PROVE Follows(n, i)
  <2>1. i \in DOMAIN m
    BY <1>1, <1>4
  <2>2. Follows(m, i)
    BY <1>1, <1>2, <1>4, <2>1, AnsweredStays DEF Owed
  <2> QED BY <1>1, <2>1, <2>2, FollowsStays
<1> QED BY <1>3, <1>4 DEF Paired, Follows, n

LEMMA OwedRequest ==
  ASSUME NEW m \in Seq(MessageType), Paired(m), NEW B \in SUBSET CallIds, B # {}
  PROVE  Owed(Append(m, Assistant(B)), B)
<1> DEFINE n == Append(m, Assistant(B))
<1>1. /\ n \in Seq(MessageType) /\ Extends(n, m) /\ n[Len(m) + 1] = Assistant(B)
      /\ DOMAIN m = 1..Len(m) /\ DOMAIN n = 1..(Len(m) + 1) /\ Len(m) \in Nat
      /\ Len(n) = Len(m) + 1
  BY Appended, MessageTypes
<1>2. Owed(m, {})
  BY OwedNothing
<1>3. Cardinality(B) \in Nat
  BY IdsType
<1> HIDE DEF n
<1>4. Asks(n, Len(m) + 1) /\ Waits(n, Len(m) + 1, B)
  <2>1. n[Len(m) + 1].role = "assistant" /\ n[Len(m) + 1].ids = B
    BY <1>1 DEF Assistant
  <2>2. ToolsIn(n, Len(m) + 1 + 1, Len(n)) /\ IdsIn(n, Len(m) + 1 + 1, Len(n)) = {}
    BY <1>1 DEF ToolsIn, IdsIn
  <2>3. Len(n) - (Len(m) + 1) + Cardinality(B) = Cardinality(B)
    BY <1>1, <1>3
  <2> QED BY <2>1, <2>2, <2>3 DEF Asks, Waits
<1>5. ASSUME NEW i \in DOMAIN n, Asks(n, i) PROVE Answered(n, i) \/ Waits(n, i, B)
  <2>1. CASE i = Len(m) + 1
    BY <1>4, <2>1
  <2>2. CASE i # Len(m) + 1
    <3>1. i \in DOMAIN m
      BY <1>1, <2>2
    <3>2. Answered(m, i)
      BY <1>1, <1>2, <1>5, <3>1, AnsweredStays DEF Owed, Waits
    <3> QED BY <1>1, <3>1, <3>2, AnsweredStays
  <2> QED BY <2>1, <2>2
<1>6. ASSUME NEW i \in DOMAIN n, n[i].role = "tool" PROVE Follows(n, i)
  <2>1. i \in DOMAIN m
    BY <1>1, <1>6 DEF Assistant
  <2>2. Follows(m, i)
    BY <1>1, <1>2, <1>6, <2>1, AnsweredStays DEF Owed
  <2> QED BY <1>1, <2>1, <2>2, FollowsStays
<1>7. Len(m) + 1 \in DOMAIN n
  BY <1>1
<1> QED BY <1>4, <1>5, <1>6, <1>7 DEF Owed, n

LEMMA Without ==
  ASSUME NEW P \in SUBSET CallIds, NEW D \in SUBSET P
  PROVE  /\ Cardinality(P) \in Nat /\ Cardinality(D) \in Nat /\ Cardinality(D) <= Cardinality(P)
         /\ Cardinality(P \ D) = Cardinality(P) - Cardinality(D)
         /\ Cardinality(D) = 0 <=> D = {}
         /\ Cardinality(P) = Cardinality(D) <=> P \ D = {}
<1>1. /\ IsFiniteSet(P) /\ Cardinality(P) \in Nat
      /\ IsFiniteSet(D) /\ Cardinality(D) \in Nat /\ Cardinality(D) <= Cardinality(P)
  BY IdsType, FS_Subset
<1>2. P \cap D = D
  OBVIOUS
<1>3. Cardinality(P \ D) = Cardinality(P) - Cardinality(D) /\ IsFiniteSet(P \ D)
  BY <1>1, <1>2, FS_Difference
<1>4. Cardinality(P \ D) = 0 <=> P \ D = {}
  BY <1>3, FS_EmptySet
<1>5. Cardinality(D) = 0 <=> D = {}
  BY <1>1, FS_EmptySet
<1> QED BY <1>1, <1>3, <1>4, <1>5

\* The results of D come next.
LEMMA OwedGiven ==
  ASSUME NEW m \in Seq(MessageType), NEW n \in Seq(MessageType), Extends(n, m),
         NEW P \in SUBSET CallIds, NEW D \in SUBSET P, Owed(m, P),
         Len(n) = Len(m) + Cardinality(D),
         ToolsIn(n, Len(m) + 1, Len(n)), IdsIn(n, Len(m) + 1, Len(n)) = D
  PROVE  Owed(n, P \ D)
<1>1. /\ Len(m) \in Nat /\ Len(n) \in Nat /\ DOMAIN m = 1..Len(m) /\ DOMAIN n = 1..Len(n)
      /\ \A j \in 1..Len(m) : n[j] = m[j]
  BY DEF Extends
<1>0. /\ Cardinality(P) \in Nat /\ Cardinality(D) \in Nat /\ Cardinality(D) <= Cardinality(P)
      /\ Cardinality(P \ D) = Cardinality(P) - Cardinality(D)
      /\ Cardinality(D) = 0 <=> D = {}
      /\ Cardinality(P) = Cardinality(D) <=> P \ D = {}
  BY ONLY P \in SUBSET CallIds, D \in SUBSET P, Without
<1>2. PICK p \in Nat, d \in Nat : p = Cardinality(P) /\ d = Cardinality(D)
  BY <1>0
<1>3. d <= p /\ Cardinality(P \ D) = p - d /\ (d = 0 <=> D = {}) /\ (p = d <=> P \ D = {})
  BY <1>0, <1>2
<1>4. ASSUME NEW i \in DOMAIN m, Waits(m, i, P)
      PROVE  IF P \ D = {} THEN Answered(n, i) ELSE Waits(n, i, P \ D)
  <2>1. n[i] = m[i] /\ i \in Nat /\ 1 <= i /\ i <= Len(m)
    BY <1>1
  <2>2. PICK c \in Nat : c = Cardinality(m[i].ids)
    BY MessageIs
  <2>3. Len(m) - i + p = c /\ P \subseteq m[i].ids
    BY <1>2, <1>4, <2>2 DEF Waits
  <2>4. ToolsIn(n, i + 1, Len(m)) /\ IdsIn(n, i + 1, Len(m)) = m[i].ids \ P
    <3>1. \A j \in (i + 1)..Len(m) : n[j] = m[j]
      BY <1>1, <2>1
    <3>2. IdsIn(n, i + 1, Len(m)) = IdsIn(m, i + 1, Len(m))
          /\ (ToolsIn(n, i + 1, Len(m)) <=> ToolsIn(m, i + 1, Len(m)))
      BY ONLY <3>1, IdsSame
    <3> QED BY <1>4, <3>2 DEF Waits
  <2>5. /\ ToolsIn(n, i + 1, Len(n))
        /\ IdsIn(n, i + 1, Len(n)) = (m[i].ids \ P) \cup D
    <3>1. i + 1 \in Nat /\ i + 1 <= Len(m) + 1 /\ Len(m) <= Len(n)
      BY <1>1, <1>2, <2>1
    <3>2. IdsIn(n, i + 1, Len(n)) = IdsIn(n, i + 1, Len(m)) \cup IdsIn(n, Len(m) + 1, Len(n))
          /\ (ToolsIn(n, i + 1, Len(n)) <=>
                ToolsIn(n, i + 1, Len(m)) /\ ToolsIn(n, Len(m) + 1, Len(n)))
      BY <1>1, <3>1, IdsJoin
    <3> QED BY <2>4, <3>2
  <2>6. IdsIn(n, i + 1, Len(n)) = n[i].ids \ (P \ D)
    BY <2>1, <2>3, <2>5
  <2>7. CASE P \ D = {}
    <3>1. i + c = Len(n)
      <4>1. PICK a \in Nat, b \in Nat : a = Len(m) /\ b = Len(n)
        BY <1>1
      <4>2. b = a + d /\ p = d
        BY <1>2, <1>3, <2>7, <4>1
      <4>3. a - i + p = c /\ i \in Nat
        BY <2>1, <2>3, <4>1
      <4>4. i + c = b
        BY ONLY a \in Nat, b \in Nat, i \in Nat, c \in Nat, p \in Nat, d \in Nat, <4>2, <4>3
      <4> QED BY <4>1, <4>4
    <3>2. n[i].ids = IdsIn(n, i + 1, Len(n)) /\ i + Cardinality(n[i].ids) = Len(n)
      BY <2>1, <2>2, <2>6, <2>7, <3>1
    <3>3. Answered(n, i)
      BY <1>1, <2>5, <3>2, AnsweredIs
    <3> QED BY <2>7, <3>3
  <2>8. CASE P \ D # {}
    <3>1. Len(n) - i + Cardinality(P \ D) = c
      BY <1>1, <1>2, <1>3, <2>1, <2>3
    <3> QED BY <2>1, <2>2, <2>3, <2>5, <2>6, <2>8, <3>1 DEF Waits
  <2> QED BY <2>7, <2>8
<1>5. ASSUME NEW i \in DOMAIN n, Asks(n, i) PROVE Answered(n, i) \/ Waits(n, i, P \ D)
  <2>1. i \in DOMAIN m
    BY <1>1, <1>5 DEF ToolsIn, Asks
  <2>2. Asks(m, i) /\ (Answered(m, i) => Answered(n, i))
    BY <1>5, <2>1, AnsweredStays
  <2>3. Answered(m, i) \/ Waits(m, i, P)
    BY <2>1, <2>2 DEF Owed
  <2> QED BY <1>4, <2>1, <2>2, <2>3
<1>6. ASSUME NEW i \in DOMAIN n, n[i].role = "tool" PROVE Follows(n, i)
  <2>1. CASE i \in DOMAIN m
    BY <1>1, <1>6, <2>1, FollowsStays DEF Owed
  <2>2. CASE i \notin DOMAIN m
    <3>1. i \in Nat /\ Len(m) < i /\ i <= Len(m) + d
      BY <1>1, <1>2, <2>2
    <3>2. P # {}
      BY <1>1, <1>3, <3>1
    <3>3. PICK k \in DOMAIN m : Asks(m, k) /\ Waits(m, k, P)
      BY <3>2 DEF Owed
    <3>4. k \in Nat /\ 1 <= k /\ k <= Len(m) /\ Asks(n, k) /\ n[k] = m[k]
      BY <1>1, <3>3, AnsweredStays
    <3>5. PICK c \in Nat : c = Cardinality(m[k].ids)
      BY MessageIs
    <3>6. Len(m) - k + p = c
      BY <1>2, <3>3, <3>5 DEF Waits
    <3>7. i - k <= c /\ k \in 1..(i - 1)
      <4>1. PICK a \in Nat : a = Len(m)
        BY <1>1
      <4>2. a < i /\ i <= a + d /\ d <= p /\ k <= a /\ a - k + p = c
        BY <1>3, <3>1, <3>4, <3>6, <4>1
      <4>3. i \in Nat /\ k \in Nat /\ 1 <= k
        BY <3>1, <3>4
      <4> QED BY ONLY a \in Nat, c \in Nat, p \in Nat, d \in Nat, <4>2, <4>3
    <3> QED BY <3>4, <3>5, <3>7 DEF Follows
  <2> QED BY <2>1, <2>2
<1>7. ASSUME P \ D # {} PROVE \E i \in DOMAIN n : Asks(n, i) /\ Waits(n, i, P \ D)
  <2>1. PICK i \in DOMAIN m : Asks(m, i) /\ Waits(m, i, P)
    BY <1>7 DEF Owed
  <2> QED BY <1>4, <1>7, <2>1, AnsweredStays
<1> QED BY <1>5, <1>6, <1>7 DEF Owed

LEMMA OwedResult ==
  ASSUME NEW m \in Seq(MessageType), NEW P \in SUBSET CallIds, Owed(m, P), NEW c \in P
  PROVE  Owed(Append(m, Result(c)), P \ {c})
<1>1. PICK n : n = Append(m, Result(c))
  OBVIOUS
<1>2. /\ n \in Seq(MessageType) /\ Extends(n, m) /\ n[Len(m) + 1] = Result(c)
      /\ Len(n) = Len(m) + 1 /\ Len(m) \in Nat
  BY <1>1, Appended, MessageTypes
<1>3. ToolsIn(n, Len(m) + 1, Len(n)) /\ IdsIn(n, Len(m) + 1, Len(n)) = {c}
  <2>1. (Len(m) + 1)..Len(n) = {Len(m) + 1}
    BY <1>2
  <2>2. n[Len(m) + 1].role = "tool" /\ n[Len(m) + 1].ids = {c}
    BY <1>2 DEF Result
  <2> QED BY <2>1, <2>2 DEF ToolsIn, IdsIn
<1>4. Cardinality({c}) = 1 /\ {c} \in SUBSET P
  BY FS_Singleton
<1>5. Owed(n, P \ {c})
  BY <1>2, <1>3, <1>4, OwedGiven
<1> QED BY <1>1, <1>5

\* A transcript and the results of P.
LEMMA WithResults ==
  ASSUME NEW m \in Seq(MessageType), NEW P \in SUBSET CallIds
  PROVE  /\ m \o Results(P) \in Seq(MessageType) /\ Extends(m \o Results(P), m)
         /\ Len(m) \in Nat /\ Cardinality(P) \in Nat
         /\ Len(m \o Results(P)) = Len(m) + Cardinality(P)
         /\ \A i \in 1..Cardinality(P) : /\ Nth(P, i) \in P
                                         /\ (m \o Results(P))[Len(m) + i] = Result(Nth(P, i))
<1>0. P \in SUBSET Nat /\ IsFiniteSet(P) /\ Cardinality(P) \in Nat
  BY IdsType
<1>1. PICK r, n : r = Results(P) /\ n = Cardinality(P)
  OBVIOUS
<1>2. \A c \in P : Result(c) \in MessageType
  BY MessageTypes
<1>3. /\ r \in Seq(MessageType) /\ Len(r) = n /\ n \in Nat
      /\ \A i \in 1..n : r[i] = Result(Nth(P, i)) /\ Nth(P, i) \in P
  BY <1>0, <1>1, <1>2, ResultsAre
<1>4. /\ m \o r \in Seq(MessageType) /\ Len(m \o r) = Len(m) + n /\ Len(m) \in Nat
      /\ \A i \in 1..Len(m) : (m \o r)[i] = m[i]
      /\ \A i \in 1..n : (m \o r)[Len(m) + i] = r[i]
  BY <1>3
<1> QED BY <1>1, <1>3, <1>4 DEF Extends

LEMMA PairedResults ==
  ASSUME NEW m \in Seq(MessageType), NEW P \in SUBSET CallIds, Owed(m, P)
  PROVE  Paired(m \o Results(P))
<1>1. PICK n, p : n = m \o Results(P) /\ p = Cardinality(P)
  OBVIOUS
<1>2. /\ n \in Seq(MessageType) /\ Extends(n, m) /\ Len(m) \in Nat /\ p \in Nat
      /\ Len(n) = Len(m) + p
      /\ \A i \in 1..p : Nth(P, i) \in P /\ n[Len(m) + i] = Result(Nth(P, i))
  BY <1>1, WithResults
<1>3. \A j \in (Len(m) + 1)..Len(n) :
        \E i \in 1..p : j = Len(m) + i /\ Nth(P, i) \in P /\ n[j] = Result(Nth(P, i))
  <2> SUFFICES ASSUME NEW j \in (Len(m) + 1)..Len(n)
               PROVE  \E i \in 1..p : j = Len(m) + i /\ Nth(P, i) \in P /\ n[j] = Result(Nth(P, i))
    OBVIOUS
  <2>1. j - Len(m) \in 1..p /\ j = Len(m) + (j - Len(m))
    BY <1>2
  <2> QED BY <1>2, <2>1
<1>9. \A c : Result(c).role = "tool" /\ Result(c).ids = {c}
  BY DEF Result
<1>4. ToolsIn(n, Len(m) + 1, Len(n))
  BY <1>3, <1>9 DEF ToolsIn
<1>5. IdsIn(n, Len(m) + 1, Len(n)) = P
  <2>1. ASSUME NEW j \in (Len(m) + 1)..Len(n) PROVE n[j].ids \subseteq P
    <3>1. PICK i \in 1..p : Nth(P, i) \in P /\ n[j] = Result(Nth(P, i))
      BY <1>3
    <3>2. n[j].ids = {Nth(P, i)}
      BY <1>9, <3>1
    <3> QED BY <3>1, <3>2
  <2>2. ASSUME NEW c \in P PROVE \E j \in (Len(m) + 1)..Len(n) : c \in n[j].ids
    <3>1. PICK i \in 1..p : Nth(P, i) = c
      BY <1>1, IdsType, ResultsAre
    <3>2. Len(m) + i \in (Len(m) + 1)..Len(n) /\ n[Len(m) + i] = Result(c)
      BY <1>2, <3>1
    <3>3. c \in Result(c).ids
      BY DEF Result
    <3> QED BY <3>2, <3>3
  <2> QED BY <2>1, <2>2 DEF IdsIn
<1>6. Owed(n, P \ P)
  BY <1>1, <1>2, <1>4, <1>5, OwedGiven
<1> QED BY <1>1, <1>6, OwedNothing

-----------------------------------------------------------------------------
(* Histories.  The results that follow a request are of its calls, and each *)
(* call has one at most (Sound); at the end, those of P have none (Ready).  *)

Sound(h) ==
  \A i \in DOMAIN h, k \in DOMAIN h :
    k < i /\ Asks(h, k) /\ ToolsIn(h, k + 1, i) =>
      \E c \in h[k].ids \ IdsIn(h, k + 1, i - 1) : h[i] = Result(c)
Ready(h, P) ==
  \A k \in DOMAIN h : Asks(h, k) /\ ToolsIn(h, k + 1, Len(h)) =>
    P \subseteq h[k].ids \ IdsIn(h, k + 1, Len(h))

\* Messages are appended of which the results are those of different calls of P.
LEMMA SoundOlder ==
  ASSUME NEW h \in Seq(MessageType), NEW n \in Seq(MessageType), Extends(n, h), Sound(h),
         NEW i \in DOMAIN h, NEW k \in DOMAIN h, k < i, Asks(n, k), ToolsIn(n, k + 1, i)
  PROVE  \E c \in n[k].ids \ IdsIn(n, k + 1, i - 1) : n[i] = Result(c)
<1>1. /\ i \in Nat /\ k \in Nat /\ 1 <= k /\ i <= Len(h) /\ Len(h) \in Nat
      /\ n[i] = h[i] /\ n[k] = h[k] /\ \A j \in (k + 1)..i : n[j] = h[j]
  BY DEF Extends
<1>2. Asks(h, k) /\ ToolsIn(h, k + 1, i)
  BY <1>1, IdsSame DEF Asks
<1>3. IdsIn(n, k + 1, i - 1) = IdsIn(h, k + 1, i - 1)
  <2>1. \A j \in (k + 1)..(i - 1) : n[j] = h[j]
    BY <1>1
  <2> QED BY <2>1, IdsSame
<1>4. \E c \in h[k].ids \ IdsIn(h, k + 1, i - 1) : h[i] = Result(c)
  BY <1>2 DEF Sound
<1> QED BY <1>1, <1>3, <1>4

LEMMA SoundPlain ==
  ASSUME NEW h \in Seq(MessageType), Sound(h), NEW x \in MessageType, x.role # "tool"
  PROVE  /\ Sound(Append(h, x))
         /\ Ready(Append(h, x), x.ids)
<1>1. PICK n : n = Append(h, x)
  OBVIOUS
<1>2. /\ n \in Seq(MessageType) /\ Extends(n, h) /\ n[Len(h) + 1] = x
      /\ DOMAIN h = 1..Len(h) /\ DOMAIN n = 1..(Len(h) + 1) /\ Len(h) \in Nat
      /\ Len(n) = Len(h) + 1
  BY <1>1, Appended
<1>3. ASSUME NEW i \in DOMAIN n, NEW k \in DOMAIN n, k < i, Asks(n, k), ToolsIn(n, k + 1, i)
      PROVE  \E c \in n[k].ids \ IdsIn(n, k + 1, i - 1) : n[i] = Result(c)
  <2>1. n[i].role = "tool"
    BY <1>2, <1>3 DEF ToolsIn
  <2>2. i \in DOMAIN h /\ k \in DOMAIN h
    BY <1>2, <1>3, <2>1
  <2>3. n \in Seq(MessageType) /\ Extends(n, h) /\ k < i /\ Asks(n, k) /\ ToolsIn(n, k + 1, i)
    BY <1>2, <1>3
  <2> QED BY ONLY h \in Seq(MessageType), Sound(h), <2>2, <2>3, SoundOlder
<1>4. ASSUME NEW k \in DOMAIN n, ToolsIn(n, k + 1, Len(n))
      PROVE  x.ids \subseteq n[k].ids \ IdsIn(n, k + 1, Len(n))
  <2>1. k = Len(h) + 1
    BY <1>2, <1>4 DEF ToolsIn
  <2>2. IdsIn(n, k + 1, Len(n)) = {}
    BY <1>2, <2>1 DEF IdsIn
  <2> QED BY <1>2, <2>1, <2>2
<1>5. Sound(n)
  BY <1>3 DEF Sound
<1>6. Ready(n, x.ids)
  BY <1>4 DEF Ready
<1> QED BY <1>1, <1>5, <1>6

LEMMA ReadyNothing == ASSUME NEW h PROVE Ready(h, {})
BY DEF Ready

LEMMA SoundResult ==
  ASSUME NEW h \in Seq(MessageType), Sound(h), NEW P \in SUBSET CallIds, Ready(h, P), NEW c \in P
  PROVE  /\ Sound(Append(h, Result(c)))
         /\ Ready(Append(h, Result(c)), P \ {c})
<1>1. PICK n : n = Append(h, Result(c))
  OBVIOUS
<1>2. /\ n \in Seq(MessageType) /\ Extends(n, h) /\ n[Len(h) + 1] = Result(c)
      /\ DOMAIN h = 1..Len(h) /\ DOMAIN n = 1..(Len(h) + 1) /\ Len(h) \in Nat
      /\ Len(n) = Len(h) + 1 /\ \A i \in 1..Len(h) : n[i] = h[i]
  BY <1>1, Appended, MessageTypes DEF Extends
<1>3. ASSUME NEW k \in DOMAIN n, Asks(n, k), ToolsIn(n, k + 1, Len(n))
      PROVE  /\ k \in DOMAIN h /\ n[k] = h[k]
             /\ P \subseteq n[k].ids \ IdsIn(n, k + 1, Len(h))
             /\ IdsIn(n, k + 1, Len(n)) = IdsIn(n, k + 1, Len(h)) \cup {c}
  <2>1. k \in DOMAIN h /\ n[k] = h[k] /\ k \in Nat /\ 1 <= k /\ k <= Len(h)
    BY <1>2, <1>3 DEF Asks, Result
  <2>2. \A j \in (k + 1)..Len(h) : n[j] = h[j]
    BY <1>2, <2>1
  <2>3. /\ IdsIn(n, k + 1, Len(h)) = IdsIn(h, k + 1, Len(h))
        /\ ToolsIn(n, k + 1, Len(h)) <=> ToolsIn(h, k + 1, Len(h))
    BY ONLY <2>2, IdsSame
  <2>4. k + 1 \in Nat /\ k + 1 <= Len(h) + 1 /\ Len(h) <= Len(n) /\ Len(n) \in Nat
    BY <1>2, <2>1
  <2>5. /\ IdsIn(n, k + 1, Len(n)) = IdsIn(n, k + 1, Len(h)) \cup IdsIn(n, Len(h) + 1, Len(n))
        /\ ToolsIn(n, k + 1, Len(h))
    BY <1>2, <1>3, <2>4, IdsJoin
  <2>6. IdsIn(n, Len(h) + 1, Len(n)) = {c}
    <3>1. (Len(h) + 1)..Len(n) = {Len(h) + 1} /\ n[Len(h) + 1].ids = {c}
      BY <1>2 DEF Result
    <3> QED BY <3>1 DEF IdsIn
  <2>7. Asks(h, k)
    BY <1>3, <2>1 DEF Asks
  <2>8. P \subseteq h[k].ids \ IdsIn(h, k + 1, Len(h))
    BY <2>1, <2>3, <2>5, <2>7 DEF Ready
  <2> QED BY <2>1, <2>3, <2>5, <2>6, <2>8
<1>4. Sound(n)
  <2> SUFFICES ASSUME NEW i \in DOMAIN n, NEW k \in DOMAIN n, k < i, Asks(n, k),
                      ToolsIn(n, k + 1, i)
               PROVE  \E x \in n[k].ids \ IdsIn(n, k + 1, i - 1) : n[i] = Result(x)
    BY DEF Sound
  <2>1. CASE i = Len(h) + 1
    <3>1. i = Len(n) /\ i - 1 = Len(h)
      BY <1>2, <2>1
    <3>2. P \subseteq n[k].ids \ IdsIn(n, k + 1, Len(h))
      BY <1>3, <3>1
    <3> QED BY <1>2, <2>1, <3>1, <3>2
  <2>2. CASE i # Len(h) + 1
    <3>1. i \in DOMAIN h /\ k \in DOMAIN h
      BY <1>2, <2>2
    <3>2. n \in Seq(MessageType) /\ Extends(n, h) /\ k < i /\ Asks(n, k) /\ ToolsIn(n, k + 1, i)
      BY <1>2
    <3> QED BY ONLY h \in Seq(MessageType), Sound(h), <3>1, <3>2, SoundOlder
  <2> QED BY <2>1, <2>2
<1>5. Ready(n, P \ {c})
  BY <1>3 DEF Ready
<1> QED BY <1>1, <1>4, <1>5

LEMMA SoundResults ==
  ASSUME NEW h \in Seq(MessageType), Sound(h), NEW P \in SUBSET CallIds, Ready(h, P)
  PROVE  Sound(h \o Results(P))
<1>1. PICK n, p : n = h \o Results(P) /\ p = Cardinality(P)
  OBVIOUS
<1>2. /\ n \in Seq(MessageType) /\ Extends(n, h) /\ Len(h) \in Nat /\ p \in Nat
      /\ Len(n) = Len(h) + p
      /\ \A x \in 1..p : Nth(P, x) \in P /\ n[Len(h) + x] = Result(Nth(P, x))
  BY <1>1, WithResults
<1>3. DOMAIN n = 1..(Len(h) + p) /\ DOMAIN h = 1..Len(h) /\ \A i \in 1..Len(h) : n[i] = h[i]
  BY <1>2 DEF Extends
<1>4. \A x, y \in 1..p : x # y => Nth(P, x) # Nth(P, y)
  BY <1>1, IdsType, ResultsAre
<1>5. \A c : Result(c).role = "tool" /\ Result(c).ids = {c}
  BY DEF Result
<1> SUFFICES ASSUME NEW i \in DOMAIN n, NEW k \in DOMAIN n, k < i, Asks(n, k),
                    ToolsIn(n, k + 1, i)
             PROVE  \E c \in n[k].ids \ IdsIn(n, k + 1, i - 1) : n[i] = Result(c)
  BY <1>1 DEF Sound
<1>6. CASE i \in DOMAIN h
  <2>1. k \in DOMAIN h
    BY <1>3, <1>6
  <2> QED BY <1>2, <1>6, <2>1, SoundOlder
<1>7. CASE i \notin DOMAIN h
  <2>1. PICK x \in 1..p : i = Len(h) + x
    <3>1. i - Len(h) \in 1..p /\ i = Len(h) + (i - Len(h))
      BY <1>2, <1>3, <1>7
    <3> QED BY <3>1
  <2>2. /\ k \in Nat /\ 1 <= k /\ k <= Len(h) /\ n[k] = h[k] /\ k \in DOMAIN h
        /\ i \in Nat /\ x \in Nat /\ 1 <= x
    <3>1. CASE k \in DOMAIN h
      BY <1>2, <1>3, <2>1, <3>1
    <3>2. CASE k \notin DOMAIN h
      <4>1. k - Len(h) \in 1..p /\ k = Len(h) + (k - Len(h))
        BY <1>2, <1>3, <3>2
      <4>2. n[k].role = "tool"
        BY <1>2, <1>5, <4>1
      <4> QED BY <4>2 DEF Asks
    <3> QED BY <3>1, <3>2
  <2>3. /\ IdsIn(n, k + 1, Len(h)) = IdsIn(h, k + 1, Len(h))
        /\ ToolsIn(n, k + 1, Len(h)) <=> ToolsIn(h, k + 1, Len(h))
    <3>1. \A j \in (k + 1)..Len(h) : n[j] = h[j]
      BY <1>2, <1>3, <2>2
    <3> QED BY ONLY <3>1, IdsSame
  <2>4. ToolsIn(n, k + 1, Len(h))
    BY <1>2, <2>1, <2>2 DEF ToolsIn
  <2>5. P \subseteq h[k].ids \ IdsIn(h, k + 1, Len(h))
    <3>1. Asks(h, k)
      BY <2>2 DEF Asks
    <3> QED BY <2>2, <2>3, <2>4, <3>1 DEF Ready
  <2>6. IdsIn(n, k + 1, i - 1) = IdsIn(n, k + 1, Len(h)) \cup IdsIn(n, Len(h) + 1, i - 1)
    <3>1. /\ k + 1 \in Nat /\ Len(h) \in Nat /\ i - 1 \in Nat
          /\ k + 1 <= Len(h) + 1 /\ Len(h) <= i - 1
      BY <1>2, <2>1, <2>2
    <3> QED BY <3>1, IdsJoin
  <2>7. Nth(P, x) \notin IdsIn(n, Len(h) + 1, i - 1)
    <3>1. ASSUME NEW j \in (Len(h) + 1)..(i - 1) PROVE Nth(P, x) \notin n[j].ids
      <4>1. j - Len(h) \in 1..p /\ j = Len(h) + (j - Len(h)) /\ j - Len(h) # x
        BY <1>2, <2>1, <2>2
      <4>2. PICK y \in 1..p : y = j - Len(h)
        BY <4>1
      <4>3. n[j] = Result(Nth(P, y)) /\ Nth(P, y) # Nth(P, x)
        BY <1>2, <1>4, <2>1, <4>1, <4>2
      <4> QED BY <1>5, <4>3
    <3> QED BY <3>1 DEF IdsIn
  <2>8. Nth(P, x) \in P /\ n[i] = Result(Nth(P, x))
    BY <1>2, <2>1
  <2> QED BY <2>2, <2>3, <2>5, <2>6, <2>7, <2>8
<1> QED BY <1>6, <1>7

\* What is cut off in front takes no request away from the results after it.
LEMMA SoundTail ==
  ASSUME NEW h \in Seq(MessageType), Sound(h), NEW a \in Nat, 1 <= a, a <= Len(h)
  PROVE  SubSeq(h, a, Len(h)) \in Seq(MessageType) /\ Sound(SubSeq(h, a, Len(h)))
<1>1. PICK s : s = SubSeq(h, a, Len(h))
  OBVIOUS
<1>2. /\ s \in Seq(MessageType) /\ Len(h) \in Nat /\ Len(s) = Len(h) - a + 1
      /\ DOMAIN s = 1..(Len(h) - a + 1) /\ DOMAIN h = 1..Len(h)
      /\ \A i \in 1..(Len(h) - a + 1) : s[i] = h[i + a - 1]
  BY <1>1
<1>3. ASSUME NEW x \in Nat, NEW y \in Nat, 1 <= x, y <= Len(s)
      PROVE  /\ IdsIn(s, x, y) = IdsIn(h, x + a - 1, y + a - 1)
             /\ ToolsIn(s, x, y) => ToolsIn(h, x + a - 1, y + a - 1)
  <2>1. ASSUME NEW j \in x..y
        PROVE  j + a - 1 \in (x + a - 1)..(y + a - 1) /\ s[j] = h[j + a - 1]
    BY <1>2, <1>3
  <2>2. ASSUME NEW j \in (x + a - 1)..(y + a - 1)
        PROVE  j - a + 1 \in x..y /\ h[j] = s[j - a + 1]
    <3>1. j - a + 1 \in x..y /\ (j - a + 1) + a - 1 = j
      BY <1>2, <1>3
    <3> QED BY <2>1, <3>1
  <2>3. IdsIn(s, x, y) = IdsIn(h, x + a - 1, y + a - 1)
    BY <2>1, <2>2 DEF IdsIn
  <2>4. ToolsIn(s, x, y) => ToolsIn(h, x + a - 1, y + a - 1)
    BY <2>1, <2>2 DEF ToolsIn
  <2> QED BY <2>3, <2>4
<1>4. ASSUME NEW i \in DOMAIN s, NEW k \in DOMAIN s, k < i, Asks(s, k), ToolsIn(s, k + 1, i)
      PROVE  \E c \in s[k].ids \ IdsIn(s, k + 1, i - 1) : s[i] = Result(c)
  <2>0. i \in Nat /\ k \in Nat /\ 1 <= k /\ k < i /\ i <= Len(s)
    BY <1>2, <1>4
  <2>1. PICK I \in DOMAIN h, K \in DOMAIN h :
          /\ I = i + a - 1 /\ K = k + a - 1 /\ s[i] = h[I] /\ s[k] = h[K] /\ K < I
    <3>1. i + a - 1 \in DOMAIN h /\ k + a - 1 \in DOMAIN h /\ k + a - 1 < i + a - 1
      BY <1>2, <1>4, <2>0
    <3> QED BY <1>2, <3>1
  <2>2. Asks(h, K)
    BY <1>4, <2>1 DEF Asks
  <2>3. i \in Nat /\ k + 1 \in Nat /\ i - 1 \in Nat /\ 1 <= k + 1 /\ i <= Len(s) /\ i - 1 <= Len(s)
        /\ k + 1 + a - 1 = K + 1 /\ i - 1 + a - 1 = I - 1
    <3>1. Len(s) \in Nat
      BY <1>2
    <3>2. i \in Nat /\ k + 1 \in Nat /\ i - 1 \in Nat /\ 1 <= k + 1
          /\ i <= Len(s) /\ i - 1 <= Len(s)
      BY <2>0, <3>1
    <3>3. k + 1 + a - 1 = K + 1 /\ i - 1 + a - 1 = I - 1
      BY <2>0, <2>1
    <3> QED BY <3>2, <3>3
  <2>4. ToolsIn(h, K + 1, I)
    BY <1>3, <1>4, <2>1, <2>3
  <2>5. IdsIn(s, k + 1, i - 1) = IdsIn(h, K + 1, I - 1)
    BY <1>3, <2>3
  <2>6. \E c \in h[K].ids \ IdsIn(h, K + 1, I - 1) : h[I] = Result(c)
    BY <2>1, <2>2, <2>4 DEF Sound
  <2> QED BY <2>1, <2>5, <2>6
<1>5. Sound(s)
  BY <1>4 DEF Sound
<1> QED BY <1>1, <1>2, <1>5

-----------------------------------------------------------------------------
(* The pass of sanitizeHistoryForProvider.                                  *)

Passes == [out : Seq(MessageType), in : BOOLEAN, pending : SUBSET CallIds]
Nothing == [out |-> <<>>, in |-> FALSE, pending |-> {}]

KeptBy(h, N, f) == f = [i \in 0..N |-> IF i = 0 THEN Nothing ELSE Keep(f[i - 1], h[i])]

LEMMA KeptExists == ASSUME NEW h, NEW N \in Nat PROVE \E f : KeptBy(h, N, f)
<1> DEFINE Put(f, i) == IF i = 0 THEN Nothing ELSE Keep(f[i - 1], h[i])
           P(n) == \E f : f = [i \in 0..n |-> Put(f, i)]
           T == {n \in Nat : ~P(n)}
<1>1. ASSUME T # {} PROVE FALSE
  <2>1. PICK n \in T : \A k \in T : n <= k
    <3>1. T \in SUBSET Nat
      <4> HIDE DEF P
      <4> QED OBVIOUS
    <3> HIDE DEF T
    <3> QED BY <1>1, <3>1, Least
  <2>2. n \in Nat
    OBVIOUS
  <2>3. CASE n = 0
    <3> DEFINE g == [i \in 0..0 |-> Nothing]
    <3>1. g = [i \in 0..0 |-> Put(g, i)]
      <4> HIDE DEF Nothing
      <4> QED OBVIOUS
    <3>2. P(0)
      BY <3>1
    <3> QED BY <2>3, <3>2
  <2>4. CASE n # 0
    <3>1. n - 1 \in Nat /\ ~(n <= n - 1)
      BY <2>2, <2>4
    <3>2. n - 1 \notin T
      <4> HIDE DEF T
      <4> QED BY <2>1, <3>1
    <3>3. P(n - 1)
      <4> HIDE DEF P
      <4> QED BY <3>1, <3>2
    <3>4. PICK f : f = [i \in 0..(n - 1) |-> Put(f, i)]
      BY <3>3
    <3> DEFINE g == [i \in 0..n |-> IF i = n THEN Put(f, n) ELSE f[i]]
    <3>5. ASSUME NEW i \in 0..n PROVE g[i] = Put(g, i)
      <4>1. i # 0 => g[i - 1] = f[i - 1]
        BY <2>2
      <4>2. Put(g, i) = Put(f, i)
        <5> HIDE DEF g
        <5> QED BY <4>1
      <4>3. CASE i = n
        BY <4>2, <4>3
      <4>4. CASE i # n
        <5>1. i \in 0..(n - 1)
          BY <2>2, <4>4
        <5>2. f[i] = Put(f, i)
          <6> HIDE DEF Put
          <6> QED BY <3>4, <5>1
        <5> QED BY <4>2, <4>4, <5>2
      <4> QED BY <4>3, <4>4
    <3>6. g = [i \in 0..n |-> Put(g, i)]
      <4> HIDE DEF Put
      <4> QED BY <3>5
    <3>7. P(n)
      <4> HIDE DEF Put, g
      <4> QED BY <3>6
    <3> QED BY <2>1, <3>7
  <2> QED BY <2>3, <2>4
<1>2. P(N)
  <2> HIDE DEF P
  <2> QED BY <1>1
<1> QED BY <1>2 DEF KeptBy

LEMMA KeptEquation ==
  ASSUME NEW h \in Seq(MessageType)
  PROVE  /\ Kept(h)[0] = Nothing
         /\ \A i \in 1..Len(h) : Kept(h)[i] = Keep(Kept(h)[i - 1], h[i])
<1> DEFINE G(f) == [i \in 0..Len(h) |-> IF i = 0 THEN Nothing ELSE Keep(f[i - 1], h[i])]
           H(f) == [i \in 0..Len(h) |-> IF i = 0 THEN [out |-> <<>>, in |-> FALSE, pending |-> {}]
                      ELSE CHOOSE b \in {Keep(a, h[i]) : a \in {f[i - 1]}} : TRUE]
<1>1. \A f : G(f) = H(f)
  <2> SUFFICES ASSUME NEW f PROVE G(f) = H(f)
    OBVIOUS
  <2>1. ASSUME NEW i \in 0..Len(h)
        PROVE  (CHOOSE b \in {Keep(a, h[i]) : a \in {f[i - 1]}} : TRUE) = Keep(f[i - 1], h[i])
    <3> HIDE DEF Keep
    <3>1. {Keep(a, h[i]) : a \in {f[i - 1]}} = {Keep(f[i - 1], h[i])}
      OBVIOUS
    <3> QED BY <3>1
  <2> HIDE DEF Keep
  <2> QED BY <2>1 DEF Nothing
<1>2. Kept(h) = CHOOSE f : f = H(f)
  BY DEF Kept
<1>3. \E f : f = G(f)
  <2>1. PICK f : KeptBy(h, Len(h), f)
    <3>1. Len(h) \in Nat
      OBVIOUS
    <3> QED BY <3>1, KeptExists
  <2> QED BY <2>1 DEF KeptBy
<1>4. PICK k : k = Kept(h)
  OBVIOUS
<1>5. k = G(k)
  <2>1. \E f : f = H(f)
    <3> HIDE DEF G, H
    <3> QED BY <1>1, <1>3
  <2> HIDE DEF G, H
  <2> QED BY <1>1, <1>2, <1>4, <2>1
<1>6. k[0] = Nothing /\ \A i \in 1..Len(h) : k[i] = Keep(k[i - 1], h[i])
  <2> HIDE DEF Keep, Nothing
  <2> QED BY <1>5
<1> QED BY <1>4, <1>6

LEMMA FlushType ==
  ASSUME NEW a \in Passes
  PROVE  /\ Flush(a) \in Passes /\ ~Flush(a).in /\ Flush(a).pending = {}
         /\ Flush(a).out = a.out \o Results(a.pending)
<1>1. a.out \in Seq(MessageType) /\ a.pending \in SUBSET CallIds
  BY DEF Passes
<1>2. a.out \o Results(a.pending) \in Seq(MessageType)
  BY <1>1, WithResults
<1> QED BY <1>2 DEF Flush, Passes

LEMMA KeepType ==
  ASSUME NEW a \in Passes, NEW m \in MessageType
  PROVE  Keep(a, m) \in Passes
<1>1. PICK f : f = Flush(a)
  OBVIOUS
<1>2. f \in Passes
  BY <1>1, FlushType
<1>3. Append(a.out, m) \in Seq(MessageType) /\ Append(f.out, m) \in Seq(MessageType)
  BY <1>2 DEF Passes
<1>4. KeepTool(a, m) \in Passes
  BY <1>3 DEF KeepTool, Passes
<1>5. [f EXCEPT !.out = Append(f.out, m)] \in Passes
  BY <1>2, <1>3 DEF Passes
<1>6. KeepAssistant(f, m) \in Passes
  <2>1. m.ids \in SUBSET CallIds
    BY DEF MessageType
  <2>2. [out |-> Append(f.out, m), in |-> TRUE, pending |-> m.ids] \in Passes
    BY <1>3, <2>1 DEF Passes
  <2> QED BY <1>2, <1>5, <2>2 DEF KeepAssistant
<1>7. m.role \in {"tool", "assistant", "user"}
  BY DEF MessageType
<1> QED BY <1>1, <1>4, <1>5, <1>6, <1>7 DEF Keep

LEMMA KeptType ==
  ASSUME NEW h \in Seq(MessageType)
  PROVE  Kept(h)[Len(h)] \in Passes
<1> DEFINE T == {i \in 0..Len(h) : Kept(h)[i] \notin Passes}
<1>1. Len(h) \in Nat
  OBVIOUS
<1>2. ASSUME T # {} PROVE FALSE
  <2>1. PICK i \in T : \A k \in T : i <= k
    <3>1. T \in SUBSET Nat
      BY <1>1
    <3> HIDE DEF T
    <3> QED BY <1>2, <3>1, Least
  <2>2. i \in Nat /\ i <= Len(h) /\ Kept(h)[i] \notin Passes
    BY <1>1
  <2>3. i # 0
    <3>1. Nothing \in Passes
      BY DEF Nothing, Passes
    <3> QED BY <2>2, <3>1, KeptEquation
  <2>4. i - 1 \in 0..Len(h) /\ ~(i <= i - 1)
    BY <1>1, <2>2, <2>3
  <2>5. Kept(h)[i - 1] \in Passes
    BY <2>1, <2>4
  <2>6. i \in 1..Len(h) /\ h[i] \in MessageType
    BY <1>1, <2>2, <2>3
  <2>7. Kept(h)[i] = Keep(Kept(h)[i - 1], h[i])
    BY <2>6, KeptEquation
  <2> QED BY <2>2, <2>5, <2>6, <2>7, KeepType
<1> QED BY <1>1, <1>2

LEMMA SanitizeType ==
  ASSUME NEW h \in Seq(MessageType) PROVE Sanitize(h) \in Seq(MessageType)
<1>1. Flush(Kept(h)[Len(h)]) \in Passes
  BY KeptType, FlushType
<1> QED BY <1>1 DEF Sanitize, Passes

\* What the pass has kept, and the request of the history h it waits at.
Fit(a) == Owed(a.out, a.pending) /\ Prompted(a.out) /\ Sound(a.out) /\ Ready(a.out, a.pending)
At(h, n, a) ==
  IF a.in
  THEN \E k \in DOMAIN h : /\ k <= n /\ Asks(h, k) /\ ToolsIn(h, k + 1, n)
                           /\ a.pending = h[k].ids \ IdsIn(h, k + 1, n)
  ELSE a.pending = {}

LEMMA PromptedLonger ==
  ASSUME NEW m \in Seq(MessageType), NEW n \in Seq(MessageType), Extends(n, m), Prompted(m),
         \A i \in (Len(m) + 1)..Len(n) :
           Asks(n, i) => i > 1 /\ n[i - 1].role \in {"user", "tool"}
  PROVE  Prompted(n)
<1>1. /\ Len(m) \in Nat /\ Len(n) \in Nat /\ DOMAIN m = 1..Len(m) /\ DOMAIN n = 1..Len(n)
      /\ \A j \in 1..Len(m) : n[j] = m[j]
  BY DEF Extends
<1> SUFFICES ASSUME NEW i \in DOMAIN n, Asks(n, i)
             PROVE  i > 1 /\ n[i - 1].role \in {"user", "tool"}
  BY DEF Prompted
<1>2. CASE i \in DOMAIN m
  <2>1. Asks(m, i)
    BY <1>1, <1>2 DEF Asks
  <2>2. i > 1 /\ m[i - 1].role \in {"user", "tool"}
    BY <1>2, <2>1 DEF Prompted
  <2>3. i - 1 \in 1..Len(m)
    BY <1>1, <1>2, <2>2
  <2> QED BY <1>1, <2>2, <2>3
<1>3. CASE i \notin DOMAIN m
  <2>1. i \in (Len(m) + 1)..Len(n)
    BY <1>1, <1>3
  <2> QED BY <2>1
<1> QED BY <1>2, <1>3

LEMMA FitFlush ==
  ASSUME NEW a \in Passes, Fit(a)
  PROVE  Fit(Flush(a))
<1>1. PICK m, P, n : m = a.out /\ P = a.pending /\ n = m \o Results(P)
  OBVIOUS
<1>2. m \in Seq(MessageType) /\ P \in SUBSET CallIds
  BY <1>1 DEF Passes
<1>3. Owed(m, P) /\ Prompted(m) /\ Sound(m) /\ Ready(m, P)
  BY <1>1 DEF Fit
<1>4. n \in Seq(MessageType) /\ Extends(n, m)
  BY <1>1, <1>2, WithResults
<1>5. Owed(n, {}) /\ Sound(n) /\ Ready(n, {})
  BY <1>1, <1>2, <1>3, PairedResults, OwedNothing, SoundResults, ReadyNothing
<1>6. Prompted(n)
  <2>1. /\ Len(m) \in Nat /\ Cardinality(P) \in Nat /\ Len(n) = Len(m) + Cardinality(P)
        /\ \A i \in 1..Cardinality(P) : n[Len(m) + i] = Result(Nth(P, i))
    BY <1>1, <1>2, WithResults
  <2>2. \A c : Result(c).role = "tool"
    BY DEF Result
  <2>3. ASSUME NEW i \in (Len(m) + 1)..Len(n) PROVE ~Asks(n, i)
    <3>1. i - Len(m) \in 1..Cardinality(P) /\ Len(m) + (i - Len(m)) = i
      BY <2>1
    <3>2. n[i].role = "tool"
      BY <2>1, <2>2, <3>1
    <3> QED BY <3>2 DEF Asks
  <2> QED BY <1>2, <1>3, <1>4, <2>3, PromptedLonger
<1>7. Flush(a).out = n /\ Flush(a).pending = {}
  BY <1>1, FlushType
<1> QED BY <1>5, <1>6, <1>7 DEF Fit

\* One more message that answers nothing and asks for nothing.
LEMMA FitPlain ==
  ASSUME NEW m \in Seq(MessageType), Owed(m, {}), Prompted(m), Sound(m),
         NEW x \in MessageType, x.role # "tool", ~(x.role = "assistant" /\ x.ids # {})
  PROVE  LET n == Append(m, x)
         IN  Owed(n, {}) /\ Prompted(n) /\ Sound(n) /\ Ready(n, {})
<1>1. PICK n : n = Append(m, x)
  OBVIOUS
<1>2. n \in Seq(MessageType) /\ Extends(n, m) /\ Len(n) = Len(m) + 1 /\ n[Len(m) + 1] = x
      /\ Len(m) \in Nat
  BY <1>1, Appended
<1>3. Owed(n, {}) /\ Sound(n) /\ Ready(n, {})
  BY <1>1, PairedPlain, OwedNothing, SoundPlain, ReadyNothing
<1>4. \A i \in (Len(m) + 1)..Len(n) : ~Asks(n, i)
  BY <1>2 DEF Asks
<1>5. Prompted(n)
  BY <1>2, <1>4, PromptedLonger
<1> QED BY <1>1, <1>3, <1>5

LEMMA FitRequest ==
  ASSUME NEW m \in Seq(MessageType), Owed(m, {}), Prompted(m), Sound(m),
         NEW x \in MessageType, x.role = "assistant", x.ids # {},
         m # <<>>, Last(m).role \in {"user", "tool"}
  PROVE  LET n == Append(m, x)
         IN  Owed(n, x.ids) /\ Prompted(n) /\ Sound(n) /\ Ready(n, x.ids)
<1>1. PICK n : n = Append(m, x)
  OBVIOUS
<1>2. n \in Seq(MessageType) /\ Extends(n, m) /\ Len(n) = Len(m) + 1 /\ n[Len(m) + 1] = x
      /\ Len(m) \in Nat
  BY <1>1, Appended
<1>3. x.ids \in SUBSET CallIds /\ x = Assistant(x.ids)
  BY DEF MessageType, Assistant
<1>4. Owed(n, x.ids)
  BY <1>1, <1>3, OwedRequest, OwedNothing
<1>5. Sound(n) /\ Ready(n, x.ids)
  BY <1>1, SoundPlain
<1>6. Prompted(n)
  <2>1. Len(m) > 0 /\ Last(m) = m[Len(m)]
    BY DEF Last
  <2>2. n[Len(m)] = m[Len(m)]
    BY <1>2, <2>1 DEF Extends
  <2>3. ASSUME NEW i \in (Len(m) + 1)..Len(n)
        PROVE  i > 1 /\ n[i - 1].role \in {"user", "tool"}
    <3>1. i = Len(m) + 1 /\ i > 1 /\ i - 1 = Len(m)
      BY <1>2, <2>1
    <3> QED BY <2>1, <2>2, <3>1
  <2> QED BY <1>2, <2>3, PromptedLonger
<1> QED BY <1>1, <1>4, <1>5, <1>6

LEMMA FitResult ==
  ASSUME NEW m \in Seq(MessageType), NEW P \in SUBSET CallIds, Owed(m, P), Prompted(m), Sound(m),
         Ready(m, P), NEW c \in P
  PROVE  LET n == Append(m, Result(c))
         IN  Owed(n, P \ {c}) /\ Prompted(n) /\ Sound(n) /\ Ready(n, P \ {c})
<1>1. PICK n : n = Append(m, Result(c))
  OBVIOUS
<1>2. n \in Seq(MessageType) /\ Extends(n, m) /\ Len(n) = Len(m) + 1 /\ n[Len(m) + 1] = Result(c)
      /\ Len(m) \in Nat
  BY <1>1, Appended, MessageTypes
<1>3. Owed(n, P \ {c}) /\ Sound(n) /\ Ready(n, P \ {c})
  BY <1>1, OwedResult, SoundResult
<1>4. \A i \in (Len(m) + 1)..Len(n) : ~Asks(n, i)
  BY <1>2 DEF Asks, Result
<1>5. Prompted(n)
  BY <1>2, <1>4, PromptedLonger
<1> QED BY <1>1, <1>3, <1>5

\* case "tool": the result is of a call the pass waits for, as the history is Sound.
LEMMA FitTool ==
  ASSUME NEW h \in Seq(MessageType), Sound(h), NEW n \in DOMAIN h, h[n].role = "tool",
         NEW a \in Passes, Fit(a), At(h, n - 1, a)
  PROVE  Fit(KeepTool(a, h[n])) /\ At(h, n, KeepTool(a, h[n]))
<1>1. PICK x, m, P : x = h[n] /\ m = a.out /\ P = a.pending
  OBVIOUS
<1>2. /\ m \in Seq(MessageType) /\ P \in SUBSET CallIds /\ a.in \in BOOLEAN
      /\ n \in Nat /\ 1 <= n /\ n <= Len(h) /\ Len(h) \in Nat
  BY <1>1 DEF Passes
<1>3. CASE ~a.in
  <2>1. KeepTool(a, h[n]) = a
    BY <1>3 DEF KeepTool
  <2> QED BY <1>3, <2>1 DEF At
<1>4. CASE a.in
  <2>1. PICK k \in DOMAIN h : /\ k <= n - 1 /\ Asks(h, k) /\ ToolsIn(h, k + 1, n - 1)
                              /\ P = h[k].ids \ IdsIn(h, k + 1, n - 1)
    BY <1>1, <1>4 DEF At
  <2>2. k \in Nat /\ 1 <= k /\ k < n
    BY <1>2, <2>1
  <2>3. n..n = {n}
    BY <1>2
  <2>4. /\ IdsIn(h, k + 1, n) = IdsIn(h, k + 1, n - 1) \cup IdsIn(h, n, n)
        /\ ToolsIn(h, k + 1, n) <=> ToolsIn(h, k + 1, n - 1) /\ ToolsIn(h, n, n)
    <3>1. (k + 1)..n = ((k + 1)..(n - 1)) \cup (n..n)
      BY <1>2, <2>2
    <3> QED BY <3>1 DEF IdsIn, ToolsIn
  <2>5. ToolsIn(h, k + 1, n)
    BY <2>1, <2>3, <2>4 DEF ToolsIn
  <2>6. PICK c \in P : x = Result(c)
    BY <1>1, <2>1, <2>2, <2>5 DEF Sound
  <2>7. x.ids = {c}
    BY <2>6 DEF Result
  <2>8. KeepTool(a, h[n]) = [out |-> Append(m, Result(c)), in |-> TRUE, pending |-> P \ {c}]
    BY <1>1, <1>4, <2>6, <2>7 DEF KeepTool
  <2>9. Fit(KeepTool(a, h[n]))
    <3>1. Owed(m, P) /\ Prompted(m) /\ Sound(m) /\ Ready(m, P)
      BY <1>1 DEF Fit
    <3> QED BY <1>2, <2>8, <3>1, FitResult DEF Fit
  <2>10. IdsIn(h, n, n) = {c}
    BY <1>1, <2>3, <2>7 DEF IdsIn
  <2>11. P \ {c} = h[k].ids \ IdsIn(h, k + 1, n)
    BY <2>1, <2>4, <2>10
  <2> QED BY <2>1, <2>2, <2>5, <2>8, <2>9, <2>11 DEF At
<1> QED BY <1>2, <1>3, <1>4

LEMMA FitKeep ==
  ASSUME NEW h \in Seq(MessageType), Sound(h), NEW n \in DOMAIN h,
         NEW a \in Passes, Fit(a), At(h, n - 1, a)
  PROVE  Fit(Keep(a, h[n])) /\ At(h, n, Keep(a, h[n]))
<1>1. PICK x, f, m : x = h[n] /\ f = Flush(a) /\ m = f.out
  OBVIOUS
<1>2. /\ f \in Passes /\ ~f.in /\ f.pending = {} /\ Fit(f) /\ m \in Seq(MessageType)
      /\ x \in MessageType /\ n \in Nat /\ 1 <= n
  <2>1. f \in Passes /\ ~f.in /\ f.pending = {} /\ Fit(f)
    BY <1>1, FlushType, FitFlush
  <2>2. m \in Seq(MessageType)
    BY <1>1, <2>1 DEF Passes
  <2> QED BY <1>1, <2>1, <2>2
<1>3. Owed(m, {}) /\ Prompted(m) /\ Sound(m)
  BY <1>1, <1>2 DEF Fit
<1>4. PICK g : g = [f EXCEPT !.out = Append(f.out, x)]
  OBVIOUS
<1>5. g.out = Append(m, x) /\ g.pending = {} /\ ~g.in
  BY <1>1, <1>2, <1>4 DEF Passes
<1>6. ASSUME x.role # "tool", ~(x.role = "assistant" /\ x.ids # {})
      PROVE  Fit(g) /\ At(h, n, g)
  <2>1. Fit(g)
    BY <1>2, <1>3, <1>5, <1>6, FitPlain DEF Fit
  <2> QED BY <1>5, <2>1 DEF At
<1>7. CASE x.role = "tool"
  BY <1>1, <1>7, FitTool DEF Keep
<1>8. CASE x.role = "user"
  <2>1. Keep(a, x) = g
    BY <1>1, <1>4, <1>8 DEF Keep
  <2> QED BY <1>1, <1>6, <1>8, <2>1
<1>9. CASE x.role = "assistant"
  <2>0. Keep(a, x) = KeepAssistant(f, x)
    BY <1>1, <1>9 DEF Keep
  <2>1. CASE x.ids = {}
    <3>1. Keep(a, x) = g
      BY <1>4, <2>0, <2>1 DEF KeepAssistant
    <3> QED BY <1>1, <1>6, <1>9, <2>1, <3>1
  <2>2. CASE x.ids # {} /\ f.out # <<>> /\ Last(f.out).role \in {"user", "tool"}
    <3>1. Keep(a, x) = [out |-> Append(m, x), in |-> TRUE, pending |-> x.ids]
      BY <1>1, <2>0, <2>2 DEF KeepAssistant
    <3>2. Fit(Keep(a, x))
      BY <1>1, <1>2, <1>3, <1>9, <2>2, <3>1, FitRequest DEF Fit
    <3>3. Asks(h, n)
      BY <1>1, <1>9, <2>2 DEF Asks
    <3>4. ToolsIn(h, n + 1, n) /\ IdsIn(h, n + 1, n) = {}
      BY <1>2 DEF ToolsIn, IdsIn
    <3>5. At(h, n, Keep(a, x))
      <4>1. x.ids = h[n].ids \ IdsIn(h, n + 1, n) /\ n <= n
        BY <1>1, <1>2, <3>4
      <4>2. \E k \in DOMAIN h : /\ k <= n /\ Asks(h, k) /\ ToolsIn(h, k + 1, n)
                                /\ x.ids = h[k].ids \ IdsIn(h, k + 1, n)
        BY <3>3, <3>4, <4>1
      <4>3. PICK b : b = Keep(a, x)
        OBVIOUS
      <4>4. b.in /\ b.pending = x.ids
        BY <3>1, <4>3
      <4> QED BY <4>2, <4>3, <4>4 DEF At
    <3> QED BY <1>1, <3>2, <3>5
  <2>3. CASE x.ids # {} /\ ~(f.out # <<>> /\ Last(f.out).role \in {"user", "tool"})
    <3>1. Keep(a, x) = f
      BY <2>0, <2>3 DEF KeepAssistant
    <3> QED BY <1>1, <1>2, <3>1 DEF At
  <2> QED BY <2>1, <2>2, <2>3
<1>10. x.role \in {"user", "assistant", "tool"}
  BY <1>2 DEF MessageType
<1> QED BY <1>7, <1>8, <1>9, <1>10

LEMMA FitNothing == Fit(Nothing)
<1>1. Nothing.out = <<>> /\ Nothing.pending = {} /\ DOMAIN <<>> = {}
  BY DEF Nothing
<1> QED BY <1>1 DEF Fit, Owed, Prompted, Sound, Ready

LEMMA KeptFits ==
  ASSUME NEW h \in Seq(MessageType), Sound(h)
  PROVE  Fit(Kept(h)[Len(h)])
<1> DEFINE Good(i) == /\ Kept(h)[i] \in Passes /\ Fit(Kept(h)[i]) /\ At(h, i, Kept(h)[i])
           T == {i \in 0..Len(h) : ~Good(i)}
<1>1. Len(h) \in Nat
  OBVIOUS
<1>2. ASSUME T # {} PROVE FALSE
  <2>1. PICK i \in T : \A k \in T : i <= k
    <3>1. T \in SUBSET Nat
      <4> HIDE DEF Good
      <4> QED BY <1>1
    <3> HIDE DEF T
    <3> QED BY <1>2, <3>1, Least
  <2>2. i \in Nat /\ i <= Len(h) /\ ~Good(i)
    <3> HIDE DEF Good
    <3> QED BY <1>1
  <2>3. i # 0
    <3>1. Nothing \in Passes /\ At(h, 0, Nothing)
      BY DEF Nothing, Passes, At
    <3> QED BY <2>2, <3>1, FitNothing, KeptEquation
  <2>4. i - 1 \in 0..Len(h) /\ ~(i <= i - 1)
    BY <1>1, <2>2, <2>3
  <2>5. Good(i - 1)
    <3> HIDE DEF Good
    <3> QED BY <2>1, <2>4
  <2>6. i \in 1..Len(h) /\ h[i] \in MessageType /\ i \in DOMAIN h
    BY <1>1, <2>2, <2>3
  <2>7. Kept(h)[i] = Keep(Kept(h)[i - 1], h[i])
    BY <2>6, KeptEquation
  <2>8. PICK a : a = Kept(h)[i - 1]
    OBVIOUS
  <2>9. Keep(a, h[i]) \in Passes /\ Fit(Keep(a, h[i])) /\ At(h, i, Keep(a, h[i]))
    BY <2>5, <2>6, <2>8, KeepType, FitKeep
  <2> QED BY <2>2, <2>7, <2>8, <2>9
<1>3. Good(Len(h))
  <2> HIDE DEF Good
  <2> QED BY <1>1, <1>2
<1> QED BY <1>3

\* What sanitizeHistoryForProvider makes of a sound history.
LEMMA SanitizeFits ==
  ASSUME NEW h \in Seq(MessageType), Sound(h)
  PROVE  Paired(Sanitize(h)) /\ Prompted(Sanitize(h)) /\ Sound(Sanitize(h))
<1>1. PICK a : a = Kept(h)[Len(h)]
  OBVIOUS
<1>2. Fit(Flush(a)) /\ Flush(a).pending = {}
  BY <1>1, KeptType, KeptFits, FlushType, FitFlush
<1>3. Sanitize(h) = Flush(a).out
  BY <1>1 DEF Sanitize
<1> QED BY <1>2, <1>3, OwedNothing DEF Fit

-----------------------------------------------------------------------------
(* The runs.                                                                *)

Pcs == {"idle", "found", "persist", "next", "llm", "tools", "compact", "final", "end"}
Kinds == {"none", "start", "resume", "request", "response", "steering", "error", "end"}
SlotType == [pc : Pcs, run : Runs \cup {NoRun}, msgs : Seq(MessageType), iter : 0..MaxIterations,
             retry : 0..MaxRetries, pending : SUBSET CallIds, kept : Seq(MessageType)]
Rec(p, u, m, i, t, d, k) ==
  [pc |-> p, run |-> u, msgs |-> m, iter |-> i, retry |-> t, pending |-> d, kept |-> k]

\* A run in progress has a run id, and waits for calls while it applies results.
Going(r) == (r.pc # "idle" => r.run \in Runs) /\ (r.pc = "tools" => r.pending # {})
TInv == TypeOK /\ \A s \in Slots : slot[s] \in SlotType /\ Going(slot[s])

\* What a run has at hand can go to the model when it is its turn.
Usable(r, h) ==
  /\ r.pc \in {"persist", "next", "llm"} => Paired(r.msgs)
  /\ r.pc = "tools" => Owed(r.msgs, r.pending) /\ Ready(h, r.pending)
  /\ r.pc = "compact" => Sound(r.kept)

LEMMA SlotForm ==
  ASSUME NEW r \in SlotType
  PROVE  /\ r = Rec(r.pc, r.run, r.msgs, r.iter, r.retry, r.pending, r.kept)
         /\ r.pc \in Pcs /\ r.run \in Runs \cup {NoRun} /\ r.msgs \in Seq(MessageType)
         /\ r.iter \in 0..MaxIterations /\ r.retry \in 0..MaxRetries
         /\ r.pending \in SUBSET CallIds /\ r.kept \in Seq(MessageType)
BY DEF SlotType, Rec

LEMMA RecFields ==
  ASSUME NEW p, NEW u, NEW m, NEW i, NEW t, NEW d, NEW k
  PROVE  /\ Rec(p, u, m, i, t, d, k).pc = p /\ Rec(p, u, m, i, t, d, k).run = u
         /\ Rec(p, u, m, i, t, d, k).msgs = m /\ Rec(p, u, m, i, t, d, k).iter = i
         /\ Rec(p, u, m, i, t, d, k).retry = t /\ Rec(p, u, m, i, t, d, k).pending = d
         /\ Rec(p, u, m, i, t, d, k).kept = k
BY DEF Rec

LEMMA RecType ==
  ASSUME NEW p \in Pcs, NEW u \in Runs, NEW m \in Seq(MessageType), NEW i \in 0..MaxIterations,
         NEW t \in 0..MaxRetries, NEW d \in SUBSET CallIds, NEW k \in Seq(MessageType),
         p = "tools" => d # {}
  PROVE  Rec(p, u, m, i, t, d, k) \in SlotType /\ Going(Rec(p, u, m, i, t, d, k))
BY DEF Rec, SlotType, Going

LEMMA AgainType ==
  ASSUME NEW r \in SlotType, r.run \in Runs, r.retry + 1 \in 0..MaxRetries, r.pc # "tools",
         NEW n, n = Rec(r.pc, r.run, r.msgs, r.iter, r.retry + 1, r.pending, r.kept)
  PROVE  n \in SlotType /\ Going(n)
<1>1. /\ r.pc \in Pcs /\ r.msgs \in Seq(MessageType) /\ r.iter \in 0..MaxIterations
      /\ r.pending \in SUBSET CallIds /\ r.kept \in Seq(MessageType)
  BY SlotForm
<1> QED BY <1>1, RecType

LEMMA NoSlotIs ==
  /\ NoSlot \in SlotType /\ NoSlot.pc = "idle" /\ Going(NoSlot) /\ NoSlot.pending = {}
  /\ NoSlot = Rec("idle", NoRun, <<>>, 0, 0, {}, <<>>)
<1>1. NoSlot = Rec("idle", NoRun, <<>>, 0, 0, {}, <<>>)
  BY DEF NoSlot, Rec
<1>2. <<>> \in Seq(MessageType) /\ 0 \in 0..MaxIterations /\ 0 \in 0..MaxRetries
  BY RunAssumption
<1> QED BY <1>1, <1>2 DEF Rec, SlotType, Pcs, Going

\* A step of the run in slot s.
Moves(s, r) ==
  /\ r \in SlotType /\ Going(r) /\ Become(s, r) /\ hist' \in Seq(MessageType)
  /\ NoEvent \/ \E u \in Runs, w \in Kinds : Event(u, w)
  /\ resumes' \in 0..MaxResumes /\ crashes' \in 0..MaxCrashes
\* What it leaves can be used, if what it finds can.
Serves(s, r) == Sound(hist) /\ Usable(slot[s], hist) => Sound(hist') /\ Usable(r, hist')

LEMMA TypesHere ==
  ASSUME TInv, NEW s \in Slots
  PROVE  /\ hist \in Seq(MessageType) /\ slot[s] \in SlotType /\ Going(slot[s])
         /\ resumes \in 0..MaxResumes /\ crashes \in 0..MaxCrashes
BY DEF TInv, TypeOK

LEMMA MovesType ==
  ASSUME TInv, NEW s \in Slots, NEW r, Moves(s, r)
  PROVE  TInv'
<1>1. /\ r \in SlotType /\ Going(r) /\ slot' = [slot EXCEPT ![s] = r] /\ hist' \in Seq(MessageType)
      /\ resumes' \in 0..MaxResumes /\ crashes' \in 0..MaxCrashes
  BY DEF Moves, Become
<1>2. trace' \in [Runs -> [last : Kinds, ended : BOOLEAN]] /\ later' \in [Runs -> SUBSET Runs]
  <2>1. trace \in [Runs -> [last : Kinds, ended : BOOLEAN]] /\ later \in [Runs -> SUBSET Runs]
    BY DEF TInv, TypeOK, Kinds
  <2>2. CASE NoEvent
    BY <2>1, <2>2 DEF NoEvent
  <2>3. ASSUME NEW u \in Runs, NEW w \in Kinds, Event(u, w)
        PROVE  trace' \in [Runs -> [last : Kinds, ended : BOOLEAN]] /\ later' \in [Runs -> SUBSET Runs]
    <3>1. (trace[u].ended \/ w = "end") \in BOOLEAN
      OBVIOUS
    <3>2. PICK e \in [last : Kinds, ended : BOOLEAN] :
            e = [last |-> w, ended |-> trace[u].ended \/ w = "end"]
      BY <3>1
    <3>3. trace' = [trace EXCEPT ![u] = e]
      BY <2>3, <3>2 DEF Event
    <3>4. trace' \in [Runs -> [last : Kinds, ended : BOOLEAN]]
      BY <2>1, <3>3
    <3>5. later' \in [Runs -> SUBSET Runs]
      BY <2>1, <2>3 DEF Event
    <3> QED BY <3>4, <3>5
  <2> QED BY <2>2, <2>3 DEF Moves
<1>3. slot' \in [Slots -> SlotType] /\ \A o \in Slots : Going(slot'[o])
  <2>1. slot \in [Slots -> SlotType] /\ \A o \in Slots : Going(slot[o])
    BY DEF TInv, TypeOK, SlotType, Pcs
  <2>2. slot' \in [Slots -> SlotType]
    BY <1>1, <2>1
  <2>3. \A o \in Slots : slot'[o] = IF o = s THEN r ELSE slot[o]
    BY <1>1, <2>1
  <2> QED BY <1>1, <2>1, <2>2, <2>3
<1>4. TypeOK'
  BY <1>1, <1>2, <1>3 DEF TypeOK, SlotType, Pcs, Kinds
<1>5. \A o \in Slots : slot'[o] \in SlotType /\ Going(slot'[o])
  BY <1>3
<1> QED BY <1>4, <1>5 DEF TInv

\* persistUserMessage: the history grows by a message that no result follows.
LEMMA PersistUserMoves ==
  ASSUME TInv, NEW s \in Slots, PersistUser(s)
  PROVE  \E n : Moves(s, n) /\ Serves(s, n)
<1>1. PICK r \in SlotType : r = slot[s] /\ Going(r)
  BY TypesHere
<1>2. PICK n : n = Rec("next", r.run, r.msgs, r.iter, r.retry, r.pending, r.kept)
  OBVIOUS
<1>3. [r EXCEPT !.pc = "next"] = n
  BY <1>1, <1>2, SlotForm DEF Rec
<1>4. Become(s, n)
  BY <1>1, <1>3 DEF PersistUser, Become
<1>5. n \in SlotType /\ Going(n)
  <2>1. r.run \in Runs
    BY <1>1 DEF PersistUser, AtPc, Going
  <2> QED BY <1>1, <1>2, <2>1, SlotForm, RecType DEF Pcs
<1>6. hist' = Append(hist, User) /\ hist' \in Seq(MessageType)
  BY TypesHere, MessageTypes, Appended DEF PersistUser
<1>7. NoEvent /\ resumes' = resumes /\ crashes' = crashes
  BY DEF PersistUser, Rest
<1>8. Moves(s, n)
  BY <1>4, <1>5, <1>6, <1>7, TypesHere DEF Moves
<1>9. Serves(s, n)
  <2>1. Sound(hist) => Sound(Append(hist, User))
    BY TypesHere, MessageTypes, SoundPlain DEF User
  <2>2. n.pc = "next" /\ n.msgs = r.msgs
    BY <1>2 DEF Rec
  <2> QED BY <1>1, <1>6, <2>1, <2>2 DEF Serves, Usable, PersistUser, AtPc
<1> QED BY <1>8, <1>9


LEMMA AnswerMoves ==
  ASSUME TInv, NEW s \in Slots, Answer(s)
  PROVE  \E n : Moves(s, n) /\ Serves(s, n)
<1>1. PICK r \in SlotType : r = slot[s] /\ Going(r)
  BY TypesHere
<1>2. PICK n : n = Rec("final", r.run, r.msgs, r.iter, r.retry, r.pending, r.kept)
  OBVIOUS
<1>3. [r EXCEPT !.pc = "final"] = n
  BY <1>1, <1>2, SlotForm DEF Rec
<1>4. Become(s, n)
  BY <1>1, <1>3 DEF Answer, Become
<1>5. n \in SlotType /\ Going(n)
  <2>1. r.run \in Runs
    BY <1>1 DEF Answer, AtPc, Going
  <2> QED BY <1>1, <1>2, <2>1, SlotForm, RecType DEF Pcs
<1>6. hist' = hist
  BY DEF Answer, Rest
<1>7. (\E u \in Runs, w \in Kinds : Event(u, w)) /\ resumes' = resumes /\ crashes' = crashes
  <2>1. r.run \in Runs /\ "response" \in Kinds
    BY <1>1 DEF Answer, AtPc, Going, Kinds
  <2> QED BY <1>1, <2>1 DEF Answer, Rest
<1>8. Moves(s, n)
  BY <1>4, <1>5, <1>6, <1>7, TypesHere DEF Moves
<1>9. Serves(s, n)
  <2>1. n.pc = "final"
    BY <1>2 DEF Rec
  <2> QED BY <1>6, <2>1 DEF Serves, Usable
<1> QED BY <1>8, <1>9


LEMMA SteeredMoves ==
  ASSUME TInv, NEW s \in Slots, Steered(s)
  PROVE  \E n : Moves(s, n) /\ Serves(s, n)
<1>1. PICK r \in SlotType : r = slot[s] /\ Going(r)
  BY TypesHere
<1>11. PICK v : v = Append(r.msgs, User)
  OBVIOUS
<1>2. PICK n : n = Rec("next", r.run, v, r.iter, r.retry, r.pending, r.kept)
  OBVIOUS
<1>3. [r EXCEPT !.pc = "next", !.msgs = v] = n
  <2>0. r = Rec(r.pc, r.run, r.msgs, r.iter, r.retry, r.pending, r.kept)
    BY <1>1, SlotForm
  <2>1. PICK t1 : t1 = Rec("next", r.run, r.msgs, r.iter, r.retry, r.pending, r.kept)
    OBVIOUS
  <2>2. [r EXCEPT !.pc = "next"] = t1
    BY <2>0, <2>1 DEF Rec
  <2>3. PICK t2 : t2 = Rec("next", r.run, v, r.iter, r.retry, r.pending, r.kept)
    OBVIOUS
  <2>4. [t1 EXCEPT !.msgs = v] = t2
    BY <2>1, <2>3 DEF Rec
  <2> QED BY <1>2, <2>3, <2>2, <2>4, Zenon
<1>4. Become(s, n)
  BY <1>1, <1>3, <1>11 DEF Steered, Become
<1>5. n \in SlotType /\ Going(n)
  <2>1. r.run \in Runs /\ v \in Seq(MessageType)
    BY <1>1, <1>11, SlotForm, MessageTypes, Appended DEF Steered, AtPc, Going
  <2> QED BY <1>1, <1>2, <2>1, SlotForm, RecType DEF Pcs
<1>6. hist' = Append(hist, User) /\ hist' \in Seq(MessageType)
  BY TypesHere, MessageTypes, Appended DEF Steered
<1>7. (\E u \in Runs, w \in Kinds : Event(u, w)) /\ resumes' = resumes /\ crashes' = crashes
  <2>1. r.run \in Runs /\ "steering" \in Kinds
    BY <1>1 DEF Steered, AtPc, Going, Kinds
  <2> QED BY <1>1, <2>1 DEF Steered, Rest
<1>8. Moves(s, n)
  BY <1>4, <1>5, <1>6, <1>7, TypesHere DEF Moves
<1>9. Serves(s, n)
  <2>1. Sound(hist) => Sound(Append(hist, User))
    BY TypesHere, MessageTypes, SoundPlain DEF User
  <2>2. n.pc = "next" /\ n.msgs = Append(r.msgs, User)
    BY <1>2, <1>11 DEF Rec
  <2>3. Paired(r.msgs) => Paired(Append(r.msgs, User))
    BY <1>1, SlotForm, MessageTypes, PairedPlain DEF User
  <2> QED BY <1>1, <1>6, <2>1, <2>2, <2>3 DEF Serves, Usable, Steered, AtPc
<1> QED BY <1>8, <1>9


\* callLLMWithRetry counts what it tries again.
LEMMA TimeoutMoves ==
  ASSUME TInv, NEW s \in Slots, Timeout(s)
  PROVE  \E n : Moves(s, n) /\ Serves(s, n)
<1>1. PICK r \in SlotType : r = slot[s] /\ Going(r)
  BY TypesHere
<1>2. PICK n : n = Rec(r.pc, r.run, r.msgs, r.iter, r.retry + 1, r.pending, r.kept)
  OBVIOUS
<1>3. [r EXCEPT !.retry = r.retry + 1] = n
  BY <1>1, <1>2, SlotForm DEF Rec
<1>4. Become(s, n)
  BY <1>1, <1>3 DEF Timeout, Become
<1>5. n \in SlotType /\ Going(n)
  <2>1. r.run \in Runs /\ r.retry + 1 \in 0..MaxRetries
    BY <1>1, SlotForm, RunAssumption DEF Timeout, AtPc, Going
  <2>2. r.pc # "tools"
    BY <1>1 DEF Timeout, AtPc
  <2> QED BY <1>1, <1>2, <2>1, <2>2, AgainType
<1>6. hist' = hist
  BY DEF Timeout, Rest
<1>7. NoEvent /\ resumes' = resumes /\ crashes' = crashes
  BY DEF Timeout, Rest
<1>8. Moves(s, n)
  BY <1>4, <1>5, <1>6, <1>7, TypesHere DEF Moves
<1>9. Serves(s, n)
  <2>1. n.pc = "llm" /\ n.msgs = r.msgs
    BY <1>1, <1>2 DEF Timeout, AtPc, Rec
  <2> QED BY <1>1, <1>6, <2>1 DEF Serves, Usable, Timeout, AtPc
<1> QED BY <1>8, <1>9


\* SetHistory: the tail that was kept is sound, and the messages are built from it.
LEMMA CompactedMoves ==
  ASSUME TInv, NEW s \in Slots, Compacted(s)
  PROVE  \E n : Moves(s, n) /\ Serves(s, n)
<1>1. PICK r \in SlotType : r = slot[s] /\ Going(r)
  BY TypesHere
<1>2. PICK n : n = Rec("llm", r.run, Sanitize(r.kept), r.iter, r.retry, r.pending, <<>>)
  OBVIOUS
<1>3. [r EXCEPT !.pc = "llm", !.msgs = Sanitize(r.kept), !.kept = <<>>] = n
  <2>0. r = Rec(r.pc, r.run, r.msgs, r.iter, r.retry, r.pending, r.kept)
    BY <1>1, SlotForm
  <2>1. PICK t1 : t1 = Rec("llm", r.run, r.msgs, r.iter, r.retry, r.pending, r.kept)
    OBVIOUS
  <2>2. [r EXCEPT !.pc = "llm"] = t1
    BY <2>0, <2>1 DEF Rec
  <2>3. PICK t2 : t2 = Rec("llm", r.run, Sanitize(r.kept), r.iter, r.retry, r.pending, r.kept)
    OBVIOUS
  <2>4. [t1 EXCEPT !.msgs = Sanitize(r.kept)] = t2
    BY <2>1, <2>3 DEF Rec
  <2>5. PICK t3 : t3 = Rec("llm", r.run, Sanitize(r.kept), r.iter, r.retry, r.pending, <<>>)
    OBVIOUS
  <2>6. [t2 EXCEPT !.kept = <<>>] = t3
    BY <2>3, <2>5 DEF Rec
  <2> QED BY <1>2, <2>5, <2>2, <2>4, <2>6, Zenon
<1>4. Become(s, n)
  BY <1>1, <1>3 DEF Compacted, Become
<1>5. n \in SlotType /\ Going(n)
  <2>1. r.run \in Runs /\ Sanitize(r.kept) \in Seq(MessageType) /\ <<>> \in Seq(MessageType)
    BY <1>1, SlotForm, SanitizeType DEF Compacted, AtPc, Going
  <2> QED BY <1>1, <1>2, <2>1, SlotForm, RecType DEF Pcs
<1>6. hist' = r.kept /\ hist' \in Seq(MessageType)
  BY <1>1, SlotForm DEF Compacted
<1>7. NoEvent /\ resumes' = resumes /\ crashes' = crashes
  BY DEF Compacted, Rest
<1>8. Moves(s, n)
  BY <1>4, <1>5, <1>6, <1>7, TypesHere DEF Moves
<1>9. Serves(s, n)
  <2>1. n.pc = "llm" /\ n.msgs = Sanitize(r.kept)
    BY <1>2 DEF Rec
  <2>2. Sound(r.kept) => Paired(Sanitize(r.kept))
    BY <1>1, SlotForm, SanitizeFits
  <2> QED BY <1>1, <1>6, <2>1, <2>2 DEF Serves, Usable, Compacted, AtPc
<1> QED BY <1>8, <1>9


LEMMA FinalizeMoves ==
  ASSUME TInv, NEW s \in Slots, Finalize(s)
  PROVE  \E n : Moves(s, n) /\ Serves(s, n)
<1>1. PICK r \in SlotType : r = slot[s] /\ Going(r)
  BY TypesHere
<1>2. PICK n : n = Rec("end", r.run, r.msgs, r.iter, r.retry, r.pending, r.kept)
  OBVIOUS
<1>3. [r EXCEPT !.pc = "end"] = n
  BY <1>1, <1>2, SlotForm DEF Rec
<1>4. Become(s, n)
  BY <1>1, <1>3 DEF Finalize, Become
<1>5. n \in SlotType /\ Going(n)
  <2>1. r.run \in Runs
    BY <1>1 DEF Finalize, AtPc, Going
  <2> QED BY <1>1, <1>2, <2>1, SlotForm, RecType DEF Pcs
<1>6. hist' = Append(hist, Assistant({})) /\ hist' \in Seq(MessageType)
  BY TypesHere, MessageTypes, Appended DEF Finalize
<1>7. NoEvent /\ resumes' = resumes /\ crashes' = crashes
  BY DEF Finalize, Rest
<1>8. Moves(s, n)
  BY <1>4, <1>5, <1>6, <1>7, TypesHere DEF Moves
<1>9. Serves(s, n)
  <2>1. Sound(hist) => Sound(Append(hist, Assistant({})))
    BY TypesHere, MessageTypes, SoundPlain DEF Assistant
  <2>2. n.pc = "end"
    BY <1>2 DEF Rec
  <2> QED BY <1>6, <2>1, <2>2 DEF Serves, Usable
<1> QED BY <1>8, <1>9


LEMMA BatchIs ==
  ASSUME NEW B \in Batches PROVE B \in SUBSET CallIds /\ B # {}
BY DEF Batches, FreshIds

\* The smallest call that is waited for.
LEMMA SmallestIs ==
  ASSUME NEW S \in SUBSET CallIds, S # {}
  PROVE  (CHOOSE x \in S : \A y \in S : x <= y) \in S
<1>1. S \in SUBSET Nat
  BY IdsType
<1>2. \E x \in S : \A y \in S : x <= y
  BY <1>1, Least
<1> QED BY <1>2

LEMMA RequestMoves ==
  ASSUME TInv, NEW s \in Slots, AtPc(s, "next"), slot[s].iter < MaxIterations,
         Request(s), UNCHANGED <<hist, Rest>>
  PROVE  \E n : Moves(s, n) /\ Serves(s, n)
<1>1. PICK r \in SlotType : r = slot[s] /\ Going(r)
  BY TypesHere
<1>2. PICK n : n = Rec("llm", r.run, r.msgs, r.iter + 1, 0, r.pending, r.kept)
  OBVIOUS
<1>3. [r EXCEPT !.pc = "llm", !.iter = r.iter + 1, !.retry = 0] = n
  <2>0. r = Rec(r.pc, r.run, r.msgs, r.iter, r.retry, r.pending, r.kept)
    BY <1>1, SlotForm
  <2>1. PICK t1 : t1 = Rec("llm", r.run, r.msgs, r.iter, r.retry, r.pending, r.kept)
    OBVIOUS
  <2>2. [r EXCEPT !.pc = "llm"] = t1
    BY <2>0, <2>1 DEF Rec
  <2>3. PICK t2 : t2 = Rec("llm", r.run, r.msgs, r.iter + 1, r.retry, r.pending, r.kept)
    OBVIOUS
  <2>4. [t1 EXCEPT !.iter = r.iter + 1] = t2
    BY <2>1, <2>3 DEF Rec
  <2>5. PICK t3 : t3 = Rec("llm", r.run, r.msgs, r.iter + 1, 0, r.pending, r.kept)
    OBVIOUS
  <2>6. [t2 EXCEPT !.retry = 0] = t3
    BY <2>3, <2>5 DEF Rec
  <2> QED BY <1>2, <2>5, <2>2, <2>4, <2>6, Zenon
<1>4. Become(s, n)
  BY <1>1, <1>3 DEF Request, Become
<1>5. n \in SlotType /\ Going(n)
  <2>1. r.run \in Runs /\ r.iter + 1 \in 0..MaxIterations /\ 0 \in 0..MaxRetries
    BY <1>1, SlotForm, RunAssumption DEF AtPc, Going
  <2> QED BY <1>1, <1>2, <2>1, SlotForm, RecType DEF Pcs
<1>6. hist' = hist
  OBVIOUS
<1>7. (\E u \in Runs, w \in Kinds : Event(u, w)) /\ resumes' = resumes /\ crashes' = crashes
  <2>1. r.run \in Runs /\ "request" \in Kinds
    BY <1>1 DEF AtPc, Going, Kinds
  <2> QED BY <1>1, <2>1 DEF Request, Rest
<1>8. Moves(s, n)
  BY <1>4, <1>5, <1>6, <1>7, TypesHere DEF Moves
<1>9. Serves(s, n)
  <2>1. n.pc = "llm" /\ n.msgs = r.msgs
    BY <1>2 DEF Rec
  <2> QED BY <1>1, <1>6, <2>1 DEF Serves, Usable, AtPc
<1> QED BY <1>8, <1>9


LEMMA LoopEndsMoves ==
  ASSUME TInv, NEW s \in Slots, AtPc(s, "next"), LoopEnds(s), UNCHANGED <<hist, Rest>>
  PROVE  \E n : Moves(s, n) /\ Serves(s, n)
<1>1. PICK r \in SlotType : r = slot[s] /\ Going(r)
  BY TypesHere
<1>2. PICK n : n = Rec("final", r.run, r.msgs, r.iter, r.retry, r.pending, r.kept)
  OBVIOUS
<1>3. [r EXCEPT !.pc = "final"] = n
  BY <1>1, <1>2, SlotForm DEF Rec
<1>4. Become(s, n)
  BY <1>1, <1>3 DEF LoopEnds, Become
<1>5. n \in SlotType /\ Going(n)
  <2>1. r.run \in Runs
    BY <1>1 DEF AtPc, Going
  <2> QED BY <1>1, <1>2, <2>1, SlotForm, RecType DEF Pcs
<1>6. hist' = hist
  OBVIOUS
<1>7. NoEvent /\ resumes' = resumes /\ crashes' = crashes
  BY DEF LoopEnds, Rest
<1>8. Moves(s, n)
  BY <1>4, <1>5, <1>6, <1>7, TypesHere DEF Moves
<1>9. Serves(s, n)
  <2>1. n.pc = "final"
    BY <1>2 DEF Rec
  <2> QED BY <1>6, <2>1 DEF Serves, Usable
<1> QED BY <1>8, <1>9


LEMMA IterateMoves ==
  ASSUME TInv, NEW s \in Slots, Iterate(s)
  PROVE  \E n : Moves(s, n) /\ Serves(s, n)
BY RequestMoves, LoopEndsMoves DEF Iterate

\* handleToolLoop: every call of the response has its notice at once.
LEMMA LoopMoves ==
  ASSUME TInv, NEW s \in Slots, Loop(s)
  PROVE  \E n : Moves(s, n) /\ Serves(s, n)
<1>1. PICK r \in SlotType : r = slot[s] /\ Going(r)
  BY TypesHere
<1>12. PICK B \in Batches :
          Become(s, [slot[s] EXCEPT !.pc = "next", !.msgs = Append(@, Assistant(B)) \o Results(B)])
  BY DEF Loop
<1>13. /\ B \in SUBSET CallIds /\ B # {}
       /\ \A m \in Seq(MessageType) : /\ Append(m, Assistant(B)) \in Seq(MessageType)
                                      /\ Append(m, Assistant(B)) \o Results(B) \in Seq(MessageType)
  BY BatchIs, MessageTypes, Appended, WithResults
<1>11. PICK v : v = Append(r.msgs, Assistant(B)) \o Results(B)
  OBVIOUS
<1>2. PICK n : n = Rec("next", r.run, v, r.iter, r.retry, r.pending, r.kept)
  OBVIOUS
<1>3. [r EXCEPT !.pc = "next", !.msgs = v] = n
  <2>0. r = Rec(r.pc, r.run, r.msgs, r.iter, r.retry, r.pending, r.kept)
    BY <1>1, SlotForm
  <2>1. PICK t1 : t1 = Rec("next", r.run, r.msgs, r.iter, r.retry, r.pending, r.kept)
    OBVIOUS
  <2>2. [r EXCEPT !.pc = "next"] = t1
    BY <2>0, <2>1 DEF Rec
  <2>3. PICK t2 : t2 = Rec("next", r.run, v, r.iter, r.retry, r.pending, r.kept)
    OBVIOUS
  <2>4. [t1 EXCEPT !.msgs = v] = t2
    BY <2>1, <2>3 DEF Rec
  <2> QED BY <1>2, <2>3, <2>2, <2>4, Zenon
<1>4. Become(s, n)
  BY <1>1, <1>3, <1>11, <1>12 DEF Loop, Become
<1>5. n \in SlotType /\ Going(n)
  <2>1. r.run \in Runs
    BY <1>1 DEF Loop, AtPc, Going
  <2>2. v \in Seq(MessageType)
    BY <1>1, <1>11, <1>13, SlotForm
  <2> QED BY <1>1, <1>2, <2>1, <2>2, SlotForm, RecType DEF Pcs
<1>6. hist' = hist
  BY DEF Loop, Rest
<1>7. (\E u \in Runs, w \in Kinds : Event(u, w)) /\ resumes' = resumes /\ crashes' = crashes
  <2>1. r.run \in Runs /\ "response" \in Kinds
    BY <1>1 DEF Loop, AtPc, Going, Kinds
  <2> QED BY <1>1, <2>1 DEF Loop, Rest
<1>8. Moves(s, n)
  BY <1>4, <1>5, <1>6, <1>7, TypesHere DEF Moves
<1>9. Serves(s, n)
  <2>1. n.pc = "next" /\ n.msgs = v
    BY <1>2 DEF Rec
  <2>2. Paired(r.msgs) => Paired(v)
    BY <1>1, <1>11, <1>13, SlotForm, OwedRequest, PairedResults
  <2> QED BY <1>1, <1>6, <2>1, <2>2 DEF Serves, Usable, Loop, AtPc
<1> QED BY <1>8, <1>9


\* appendAssistantToolCallMessage: history and messages wait for the same calls.
LEMMA CallsMoves ==
  ASSUME TInv, NEW s \in Slots, Calls(s)
  PROVE  \E n : Moves(s, n) /\ Serves(s, n)
<1>1. PICK r \in SlotType : r = slot[s] /\ Going(r)
  BY TypesHere
<1>12. PICK B \in Batches :
          /\ hist' = Append(hist, Assistant(B))
          /\ Become(s, [slot[s] EXCEPT !.pc = "tools", !.pending = B,
                                       !.msgs = Append(@, Assistant(B))])
  BY DEF Calls
<1>13. B \in SUBSET CallIds /\ B # {}
  BY BatchIs
<1>11. PICK v : v = Append(r.msgs, Assistant(B))
  OBVIOUS
<1>2. PICK n : n = Rec("tools", r.run, v, r.iter, r.retry, B, r.kept)
  OBVIOUS
<1>3. [r EXCEPT !.pc = "tools", !.msgs = v, !.pending = B] = n
  <2>0. r = Rec(r.pc, r.run, r.msgs, r.iter, r.retry, r.pending, r.kept)
    BY <1>1, SlotForm
  <2>1. PICK t1 : t1 = Rec("tools", r.run, r.msgs, r.iter, r.retry, r.pending, r.kept)
    OBVIOUS
  <2>2. [r EXCEPT !.pc = "tools"] = t1
    BY <2>0, <2>1 DEF Rec
  <2>3. PICK t2 : t2 = Rec("tools", r.run, v, r.iter, r.retry, r.pending, r.kept)
    OBVIOUS
  <2>4. [t1 EXCEPT !.msgs = v] = t2
    BY <2>1, <2>3 DEF Rec
  <2>5. PICK t3 : t3 = Rec("tools", r.run, v, r.iter, r.retry, B, r.kept)
    OBVIOUS
  <2>6. [t2 EXCEPT !.pending = B] = t3
    BY <2>3, <2>5 DEF Rec
  <2> QED BY <1>2, <2>5, <2>2, <2>4, <2>6, Zenon
<1>4. Become(s, n)
  BY <1>1, <1>3, <1>11, <1>12 DEF Calls, Become
<1>5. n \in SlotType /\ Going(n)
  <2>1. r.run \in Runs
    BY <1>1 DEF Calls, AtPc, Going
  <2>2. v \in Seq(MessageType)
    BY <1>1, <1>11, <1>13, SlotForm, MessageTypes, Appended
  <2> QED BY <1>1, <1>2, <1>13, <2>1, <2>2, SlotForm, RecType DEF Pcs
<1>6. hist' = Append(hist, Assistant(B)) /\ hist' \in Seq(MessageType)
  BY <1>12, <1>13, TypesHere, MessageTypes, Appended
<1>7. (\E u \in Runs, w \in Kinds : Event(u, w)) /\ resumes' = resumes /\ crashes' = crashes
  <2>1. r.run \in Runs /\ "response" \in Kinds
    BY <1>1 DEF Calls, AtPc, Going, Kinds
  <2> QED BY <1>1, <2>1 DEF Calls, Rest
<1>8. Moves(s, n)
  BY <1>4, <1>5, <1>6, <1>7, TypesHere DEF Moves
<1>9. Serves(s, n)
  <2>1. n.pc = "tools" /\ n.msgs = v /\ n.pending = B
    BY <1>2 DEF Rec
  <2>2. Paired(r.msgs) => Owed(v, B)
    BY <1>1, <1>11, <1>13, SlotForm, OwedRequest
  <2>3. Assistant(B) \in MessageType /\ Assistant(B).role # "tool" /\ Assistant(B).ids = B
    BY <1>13, MessageTypes DEF Assistant
  <2>4. Sound(hist) => Sound(hist') /\ Ready(hist', B)
    BY <1>6, <2>3, TypesHere, SoundPlain
  <2> QED BY <1>1, <2>1, <2>2, <2>4 DEF Serves, Usable, Calls, AtPc
<1> QED BY <1>8, <1>9

\* applyToolExecutionResults: the result of a pending call goes to history and messages.
LEMMA ApplyMoves ==
  ASSUME TInv, NEW s \in Slots, Apply(s)
  PROVE  \E n : Moves(s, n) /\ Serves(s, n)
<1>1. PICK r \in SlotType : r = slot[s] /\ Going(r)
  BY TypesHere
<1>12. PICK c, v, q : /\ c = CHOOSE x \in r.pending : \A y \in r.pending : x <= y
                     /\ v = Append(r.msgs, Result(c))
                     /\ q = IF r.pending = {c} THEN "next" ELSE r.pc
  OBVIOUS
<1>13. c \in r.pending /\ c \in CallIds /\ r.pending \in SUBSET CallIds
  <2>1. r.pending # {} /\ r.pending \in SUBSET CallIds
    BY <1>1, SlotForm DEF Apply, AtPc, Going
  <2> QED BY <1>12, <2>1, SmallestIs
<1>2. PICK n : n = Rec(q, r.run, v, r.iter, r.retry, r.pending \ {c}, r.kept)
  OBVIOUS
<1>3. [r EXCEPT !.pending = r.pending \ {c}, !.msgs = v, !.pc = q] = n
  <2>0. r = Rec(r.pc, r.run, r.msgs, r.iter, r.retry, r.pending, r.kept)
    BY <1>1, SlotForm
  <2>1. PICK t1 : t1 = Rec(r.pc, r.run, r.msgs, r.iter, r.retry, r.pending \ {c}, r.kept)
    OBVIOUS
  <2>2. [r EXCEPT !.pending = r.pending \ {c}] = t1
    BY <2>0, <2>1 DEF Rec
  <2>3. PICK t2 : t2 = Rec(r.pc, r.run, v, r.iter, r.retry, r.pending \ {c}, r.kept)
    OBVIOUS
  <2>4. [t1 EXCEPT !.msgs = v] = t2
    BY <2>1, <2>3 DEF Rec
  <2>5. PICK t3 : t3 = Rec(q, r.run, v, r.iter, r.retry, r.pending \ {c}, r.kept)
    OBVIOUS
  <2>6. [t2 EXCEPT !.pc = q] = t3
    BY <2>3, <2>5 DEF Rec
  <2> QED BY <1>2, <2>5, <2>2, <2>4, <2>6, Zenon
<1>4. Become(s, n)
  <2>1. Become(s, [slot[s] EXCEPT !.pending = @ \ {c}, !.msgs = Append(@, Result(c)),
                                  !.pc = IF slot[s].pending = {c} THEN "next" ELSE @])
    BY <1>1, <1>12, Zenon DEF Apply
  <2>2. Become(s, [r EXCEPT !.pending = r.pending \ {c}, !.msgs = v, !.pc = q])
    BY <1>1, <1>12, <2>1
  <2> QED BY <1>3, <2>2
<1>5. n \in SlotType /\ Going(n)
  <2>1. r.run \in Runs /\ r.pc = "tools"
    BY <1>1 DEF Apply, AtPc, Going
  <2>2. v \in Seq(MessageType) /\ r.pending \ {c} \in SUBSET CallIds
    BY <1>1, <1>12, <1>13, SlotForm, MessageTypes, Appended
  <2>3. q \in Pcs /\ (q = "tools" => r.pending \ {c} # {})
    BY <1>12, <1>13, <2>1 DEF Pcs
  <2> QED BY <1>1, <1>2, <2>1, <2>2, <2>3, SlotForm, RecType
<1>6. hist' = Append(hist, Result(c)) /\ hist' \in Seq(MessageType)
  BY <1>1, <1>12, <1>13, TypesHere, MessageTypes, Appended DEF Apply
<1>7. NoEvent /\ resumes' = resumes /\ crashes' = crashes
  BY DEF Apply, Rest
<1>8. Moves(s, n)
  BY <1>4, <1>5, <1>6, <1>7, TypesHere DEF Moves
<1>9. Serves(s, n)
  <2>1. n.pc = q /\ n.msgs = v /\ n.pending = r.pending \ {c} /\ r.pc = "tools"
    BY <1>1, <1>2 DEF Rec, Apply, AtPc
  <2>2. SUFFICES ASSUME Sound(hist), Owed(r.msgs, r.pending), Ready(hist, r.pending)
                 PROVE  Sound(hist') /\ Usable(n, hist')
    BY <1>1, <2>1 DEF Serves, Usable
  <2>3. Sound(hist') /\ Ready(hist', r.pending \ {c})
    BY <1>6, <1>13, <2>2, TypesHere, SoundResult
  <2>4. Owed(v, r.pending \ {c})
    BY <1>1, <1>12, <1>13, <2>2, SlotForm, OwedResult
  <2>5. CASE r.pending = {c}
    <3>1. n.pc = "next" /\ Owed(v, {})
      BY <1>12, <2>1, <2>4, <2>5
    <3> QED BY <2>1, <2>3, <3>1, OwedNothing DEF Usable
  <2>6. CASE r.pending # {c}
    <3>1. n.pc = "tools"
      BY <1>12, <2>1, <2>6
    <3> QED BY <2>1, <2>3, <2>4, <3>1 DEF Usable
  <2> QED BY <2>5, <2>6
<1> QED BY <1>8, <1>9


\* A history too short to compact is left alone.
LEMMA ShortHistoryMoves ==
  ASSUME TInv, NEW s \in Slots, AtPc(s, "llm"), slot[s].retry < MaxRetries,
         Become(s, [slot[s] EXCEPT !.retry = @ + 1]), NoEvent, UNCHANGED <<hist, Rest>>
  PROVE  \E n : Moves(s, n) /\ Serves(s, n)
<1>1. PICK r \in SlotType : r = slot[s] /\ Going(r)
  BY TypesHere
<1>2. PICK n : n = Rec(r.pc, r.run, r.msgs, r.iter, r.retry + 1, r.pending, r.kept)
  OBVIOUS
<1>3. [r EXCEPT !.retry = r.retry + 1] = n
  BY <1>1, <1>2, SlotForm DEF Rec
<1>4. Become(s, n)
  BY <1>1, <1>3 DEF AtPc, Become
<1>5. n \in SlotType /\ Going(n)
  <2>1. r.run \in Runs /\ r.retry + 1 \in 0..MaxRetries
    BY <1>1, SlotForm, RunAssumption DEF AtPc, Going
  <2>2. r.pc # "tools"
    BY <1>1 DEF AtPc
  <2> QED BY <1>1, <1>2, <2>1, <2>2, AgainType
<1>6. hist' = hist
  OBVIOUS
<1>7. NoEvent /\ resumes' = resumes /\ crashes' = crashes
  BY DEF Rest
<1>8. Moves(s, n)
  BY <1>4, <1>5, <1>6, <1>7, TypesHere DEF Moves
<1>9. Serves(s, n)
  <2>1. n.pc = "llm" /\ n.msgs = r.msgs
    BY <1>1, <1>2 DEF AtPc, Rec
  <2> QED BY <1>1, <1>6, <2>1 DEF Serves, Usable, AtPc
<1> QED BY <1>8, <1>9


\* What is kept of a history is a tail of what sanitizeHistoryForProvider makes of it.
LEMMA TailMoves ==
  ASSUME TInv, NEW s \in Slots, AtPc(s, "llm"), slot[s].retry < MaxRetries,
         NEW k \in 2..Len(Sanitize(hist)),
         Become(s, [slot[s] EXCEPT !.pc = "compact", !.retry = @ + 1,
                                   !.kept = SubSeq(Sanitize(hist), k, Len(Sanitize(hist)))]),
         NoEvent, UNCHANGED <<hist, Rest>>
  PROVE  \E n : Moves(s, n) /\ Serves(s, n)
<1>1. PICK r \in SlotType : r = slot[s] /\ Going(r)
  BY TypesHere
<1>12. PICK v : v = SubSeq(Sanitize(hist), k, Len(Sanitize(hist)))
  OBVIOUS
<1>13. Sanitize(hist) \in Seq(MessageType) /\ k \in Nat /\ 1 <= k /\ k <= Len(Sanitize(hist))
  <2>1. Sanitize(hist) \in Seq(MessageType)
    BY TypesHere, SanitizeType
  <2> QED BY <2>1
<1>2. PICK n : n = Rec("compact", r.run, r.msgs, r.iter, r.retry + 1, r.pending, v)
  OBVIOUS
<1>3. [r EXCEPT !.pc = "compact", !.retry = r.retry + 1, !.kept = v] = n
  <2>0. r = Rec(r.pc, r.run, r.msgs, r.iter, r.retry, r.pending, r.kept)
    BY <1>1, SlotForm
  <2>1. PICK t1 : t1 = Rec("compact", r.run, r.msgs, r.iter, r.retry, r.pending, r.kept)
    OBVIOUS
  <2>2. [r EXCEPT !.pc = "compact"] = t1
    BY <2>0, <2>1 DEF Rec
  <2>3. PICK t2 : t2 = Rec("compact", r.run, r.msgs, r.iter, r.retry + 1, r.pending, r.kept)
    OBVIOUS
  <2>4. [t1 EXCEPT !.retry = r.retry + 1] = t2
    BY <2>1, <2>3 DEF Rec
  <2>5. PICK t3 : t3 = Rec("compact", r.run, r.msgs, r.iter, r.retry + 1, r.pending, v)
    OBVIOUS
  <2>6. [t2 EXCEPT !.kept = v] = t3
    BY <2>3, <2>5 DEF Rec
  <2> QED BY <1>2, <2>5, <2>2, <2>4, <2>6, Zenon
<1>4. Become(s, n)
  BY <1>1, <1>3, <1>12 DEF AtPc, Become
<1>5. n \in SlotType /\ Going(n)
  <2>1. r.run \in Runs /\ r.retry + 1 \in 0..MaxRetries
    BY <1>1, SlotForm, RunAssumption DEF AtPc, Going
  <2>2. v \in Seq(MessageType)
    BY <1>12, <1>13
  <2> QED BY <1>1, <1>2, <2>1, <2>2, SlotForm, RecType DEF Pcs
<1>6. hist' = hist
  OBVIOUS
<1>7. NoEvent /\ resumes' = resumes /\ crashes' = crashes
  BY DEF Rest
<1>8. Moves(s, n)
  BY <1>4, <1>5, <1>6, <1>7, TypesHere DEF Moves
<1>9. Serves(s, n)
  <2>1. n.pc = "compact" /\ n.kept = v
    BY <1>2 DEF Rec
  <2>2. Sound(hist) => Sound(v)
    BY <1>12, <1>13, SanitizeFits, TypesHere, SoundTail
  <2> QED BY <1>6, <2>1, <2>2 DEF Serves, Usable
<1> QED BY <1>8, <1>9


LEMMA WindowExceededMoves ==
  ASSUME TInv, NEW s \in Slots, WindowExceeded(s)
  PROVE  \E n : Moves(s, n) /\ Serves(s, n)
<1>1. AtPc(s, "llm") /\ slot[s].retry < MaxRetries /\ NoEvent /\ UNCHANGED <<hist, Rest>>
  BY DEF WindowExceeded
<1>2. CASE Become(s, [slot[s] EXCEPT !.retry = @ + 1])
  BY <1>1, <1>2, ShortHistoryMoves
<1>3. CASE \E k \in 2..Len(Sanitize(hist)) :
             Become(s, [slot[s] EXCEPT !.pc = "compact", !.retry = @ + 1,
                                       !.kept = SubSeq(Sanitize(hist), k, Len(Sanitize(hist)))])
  BY <1>1, <1>3, TailMoves
<1> QED BY <1>2, <1>3 DEF WindowExceeded

\* A run that has failed or ended leaves nothing at hand.
LEMMA LeavesMoves ==
  ASSUME TInv, NEW s \in Slots, AtPc(s, "end") \/ slot[s].pc \in {"llm", "compact"},
         NEW w \in Kinds, Become(s, NoSlot), Event(slot[s].run, w), UNCHANGED <<hist, Rest>>
  PROVE  \E n : Moves(s, n) /\ Serves(s, n)
<1>1. slot[s].run \in Runs
  BY TypesHere DEF AtPc, Going
<1>2. Moves(s, NoSlot)
  BY <1>1, NoSlotIs, TypesHere DEF Moves, Rest
<1>3. Serves(s, NoSlot)
  BY NoSlotIs DEF Serves, Usable
<1> QED BY <1>2, <1>3

LEMMA FailMoves ==
  ASSUME TInv, NEW s \in Slots, Fail(s)
  PROVE  \E n : Moves(s, n) /\ Serves(s, n)
<1>1. "error" \in Kinds
  BY DEF Kinds
<1> QED BY <1>1, LeavesMoves DEF Fail

LEMMA EndMoves ==
  ASSUME TInv, NEW s \in Slots, End(s)
  PROVE  \E n : Moves(s, n) /\ Serves(s, n)
<1>1. "end" \in Kinds
  BY DEF Kinds
<1> QED BY <1>1, LeavesMoves DEF End

LEMMA StepMoves ==
  ASSUME TInv, NEW s \in Slots, Step(s)
  PROVE  \E n : Moves(s, n) /\ Serves(s, n)
BY PersistUserMoves, IterateMoves, AnswerMoves, SteeredMoves, LoopMoves, CallsMoves, ApplyMoves,
   TimeoutMoves, WindowExceededMoves, CompactedMoves, FailMoves, FinalizeMoves, EndMoves DEF Step

\* The messages a run starts from: the history made acceptable, then the prompt.
LEMMA BuiltMessages ==
  ASSUME NEW h \in Seq(MessageType)
  PROVE  /\ Append(Sanitize(h), User) \in Seq(MessageType)
         /\ Sound(h) => Paired(Append(Sanitize(h), User))
<1>1. Sanitize(h) \in Seq(MessageType)
  BY SanitizeType
<1>2. User \in MessageType /\ User.role # "tool" /\ ~(User.role = "assistant" /\ User.ids # {})
  BY MessageTypes DEF User
<1> QED BY <1>1, <1>2, Appended, SanitizeFits, PairedPlain

LEMMA Started ==
  ASSUME NEW p, NEW u, NEW m
  PROVE  /\ [NoSlot EXCEPT !.pc = p, !.run = u] = Rec(p, u, <<>>, 0, 0, {}, <<>>)
         /\ [NoSlot EXCEPT !.pc = p, !.run = u, !.msgs = m] = Rec(p, u, m, 0, 0, {}, <<>>)
<1>1. PICK x, o, z, d, e : x = "idle" /\ o = NoRun /\ z = 0 /\ d = {} /\ e = <<>>
  OBVIOUS
<1>2. PICK r : r = Rec(x, o, e, z, z, d, e)
  OBVIOUS
<1>3. r = NoSlot
  BY <1>1, <1>2, NoSlotIs
<1>4. PICK t1 : t1 = Rec(p, o, e, z, z, d, e)
  OBVIOUS
<1>5. [r EXCEPT !.pc = p] = t1
  BY ONLY <1>2, <1>4 DEF Rec
<1>6. PICK t2 : t2 = Rec(p, u, e, z, z, d, e)
  OBVIOUS
<1>7. [t1 EXCEPT !.run = u] = t2
  BY ONLY <1>4, <1>6 DEF Rec
<1>8. PICK t3 : t3 = Rec(p, u, m, z, z, d, e)
  OBVIOUS
<1>9. [t2 EXCEPT !.msgs = m] = t3
  BY ONLY <1>6, <1>8 DEF Rec
<1>10. [NoSlot EXCEPT !.pc = p, !.run = u] = t2
  BY ONLY <1>3, <1>5, <1>7, Zenon
<1>11. [NoSlot EXCEPT !.pc = p, !.run = u, !.msgs = m] = t3
  BY ONLY <1>3, <1>5, <1>7, <1>9, Zenon
<1> QED BY ONLY <1>1, <1>6, <1>8, <1>10, <1>11, Zenon

LEMMA BeginMoves ==
  ASSUME TInv, NEW u \in Runs, Begin(u)
  PROVE  \E n : Moves("worker", n) /\ Serves("worker", n)
<1>1. PICK v : v = Append(Sanitize(hist), User)
  OBVIOUS
<1>2. "worker" \in Slots /\ hist \in Seq(MessageType) /\ "start" \in Kinds
  BY TypesHere DEF Slots, Kinds
<1>3. v \in Seq(MessageType) /\ (Sound(hist) => Paired(v))
  BY <1>1, <1>2, BuiltMessages
<1>4. PICK n : n = Rec("persist", u, v, 0, 0, {}, <<>>)
  OBVIOUS
<1>5. [NoSlot EXCEPT !.pc = "persist", !.run = u, !.msgs = v] = n
  BY <1>4, Started
<1>6. Become("worker", n) /\ Event(u, "start") /\ UNCHANGED <<hist, resumes, crashes>>
  BY <1>1, <1>5 DEF Begin
<1>7. n \in SlotType /\ Going(n)
  <2>1. <<>> \in Seq(MessageType) /\ 0 \in 0..MaxIterations /\ 0 \in 0..MaxRetries
    BY RunAssumption
  <2> QED BY <1>3, <1>4, <2>1, RecType DEF Pcs
<1>8. Moves("worker", n)
  BY <1>2, <1>6, <1>7, TypesHere DEF Moves
<1>9. Serves("worker", n)
  <2>1. n.pc = "persist" /\ n.msgs = v
    BY <1>4 DEF Rec
  <2> QED BY <1>3, <1>6, <2>1 DEF Serves, Usable
<1> QED BY <1>8, <1>9

\* The run that is resumed is one of the trace.
LEMMA ScanMoves ==
  ASSUME TInv, Scan
  PROVE  \E n : Moves("resume", n) /\ Serves("resume", n)
<1>1. PICK u \in Runs : Become("resume", [NoSlot EXCEPT !.pc = "found", !.run = u])
  BY DEF Scan
<1>2. PICK n : n = Rec("found", u, <<>>, 0, 0, {}, <<>>)
  OBVIOUS
<1>3. [NoSlot EXCEPT !.pc = "found", !.run = u] = n
  BY <1>2, Started
<1>4. n \in SlotType /\ Going(n)
  <2>1. <<>> \in Seq(MessageType) /\ 0 \in 0..MaxIterations /\ 0 \in 0..MaxRetries
    BY RunAssumption
  <2> QED BY <1>2, <2>1, RecType DEF Pcs
<1>5. "resume" \in Slots /\ hist \in Seq(MessageType) /\ resumes \in 0..MaxResumes
      /\ crashes \in 0..MaxCrashes
  BY TypesHere DEF Slots
<1>6. resumes' \in 0..MaxResumes /\ crashes' \in 0..MaxCrashes /\ hist' = hist /\ NoEvent
  BY <1>5, RunAssumption DEF Scan
<1>7. Moves("resume", n)
  BY <1>1, <1>3, <1>4, <1>5, <1>6 DEF Moves
<1>8. Serves("resume", n)
  <2>1. n.pc = "found"
    BY <1>2 DEF Rec
  <2> QED BY <1>6, <2>1 DEF Serves, Usable
<1> QED BY <1>7, <1>8

\* ResumeLastTask builds its messages as any other run does.
LEMMA ResumeBeginMoves ==
  ASSUME TInv, NEW s \in Slots, s = "resume", ResumeBegin
  PROVE  \E n : Moves(s, n) /\ Serves(s, n)
<1>1. PICK r \in SlotType : r = slot[s] /\ Going(r)
  BY TypesHere
<1>12. PICK v : v = Append(Sanitize(hist), User)
  OBVIOUS
<1>13. v \in Seq(MessageType) /\ (Sound(hist) => Paired(v))
  BY <1>12, TypesHere, BuiltMessages
<1>2. PICK n : n = Rec("persist", r.run, v, r.iter, r.retry, r.pending, r.kept)
  OBVIOUS
<1>3. [r EXCEPT !.pc = "persist", !.msgs = v] = n
  <2>0. r = Rec(r.pc, r.run, r.msgs, r.iter, r.retry, r.pending, r.kept)
    BY <1>1, SlotForm
  <2>1. PICK t1 : t1 = Rec("persist", r.run, r.msgs, r.iter, r.retry, r.pending, r.kept)
    OBVIOUS
  <2>2. [r EXCEPT !.pc = "persist"] = t1
    BY <2>0, <2>1 DEF Rec
  <2>3. PICK t2 : t2 = Rec("persist", r.run, v, r.iter, r.retry, r.pending, r.kept)
    OBVIOUS
  <2>4. [t1 EXCEPT !.msgs = v] = t2
    BY <2>1, <2>3 DEF Rec
  <2> QED BY <1>2, <2>3, <2>2, <2>4, Zenon
<1>4. Become(s, n)
  BY <1>1, <1>3, <1>12 DEF ResumeBegin, Become
<1>5. n \in SlotType /\ Going(n)
  <2>1. r.run \in Runs
    BY <1>1 DEF ResumeBegin, AtPc, Going
  <2> QED BY <1>1, <1>2, <1>13, <2>1, SlotForm, RecType DEF Pcs
<1>6. hist' = hist
  BY DEF ResumeBegin, Rest
<1>7. (\E u \in Runs, w \in Kinds : Event(u, w)) /\ resumes' = resumes /\ crashes' = crashes
  <2>1. r.run \in Runs /\ "resume" \in Kinds
    BY <1>1 DEF ResumeBegin, AtPc, Going, Kinds
  <2> QED BY <1>1, <2>1 DEF ResumeBegin, Rest
<1>8. Moves(s, n)
  BY <1>4, <1>5, <1>6, <1>7, TypesHere DEF Moves
<1>9. Serves(s, n)
  <2>1. n.pc = "persist" /\ n.msgs = v
    BY <1>2 DEF Rec
  <2> QED BY <1>6, <1>13, <2>1 DEF Serves, Usable
<1> QED BY <1>8, <1>9


-----------------------------------------------------------------------------
(* The invariants.                                                          *)

LEMMA CrashTypes == ASSUME TInv, Crash PROVE TInv'
<1>1. /\ hist \in Seq(MessageType) /\ crashes \in 0..MaxCrashes /\ resumes \in 0..MaxResumes
      /\ trace \in [Runs -> [last : Kinds, ended : BOOLEAN]] /\ later \in [Runs -> SUBSET Runs]
  BY DEF TInv, TypeOK, Kinds
<1>2. /\ hist' = hist /\ trace' = trace /\ later' = later /\ resumes' = resumes
      /\ crashes' \in 0..MaxCrashes /\ slot' = [s \in Slots |-> NoSlot]
  BY <1>1, RunAssumption DEF Crash, NoEvent
<1>3. \A s \in Slots : slot'[s] \in SlotType /\ Going(slot'[s])
  BY <1>2, NoSlotIs
<1>4. slot' \in [Slots -> SlotType]
  BY <1>2, NoSlotIs
<1>5. TypeOK'
  BY <1>1, <1>2, <1>4 DEF TypeOK, SlotType, Pcs, Kinds
<1> QED BY <1>3, <1>5 DEF TInv

LEMMA InitTypes == Init => TInv
<1> SUFFICES ASSUME Init PROVE TInv
  OBVIOUS
<1>1. slot = [s \in Slots |-> NoSlot]
  BY DEF Init
<1>2. slot \in [Slots -> SlotType] /\ \A s \in Slots : slot[s] \in SlotType /\ Going(slot[s])
  BY <1>1, NoSlotIs
<1>3. /\ hist \in Seq(MessageType) /\ resumes \in 0..MaxResumes /\ crashes \in 0..MaxCrashes
      /\ trace \in [Runs -> [last : Kinds, ended : BOOLEAN]] /\ later \in [Runs -> SUBSET Runs]
  BY RunAssumption DEF Init, Kinds
<1> QED BY <1>2, <1>3 DEF TInv, TypeOK, SlotType, Pcs, Kinds

\* Every step that is not a crash is the move of one of the two slots.
LEMMA NextMoves ==
  ASSUME TInv, Next, ~Crash
  PROVE  \E s \in Slots : \E n :
           Moves(s, n) /\ Serves(s, n) /\ (slot[s].pc = "idle" => Alone(s))
<1>1. "worker" \in Slots /\ "resume" \in Slots
  BY DEF Slots
<1>2. CASE \E u \in Runs : Begin(u)
  BY <1>1, <1>2, BeginMoves DEF Begin
<1>3. CASE Scan
  BY <1>1, <1>3, ScanMoves DEF Scan
<1>4. CASE ResumeBegin
  <2>1. slot["resume"].pc # "idle"
    BY <1>4 DEF ResumeBegin, AtPc
  <2> QED BY <1>1, <1>4, <2>1, ResumeBeginMoves
<1>5. ASSUME NEW s \in Slots, Step(s)
      PROVE  \E n : Moves(s, n) /\ Serves(s, n) /\ (slot[s].pc = "idle" => Alone(s))
  <2>1. slot[s].pc # "idle"
    BY <1>5 DEF Step, PersistUser, Iterate, Answer, Steered, Loop, Calls, Apply, Timeout,
       WindowExceeded, Compacted, Fail, Finalize, End, AtPc
  <2> QED BY <1>5, <2>1, StepMoves
<1> QED BY <1>2, <1>3, <1>4, <1>5 DEF Next

LEMMA NextTypes == ASSUME TInv, [Next]_vars PROVE TInv'
<1>1. CASE UNCHANGED vars
  BY <1>1 DEF vars, TInv, TypeOK
<1>2. CASE Next /\ ~Crash
  BY <1>2, NextMoves, MovesType
<1>3. CASE Crash
  BY <1>3, CrashTypes
<1> QED BY <1>1, <1>2, <1>3

\* History, trace and runs keep their types, whatever overlaps (loop.go,
\* pipeline_notify.go, loop_trace.go): iterations and retries stay within
\* MaxIterations and maxRetries, and a run in progress has a run id.
THEOREM TypeCorrect == Spec => []TypeOK
<1>1. TInv => TypeOK
  BY DEF TInv
<1> QED BY <1>1, InitTypes, NextTypes, PTL DEF Spec

\* The inductive invariant of a session whose runs follow one another: at most
\* one of the two is on, the history is sound, and what the run has at hand
\* fits it.
Turns == \A s, o \in Slots : s # o => slot[s].pc = "idle" \/ slot[o].pc = "idle"
RInv == TInv /\ Sound(hist) /\ (\A s \in Slots : Usable(slot[s], hist)) /\ Turns

LEMMA IdleUsable ==
  ASSUME NEW r, NEW h, r.pc = "idle" PROVE Usable(r, h)
BY DEF Usable

LEMMA InitRuns == Init => RInv
<1> SUFFICES ASSUME Init PROVE RInv
  OBVIOUS
<1>1. TInv
  BY InitTypes
<1>2. \A s \in Slots : slot[s].pc = "idle"
  BY NoSlotIs DEF Init
<1>3. Sound(hist)
  BY DEF Init, Sound
<1> QED BY <1>1, <1>2, <1>3, IdleUsable DEF RInv, Turns

LEMMA NextRuns ==
  ASSUME ~Concurrent, RInv, [Next]_vars
  PROVE  RInv'
<1>1. TInv /\ TInv'
  BY NextTypes DEF RInv
<1>2. CASE UNCHANGED vars
  <2>1. hist' = hist /\ slot' = slot
    BY <1>2 DEF vars
  <2> QED BY <1>1, <2>1 DEF RInv, Turns
<1>3. CASE Crash
  <2>1. hist' = hist /\ \A s \in Slots : slot'[s].pc = "idle"
    BY <1>3, NoSlotIs DEF Crash
  <2> QED BY <1>1, <2>1, IdleUsable DEF RInv, Turns
<1>4. CASE Next /\ ~Crash
  <2>1. PICK s \in Slots : \E n :
          Moves(s, n) /\ Serves(s, n) /\ (slot[s].pc = "idle" => Alone(s))
    BY <1>1, <1>4, NextMoves
  <2>2. PICK n : Moves(s, n) /\ Serves(s, n) /\ (slot[s].pc = "idle" => Alone(s))
    BY <2>1
  <2>3. \A o \in Slots : o # s => slot[o].pc = "idle"
    BY <2>2 DEF RInv, Turns, Alone, AtPc
  <2>4. /\ slot'[s] = n
        /\ \A o \in Slots : o # s => slot'[o] = slot[o]
    <3>1. slot \in [Slots -> SlotType] /\ slot' = [slot EXCEPT ![s] = n]
      BY <1>1, <2>2 DEF TInv, TypeOK, SlotType, Pcs, Moves, Become
    <3> QED BY <3>1
  <2>5. Sound(hist') /\ Usable(n, hist')
    BY <2>2 DEF RInv, Serves
  <2>6. \A o \in Slots : Usable(slot'[o], hist')
    BY <2>3, <2>4, <2>5, IdleUsable
  <2>7. \A a, o \in Slots : a # o => slot'[a].pc = "idle" \/ slot'[o].pc = "idle"
    BY <2>3, <2>4
  <2> QED BY <1>1, <2>5, <2>6, <2>7 DEF RInv, Turns
<1> QED BY <1>2, <1>3, <1>4

LEMMA RunsFollow == ASSUME ~Concurrent PROVE Spec => []RInv
BY InitRuns, NextRuns, PTL DEF Spec

\* The messages a run sends (callLLMWithRetry, loop.go) are a transcript a
\* provider accepts, for every number of runs, calls, iterations, crashes and
\* resumptions, as long as the runs of the session follow one another.
THEOREM RequestsAccepted ==
  ASSUME ~Concurrent PROVE Spec => []RequestWellFormed
<1>1. RInv => RequestWellFormed
  BY DEF RInv, Usable, RequestWellFormed, AtPc
<1> QED BY <1>1, RunsFollow, PTL

\* What sanitizeHistoryForProvider (context.go:760-858) makes of the history is a
\* transcript a provider accepts, wherever a crash or a compaction has cut it, as
\* long as the runs of the session follow one another.
THEOREM HistoriesUsable ==
  ASSUME ~Concurrent PROVE Spec => []HistoryUsable
<1>1. RInv => HistoryUsable
  <2> SUFFICES ASSUME RInv PROVE HistoryUsable
    OBVIOUS
  <2>1. "worker" \in Slots /\ TInv /\ Sound(hist)
    BY DEF RInv, Slots
  <2>2. hist \in Seq(MessageType)
    BY <2>1, TypesHere
  <2> QED BY <2>1, <2>2, SanitizeFits DEF HistoryUsable
<1> QED BY <1>1, RunsFollow, PTL

=============================================================================
