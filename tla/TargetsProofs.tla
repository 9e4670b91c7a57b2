---------------------------- MODULE TargetsProofs ----------------------------
(***************************************************************************)
(* Proofs about OwnerSelection and Targets, for any configuration of       *)
(* agents and targets, any preference scores, any number of processes, and *)
(* any bound on tasks, commands and kills.                                 *)
(***************************************************************************)
EXTENDS Targets, FiniteSetTheorems, TLAPS

-----------------------------------------------------------------------------
(***************************************************************************)
(* rankCandidates: the candidates have exactly one order.                  *)
(***************************************************************************)
\* The order of candidates is strict and total.
LEMMA BeforeOrders ==
    /\ \A a \in Agents : ~Before(a, a)
    /\ \A a, b \in Agents : a # b => Before(a, b) \/ Before(b, a)
    /\ \A a, b, c \in Agents : Before(a, b) /\ Before(b, c) => Before(a, c)
<1>1. ASSUME NEW a \in Agents PROVE Priority[a] \in Int /\ a \in Int
  BY OwnerSelectionAssumption
<1> QED
  BY <1>1 DEF Before

Ahead(S, a) == {b \in S : Before(b, a)}

Rank(S, a) == Cardinality(Ahead(S, a)) + 1

\* A candidate's rank is its place, and no two share one.
LEMMA RankPlaces ==
    ASSUME NEW S \in SUBSET Agents
    PROVE  /\ IsFiniteSet(S) /\ Cardinality(S) \in Nat
           /\ \A a \in S : Rank(S, a) \in 1..Cardinality(S)
           /\ \A a, b \in S : Before(a, b) => Rank(S, a) < Rank(S, b)
<1>1. IsFiniteSet(S) /\ Cardinality(S) \in Nat
  BY OwnerSelectionAssumption, FS_Subset, FS_CardinalityType
<1>2. ASSUME NEW a \in S
      PROVE  /\ IsFiniteSet(Ahead(S, a))
             /\ Cardinality(Ahead(S, a)) \in Nat
             /\ Cardinality(Ahead(S, a)) < Cardinality(S)
  <2>1. Ahead(S, a) \in SUBSET S /\ a \notin Ahead(S, a)
    BY BeforeOrders DEF Ahead
  <2>2. IsFiniteSet(Ahead(S, a)) /\ Cardinality(Ahead(S, a)) \in Nat
    BY <1>1, <2>1, FS_Subset, FS_CardinalityType
  <2>3. Cardinality(Ahead(S, a)) <= Cardinality(S) /\ Cardinality(S) # Cardinality(Ahead(S, a))
    BY <1>1, <2>1, FS_Subset
  <2> QED
    BY <1>1, <2>2, <2>3
<1>3. ASSUME NEW a \in S, NEW b \in S, Before(a, b)
      PROVE  Cardinality(Ahead(S, a)) < Cardinality(Ahead(S, b))
  <2>1. Ahead(S, a) \in SUBSET Ahead(S, b)
    BY <1>3, BeforeOrders DEF Ahead
  <2>2. a \in Ahead(S, b) /\ a \notin Ahead(S, a)
    BY <1>3, BeforeOrders DEF Ahead
  <2>3. /\ Cardinality(Ahead(S, a)) <= Cardinality(Ahead(S, b))
        /\ Cardinality(Ahead(S, b)) # Cardinality(Ahead(S, a))
    BY <1>2, <2>1, <2>2, FS_Subset
  <2> QED
    BY <1>2, <2>3
<1>4. ASSUME NEW a \in S PROVE Rank(S, a) \in 1..Cardinality(S)
  BY <1>1, <1>2 DEF Rank
<1>5. ASSUME NEW a \in S, NEW b \in S, Before(a, b) PROVE Rank(S, a) < Rank(S, b)
  BY <1>2, <1>3, <1>5 DEF Rank
<1> QED
  BY <1>1, <1>4, <1>5

IsRanking(s, S) ==
    /\ s \in [1..Cardinality(S) -> S]
    /\ \A a \in S : \E i \in 1..Cardinality(S) : s[i] = a
    /\ \A i, j \in 1..Cardinality(S) : i < j => Before(s[i], s[j])

\* Ranked orders any set of candidates: each of them once, the first the one
\* that no other is before.
LEMMA RankedRanks ==
    ASSUME NEW S \in SUBSET Agents
    PROVE  IsRanking(Ranked(S), S)
<1> DEFINE n == Cardinality(S)
           rank == [a \in S |-> Rank(S, a)]
           Sorted(s) == \A i, j \in DOMAIN s : i < j => Before(s[i], s[j])
<1>1. /\ IsFiniteSet(S) /\ n \in Nat
      /\ \A a \in S : Rank(S, a) \in 1..n
      /\ \A a, b \in S : Before(a, b) => Rank(S, a) < Rank(S, b)
  BY RankPlaces
<1>2. rank \in [S -> 1..n]
  BY <1>1
<1>3. ASSUME NEW a \in S, NEW b \in S, rank[a] = rank[b] PROVE a = b
  BY <1>1, <1>3, BeforeOrders
<1>4. rank \in Injection(S, 1..n)
  BY <1>2, <1>3 DEF Injection, IsInjective
<1>5. IsFiniteSet(1..n) /\ Cardinality(1..n) = n
  BY <1>1, FS_Interval
<1>6. rank \in Surjection(S, 1..n)
  BY <1>4, <1>5, FS_Injection
<1>7. \A i \in 1..n : \E a \in S : rank[a] = i
  BY <1>6 DEF Surjection
<1> DEFINE place == [i \in 1..n |-> CHOOSE a \in S : rank[a] = i]
<1>8. \A i \in 1..n : place[i] \in S /\ rank[place[i]] = i
  BY <1>7
<1>9. place \in [1..n -> S]
  BY <1>8
<1>10. place \in SetToSeqs(S)
  BY <1>8, <1>9 DEF SetToSeqs
<1>11. Sorted(place)
  <2> SUFFICES ASSUME NEW i \in 1..n, NEW j \in 1..n, i < j PROVE Before(place[i], place[j])
    BY <1>9
  <2>1. place[i] \in S /\ place[j] \in S /\ Rank(S, place[i]) = i /\ Rank(S, place[j]) = j
    BY <1>8
  <2>2. ~Before(place[j], place[i]) /\ place[i] # place[j]
    BY <1>1, <2>1
  <2> QED
    BY <2>1, <2>2, BeforeOrders
<1> HIDE DEF place, rank
<1> DEFINE s == Ranked(S)
<1>12. s \in SetToSeqs(S) /\ Sorted(s)
  BY <1>10, <1>11 DEF Ranked
<1> HIDE DEF s
<1>13. s \in [1..n -> S] /\ \A i, j \in 1..n : i # j => s[i] # s[j]
  BY <1>12 DEF SetToSeqs
<1>14. s \in Injection(1..n, S)
  BY <1>13 DEF Injection, IsInjective
<1>15. s \in Surjection(1..n, S)
  BY <1>1, <1>5, <1>14, FS_Injection
<1>16. \A a \in S : \E i \in 1..n : s[i] = a
  BY <1>15 DEF Surjection
<1>17. \A i, j \in 1..n : i < j => Before(s[i], s[j])
  BY <1>12, <1>13
<1> QED
  BY <1>13, <1>16, <1>17 DEF IsRanking, s

-----------------------------------------------------------------------------
(***************************************************************************)
(* adaptiveRoutingExplanation's loop.                                      *)
(***************************************************************************)
\* A set of numbers has a least one: what induction along the loop rests on.
LEMMA Least ==
    ASSUME NEW T \in SUBSET Nat, T # {}
    PROVE  \E m \in T : \A k \in T : m <= k
<1>1. PICK m \in T : \A k \in T : <<k, m>> \notin OpToRel(<, Nat)
  BY NatLessThanWellFounded, WFMin, Zenon
<1>2. \A k \in T : ~(k < m)
  BY <1>1 DEF OpToRel
<1> QED
  BY <1>2

Matches(S) == [owner : {0} \cup S, tie : BOOLEAN]

Scoring(S) == [S -> Int \cup {Unscored}]

IsLoop(f, s, score, n) ==
    f = [i \in 0..n |-> IF i = 0 THEN NoMatch ELSE Match(score, f[i - 1], s[i])]

LEMMA MatchTyped ==
    ASSUME NEW S \in SUBSET Agents, NEW score \in Scoring(S),
           NEW found \in Matches(S), NEW a \in S
    PROVE  Match(score, found, a) \in Matches(S)
<1>1. PICK t \in BOOLEAN : t = (found.tie \/ score[a] = score[found.owner])
  OBVIOUS
<1>2. [found EXCEPT !.tie = @ \/ score[a] = score[found.owner]] = [found EXCEPT !.tie = t]
  BY <1>1
<1>3. [found EXCEPT !.tie = t] \in Matches(S)
  BY DEF Matches
<1>4. [owner |-> a, tie |-> FALSE] \in Matches(S)
  BY DEF Matches
<1> QED
  BY <1>2, <1>3, <1>4 DEF Match

\* The loop has a result after any number of candidates.
LEMMA LoopExists ==
    ASSUME NEW S \in SUBSET Agents, NEW score \in Scoring(S), NEW n \in Nat,
           NEW s \in [1..n -> S]
    PROVE  \E f \in [0..n -> Matches(S)] : IsLoop(f, s, score, n)
<1> DEFINE Bad == {k \in 0..n : ~ \E f \in [0..k -> Matches(S)] : IsLoop(f, s, score, k)}
<1>1. SUFFICES ASSUME Bad # {} PROVE FALSE
  OBVIOUS
<1>2. PICK k \in Bad : \A l \in Bad : k <= l
  <2>1. Bad \in SUBSET Nat
    OBVIOUS
  <2> HIDE DEF Bad
  <2> QED
    BY <1>1, <2>1, Least
<1>3. k \in 0..n
  OBVIOUS
<1>4. CASE k = 0
  <2> DEFINE f == [i \in 0..0 |-> NoMatch]
  <2>1. f \in [0..0 -> Matches(S)]
    BY DEF NoMatch, Matches
  <2>2. IsLoop(f, s, score, 0)
    BY DEF IsLoop
  <2> QED
    BY <1>4, <2>1, <2>2
<1>5. CASE k # 0
  <2>1. k - 1 \in 0..n /\ k - 1 \notin Bad
    BY <1>2, <1>3, <1>5
  <2>2. PICK g \in [0..(k - 1) -> Matches(S)] : IsLoop(g, s, score, k - 1)
    BY <2>1
  <2> DEFINE last == Match(score, g[k - 1], s[k])
             f == [i \in 0..k |-> IF i = k THEN last ELSE g[i]]
  <2>3. last \in Matches(S)
    BY <1>3, <1>5, MatchTyped
  <2> HIDE DEF last
  <2>4. f \in [0..k -> Matches(S)]
    BY <1>3, <1>5, <2>3
  <2>5. ASSUME NEW i \in 0..k
        PROVE  f[i] = IF i = 0 THEN NoMatch ELSE Match(score, f[i - 1], s[i])
    <3>1. CASE i = k
      BY <1>3, <1>5, <3>1 DEF last
    <3>2. CASE i # k
      <4>1. i \in 0..(k - 1)
        BY <1>3, <3>2
      <4>2. g[i] = IF i = 0 THEN NoMatch ELSE Match(score, g[i - 1], s[i])
        BY <2>2, <4>1 DEF IsLoop
      <4>3. i # 0 => i - 1 \in 0..k /\ i - 1 # k
        BY <1>3, <4>1
      <4> QED
        BY <3>2, <4>2, <4>3
    <3> QED
      BY <3>1, <3>2
  <2>6. IsLoop(f, s, score, k)
    BY <2>5 DEF IsLoop
  <2> QED
    BY <2>4, <2>6
<1> QED
  BY <1>4, <1>5

\* What the loop knows after the first n candidates: whether one has a score,
\* one with the highest, and whether that is shared.
Known(found, s, score, n) ==
    /\ found.owner = 0 => \A k \in 1..n : score[s[k]] = Unscored
    /\ found.owner # 0 =>
         /\ \E k \in 1..n : s[k] = found.owner
         /\ score[found.owner] # Unscored
         /\ \A k \in 1..n : score[s[k]] = Unscored \/ score[s[k]] <= score[found.owner]
         /\ found.tie => \E k \in 1..n : s[k] # found.owner /\ score[s[k]] = score[found.owner]
         /\ ~found.tie => \A k \in 1..n : s[k] # found.owner => score[s[k]] # score[found.owner]

LEMMA MatchKnows ==
    ASSUME NEW S \in SUBSET Agents, NEW score \in Scoring(S), NEW n \in Nat \ {0},
           NEW s \in [1..n -> S], \A i, j \in 1..n : i # j => s[i] # s[j],
           NEW found \in Matches(S), Known(found, s, score, n - 1)
    PROVE  Known(Match(score, found, s[n]), s, score, n)
<1> DEFINE a == s[n]
<1>1. a \in S /\ a # 0 /\ 0 \notin S
  BY OwnerSelectionAssumption
<1>2. \A k \in 1..n : k \in 1..(n - 1) \/ k = n
  OBVIOUS
<1>3. \A k \in 1..(n - 1) : k \in 1..n /\ k # n
  OBVIOUS
<1>4. found.owner \in {0} \cup S /\ found.tie \in BOOLEAN
  BY DEF Matches
<1>5. \A b \in S : score[b] = Unscored \/ score[b] \in Int
  BY DEF Scoring
<1>6. n \in 1..n
  OBVIOUS
<1>7. CASE score[a] = Unscored
  <2>1. Match(score, found, a) = found
    BY <1>7 DEF Match
  <2> QED
    BY <1>2, <1>3, <1>7, <2>1 DEF Known
<1>8. CASE score[a] # Unscored /\ (found.owner = 0 \/ score[a] > score[found.owner])
  <2> DEFINE new == [owner |-> a, tie |-> FALSE]
  <2>1. Match(score, found, a) = new
    BY <1>8 DEF Match
  <2>2. new.owner = a /\ new.tie = FALSE
    OBVIOUS
  <2>3. \A k \in 1..(n - 1) : score[s[k]] = Unscored \/ score[s[k]] < score[a]
    BY <1>1, <1>3, <1>4, <1>5, <1>8 DEF Known
  <2>4. score[a] \in Int
    BY <1>1, <1>5, <1>8
  <2>5. \A k \in 1..n : score[s[k]] = Unscored \/ score[s[k]] <= score[a]
    <3>1. \A k \in 1..n : score[s[k]] = Unscored \/ score[s[k]] \in Int
      BY <1>5
    <3> QED
      BY <1>2, <2>3, <2>4, <3>1
  <2>6. \A k \in 1..n : s[k] # a => score[s[k]] # score[a]
    BY <1>2, <1>8, <2>3, <2>4
  <2> QED
    BY <1>1, <1>6, <1>8, <2>1, <2>2, <2>5, <2>6 DEF Known
<1>9. CASE score[a] # Unscored /\ found.owner # 0 /\ ~(score[a] > score[found.owner])
  <2>1. PICK t \in BOOLEAN : t = (found.tie \/ score[a] = score[found.owner])
    OBVIOUS
  <2> DEFINE new == [found EXCEPT !.tie = t]
  <2>2. Match(score, found, a) = new
    BY <1>9, <2>1 DEF Match
  <2>3. new.owner = found.owner /\ new.tie = t
    BY DEF Matches
  <2>4. found.owner # a
    BY <1>3, <1>6, <1>9 DEF Known
  <2>5. score[a] <= score[found.owner]
    BY <1>1, <1>4, <1>5, <1>9 DEF Known
  <2>6. \A k \in 1..n : score[s[k]] = Unscored \/ score[s[k]] <= score[found.owner]
    BY <1>2, <1>9, <2>5 DEF Known
  <2>7. t => \E k \in 1..n : s[k] # found.owner /\ score[s[k]] = score[found.owner]
    BY <1>3, <1>6, <1>9, <2>1, <2>4 DEF Known
  <2>8. ~t => \A k \in 1..n : s[k] # found.owner => score[s[k]] # score[found.owner]
    BY <1>2, <1>9, <2>1 DEF Known
  <2>9. (\E k \in 1..n : s[k] = found.owner) /\ score[found.owner] # Unscored
    BY <1>3, <1>9 DEF Known
  <2> HIDE DEF new
  <2> QED
    BY <1>9, <2>2, <2>3, <2>6, <2>7, <2>8, <2>9 DEF Known
<1> QED
  BY <1>7, <1>8, <1>9

LEMMA LoopKnows ==
    ASSUME NEW S \in SUBSET Agents, NEW score \in Scoring(S), NEW n \in Nat,
           NEW s \in [1..n -> S], \A i, j \in 1..n : i # j => s[i] # s[j],
           NEW f, IsLoop(f, s, score, n)
    PROVE  f[n] \in Matches(S) /\ Known(f[n], s, score, n)
<1> DEFINE Fine(k) == f[k] \in Matches(S) /\ Known(f[k], s, score, k)
           Bad == {k \in 0..n : ~Fine(k)}
<1>1. SUFFICES ASSUME Bad # {} PROVE FALSE
  OBVIOUS
<1>2. PICK k \in Bad : \A l \in Bad : k <= l
  <2>1. Bad \in SUBSET Nat
    OBVIOUS
  <2> HIDE DEF Bad
  <2> QED
    BY <1>1, <2>1, Least
<1>3. k \in 0..n /\ f[k] = IF k = 0 THEN NoMatch ELSE Match(score, f[k - 1], s[k])
  BY DEF IsLoop
<1>4. CASE k = 0
  <2>1. NoMatch \in Matches(S) /\ NoMatch.owner = 0
    BY DEF NoMatch, Matches
  <2>2. \A i \in 1..0 : FALSE
    OBVIOUS
  <2>3. Known(NoMatch, s, score, 0)
    BY <2>1, <2>2 DEF Known
  <2>4. f[k] = NoMatch
    BY <1>3, <1>4
  <2> QED
    BY <1>4, <2>1, <2>3, <2>4
<1>5. CASE k # 0
  <2>1. k - 1 \in 0..n /\ k - 1 \notin Bad /\ k \in Nat \ {0}
    BY <1>2, <1>3, <1>5
  <2>2. f[k - 1] \in Matches(S) /\ Known(f[k - 1], s, score, k - 1)
    BY <2>1
  <2> DEFINE found == f[k - 1]
             r == [i \in 1..k |-> s[i]]
  <2> HIDE DEF found
  <2>3. r \in [1..k -> S] /\ \A i, j \in 1..k : i # j => r[i] # r[j]
    BY <1>3
  <2>4. Known(found, r, score, k - 1)
    BY <2>1, <2>2 DEF Known, found
  <2>5. found \in Matches(S)
    BY <2>2 DEF found
  <2>6. Known(Match(score, found, r[k]), r, score, k)
    BY <2>1, <2>3, <2>4, <2>5, MatchKnows
  <2>7. f[k] = Match(score, found, s[k]) /\ s[k] \in S /\ r[k] = s[k]
    BY <1>3, <1>5 DEF found
  <2>8. f[k] \in Matches(S)
    BY <2>5, <2>7, MatchTyped
  <2>9. Known(f[k], s, score, k)
    BY <2>6, <2>7 DEF Known
  <2> QED
    BY <2>8, <2>9
<1> QED
  BY <1>4, <1>5

\* selectRoutedOwner keeps its promise for every set of candidates and every
\* preference file: a unique best match, or the first in the order.
THEOREM SelectPrefers ==
    ASSUME NEW S \in SUBSET Agents, S # {}, NEW score \in Scoring(S)
    PROVE  Select(S, score) \in S /\ Preferred(S, score, Select(S, score))
<1> DEFINE n == Cardinality(S)
           s == Ranked(S)
<1>1. IsFiniteSet(S) /\ n \in Nat /\ n # 0
  BY RankPlaces, FS_EmptySet
<1>2. /\ s \in [1..n -> S]
      /\ \A a \in S : \E i \in 1..n : s[i] = a
      /\ \A i, j \in 1..n : i < j => Before(s[i], s[j])
  BY RankedRanks DEF IsRanking
<1>3. s \in Seq(S) /\ Len(s) = n /\ Head(s) = s[1] /\ 1 \in 1..n
  BY <1>1, <1>2
<1>4. \A i, j \in 1..n : i # j => s[i] # s[j]
  <2> SUFFICES ASSUME NEW i \in 1..n, NEW j \in 1..n, i < j PROVE s[i] # s[j]
    OBVIOUS
  <2> QED
    BY <1>2, BeforeOrders
<1> DEFINE loop == CHOOSE f : IsLoop(f, s, score, Len(s))
           last == loop[Len(s)]
<1>5. Select(S, score) = IF last.owner = 0 \/ last.tie THEN Head(s) ELSE last.owner
  BY DEF Select, IsLoop
<1> HIDE DEF s
<1>6. IsLoop(loop, s, score, n)
  BY <1>1, <1>2, <1>3, LoopExists
<1>7. last \in Matches(S) /\ Known(last, s, score, n)
  BY <1>1, <1>2, <1>3, <1>4, <1>6, LoopKnows
<1> HIDE DEF loop, last
<1>8. 0 \notin S
  BY OwnerSelectionAssumption
<1>9. \A b \in S : score[b] = Unscored \/ score[b] \in Int
  BY DEF Scoring
<1>10. last.owner \in {0} \cup S
  BY <1>7 DEF Matches
<1>11. CASE last.owner # 0 /\ ~last.tie
  <2>1. Select(S, score) = last.owner /\ last.owner \in S
    BY <1>5, <1>10, <1>11
  <2>2. Best(S, score) = {last.owner}
    <3>1. last.owner \in Best(S, score)
      BY <1>2, <1>7, <1>11, <2>1 DEF Known, Best
    <3>2. ASSUME NEW b \in Best(S, score) PROVE b = last.owner
      <4>1. PICK k \in 1..n : s[k] = b
        BY <1>2 DEF Best
      <4>2. b \in S /\ score[b] \in Int /\ score[last.owner] \in Int
        BY <1>9, <2>1, <3>1 DEF Best
      <4>3. score[b] = score[last.owner]
        <5>1. score[b] # Unscored /\ score[last.owner] # Unscored
          BY <3>1 DEF Best
        <5>2. score[b] <= score[last.owner]
          BY <3>1, <4>2, <5>1 DEF Best
        <5>3. score[last.owner] <= score[b]
          BY <2>1, <5>1 DEF Best
        <5> QED
          BY <4>2, <5>2, <5>3
      <4> QED
        BY <1>7, <1>11, <4>1, <4>3 DEF Known
    <3> QED
      BY <3>1, <3>2
  <2> QED
    BY <2>1, <2>2 DEF Preferred
<1>12. CASE last.owner = 0 \/ last.tie
  <2>1. Select(S, score) = s[1] /\ s[1] \in S
    BY <1>2, <1>3, <1>5, <1>12
  <2>2. ASSUME NEW a \in S PROVE a = s[1] \/ Before(s[1], a)
    <3>1. PICK i \in 1..n : s[i] = a
      BY <1>2
    <3>2. i = 1 \/ 1 < i
      OBVIOUS
    <3> QED
      BY <1>2, <1>3, <3>1, <3>2
  <2>3. ASSUME NEW a \in S, Best(S, score) = {a} PROVE FALSE
    <3>1. PICK k \in 1..n : s[k] = a
      BY <1>2
    <3>2. score[a] # Unscored /\ score[a] \in Int
      BY <1>9, <2>3 DEF Best
    <3>3. last.owner # 0 /\ last.owner \in S /\ last.tie
      BY <1>7, <1>10, <1>12, <3>1, <3>2 DEF Known
    <3>4. score[last.owner] # Unscored /\ score[last.owner] \in Int
      BY <1>7, <1>9, <3>3 DEF Known
    <3>5. \A b \in S : score[b] = Unscored \/ score[b] <= score[last.owner]
      BY <1>2, <1>7, <3>3 DEF Known
    <3>6. last.owner \in Best(S, score)
      BY <3>3, <3>4, <3>5 DEF Best
    <3>7. last.owner = a
      BY <2>3, <3>6
    <3>8. PICK l \in 1..n : s[l] # last.owner /\ score[s[l]] = score[last.owner]
      BY <1>7, <3>3 DEF Known
    <3>9. s[l] \in S
      BY <1>2
    <3>10. s[l] \in Best(S, score)
      BY <3>4, <3>5, <3>8, <3>9 DEF Best
    <3> QED
      BY <2>3, <3>7, <3>8, <3>10
  <2> QED
    BY <2>1, <2>2, <2>3 DEF Preferred
<1> QED
  BY <1>11, <1>12

-----------------------------------------------------------------------------
(***************************************************************************)
(* The invariant of Targets.                                               *)
(***************************************************************************)
\* What a process works on, and what a step of its command may rely on: a task
\* in hand exists and is bound to the target the command is about; a process
\* that dispatches is about a target without a pane; and what is left of an
\* inbox belongs to the target.
JobDoc ==
    [call    : {"none", "route", "add", "enable", "disable"},
     request : Requests \cup {NoRequest},
     todo    : SUBSET Nat,
     fit     : SUBSET Allowed,
     score   : {<<>>} \cup UNION {[S -> Scores \cup {Unscored}] : S \in SUBSET Allowed},
     agent   : Agents \cup {0},
     target  : Targets,
     task    : Tasks \cup {0},
     result  : {"none", "pending", "failed", "dispatched"}]

CallsOf(step) ==
    CASE step = "idle" -> {"none"}
      [] step \in Routing -> {"route"}
      [] step = "create" -> {"route", "add"}
      [] step = "disabled" -> {"disable"}
      [] step \in {"enabled", "inbox", "entry"} -> {"enable"}
      [] step \in Dispatching -> {"route", "add", "enable"}

BoundTo(m, t) == m \in Created /\ Bound[owner[m]] = t

JobFine(p) ==
    /\ job[p].call \in CallsOf(pc[p])
    /\ pc[p] = "create" => job[p].agent \in Allowed
    /\ pc[p] \in Dispatching => /\ job[p].task # 0 /\ job[p].result # "none"
                                /\ job[p].target \notin PaneBacked
    /\ pc[p] = "state" => record[job[p].task] # "none"
    /\ job[p].task # 0 => /\ BoundTo(job[p].task, job[p].target)
                          /\ \/ pc[p] \in Dispatching
                             \/ job[p].call = "enable" /\ job[p].target \in PaneBacked
    /\ job[p].call = "enable" => \A m \in job[p].todo : BoundTo(m, job[p].target)
    /\ pc[p] \in {"enabled", "inbox"} => job[p].todo = {}

RecordFine(t) == record[t] # "none" => t \in Created /\ Bound[owner[t]] \notin PaneBacked

FilesTyped ==
    /\ availability \in [Targets -> Availabilities]
    /\ heartbeat \in [Targets -> {"none", "fresh", "expired"}]
    /\ explained \subseteq Targets
    /\ owner \in [Tasks -> Agents \cup {0}]
    /\ unread \subseteq Created
    /\ record \in [Tasks -> {"none", "pending", "failed", "dispatched"}]

JobsInv == /\ job \in [Procs -> JobDoc]
           /\ \A p \in Procs : JobFine(p)
           /\ \A t \in Tasks : RecordFine(t)

Base ==
    /\ FilesTyped /\ JobsInv
    /\ pc \in [Procs -> Steps]
    /\ commands \in 0..MaxCommands /\ kills \in 0..MaxKills

\* What a route has learnt: whoever is not among the candidates it keeps had a
\* blocked target at some time, and whoever is had an open one.
Routes(p) == job[p].call = "route" /\ pc[p] \in Choosing

RouteFine(p) ==
    /\ Blocked \subseteq troubled[p]
    /\ \A a \in job[p].fit : Bound[a] \notin shut[p]
    /\ pc[p] \in Routing =>
         \A a \in DomainCandidates(job[p].request.class, job[p].request.domains) :
             a \in job[p].todo \/ a \in job[p].fit \/ Bound[a] \in troubled[p]
    /\ pc[p] = "select" => job[p].todo = {}
    /\ pc[p] = "create" => Bound[job[p].agent] \notin shut[p]
    /\ pc[p] = "create" /\ job[p].request.override = 0 =>
         Preferred(job[p].fit, job[p].score, job[p].agent)

RoutesInv == \A p \in Procs : /\ shut[p] \subseteq Blocked
                              /\ Routes(p) => RouteFine(p)

\* Work that an enable owes is unread, undispatched and still before it.
StillAhead(p, m) ==
    \/ owner[m] > job[p].agent
    \/ pc[p] # "inbox" /\ m \in job[p].todo
    \/ pc[p] \in {"command", "record"} /\ m = job[p].task

OwedFine(p, m) ==
    /\ job[p].call = "enable" /\ job[p].target \notin PaneBacked
    /\ m \in unread /\ record[m] # "dispatched"
    /\ BoundTo(m, job[p].target)
    /\ StillAhead(p, m)

OwedInv == \A p \in Procs : \A m \in owed[p] : OwedFine(p, m)

IInv == Base /\ PlacedIsRecorded /\ RoutesInv /\ OwedInv

-----------------------------------------------------------------------------
(***************************************************************************)
(* The jobs of the processes and the files they write.                     *)
(***************************************************************************)
LEMMA Constants ==
    /\ Local \in Targets /\ Local \in PaneBacked
    /\ 0 \notin Tasks /\ 0 \notin Agents /\ Tasks \subseteq Nat /\ Agents \subseteq Nat
    /\ Allowed \subseteq Agents
    /\ \A a \in Agents : Bound[a] \in Targets
    /\ \A class, domains : DomainCandidates(class, domains) \subseteq Allowed
<1>1. Local \in Targets /\ Local \in PaneBacked /\ \A a \in Agents : Bound[a] \in Targets
  BY TargetsAssumption
<1>2. 0 \notin Agents /\ Agents \subseteq Nat /\ Allowed \subseteq Agents
  BY OwnerSelectionAssumption
<1>3. 0 \notin Tasks /\ Tasks \subseteq Nat
  BY TargetsAssumption DEF Tasks
<1>4. \A class, domains : DomainCandidates(class, domains) \subseteq Allowed
  BY DEF DomainCandidates, KindCandidates
<1> QED
  BY <1>1, <1>2, <1>3, <1>4

LEMMA NoJobTyped ==
    /\ NoJob \in JobDoc
    /\ NoJob.call = "none" /\ NoJob.todo = {} /\ NoJob.fit = {} /\ NoJob.agent = 0
    /\ NoJob.task = 0 /\ NoJob.result = "none"
BY Constants DEF NoJob, JobDoc

\* The fields of a job.
LEMMA Fields ==
    ASSUME NEW j \in JobDoc
    PROVE  /\ j.call \in {"none", "route", "add", "enable", "disable"}
           /\ j.request \in Requests \cup {NoRequest}
           /\ j.todo \subseteq Nat /\ j.fit \subseteq Allowed
           /\ j.agent \in Agents \cup {0} /\ j.target \in Targets
           /\ j.task \in Tasks \cup {0}
           /\ j.result \in {"none", "pending", "failed", "dispatched"}
BY DEF JobDoc

LEMMA Calls ==
    /\ CallsOf("idle") = {"none"}
    /\ CallsOf("candidates") = {"route"} /\ CallsOf("select") = {"route"}
    /\ CallsOf("create") = {"route", "add"}
    /\ CallsOf("disabled") = {"disable"}
    /\ CallsOf("enabled") = {"enable"} /\ CallsOf("inbox") = {"enable"}
    /\ CallsOf("entry") = {"enable"}
    /\ \A step \in Dispatching : CallsOf(step) = {"route", "add", "enable"}
BY DEF CallsOf, Routing, Dispatching

\* What the type invariant says of jobs, calls and records is among it.
LEMMA BaseTypes == Base => TypeOK
<1> SUFFICES ASSUME Base PROVE TypeOK
  OBVIOUS
<1>1. ASSUME NEW p \in Procs
      PROVE  /\ job[p].call \in {"none", "route", "add", "enable", "disable"}
             /\ job[p].call = "none" <=> pc[p] = "idle"
             /\ job[p].fit \subseteq Allowed
             /\ job[p].task \in Created \cup {0}
             /\ pc[p] \in Dispatching => job[p].task # 0
  <2>1. job[p] \in JobDoc /\ JobFine(p) /\ pc[p] \in Steps
    BY DEF Base, JobsInv
  <2>2. job[p].call \in CallsOf(pc[p])
    BY <2>1 DEF JobFine
  <2>3. job[p].call = "none" <=> pc[p] = "idle"
    BY <2>1, <2>2 DEF CallsOf, Steps, Routing, Dispatching
  <2>4. job[p].task \in Created \cup {0}
    BY <2>1, Fields DEF JobFine, BoundTo
  <2> QED
    BY <2>1, <2>3, <2>4, Fields DEF JobFine
<1> QED
  BY <1>1 DEF Base, FilesTyped, JobsInv, RecordFine, TypeOK

\* Owners stay, and no record is taken away.
Grows ==
    /\ \A t \in Created : t \in Created' /\ owner'[t] = owner[t]
    /\ \A t \in Tasks : record[t] # "none" => record'[t] # "none"

Others(p) == \A q \in Procs \ {p} : pc'[q] = pc[q] /\ job'[q] = job[q]

Moved(p) ==
    /\ pc' \in [Procs -> Steps] /\ job' \in [Procs -> JobDoc] /\ Others(p)

\* What a process relies on is not taken from it by another's step.
LEMMA FineAside ==
    ASSUME Base, Grows, NEW q \in Procs, pc'[q] = pc[q], job'[q] = job[q]
    PROVE  JobFine(q)'
<1>1. JobFine(q) /\ job[q] \in JobDoc
  BY DEF Base, JobsInv
<1>2. ASSUME NEW m, NEW t, BoundTo(m, t) PROVE BoundTo(m, t)'
  BY <1>2 DEF Grows, BoundTo
<1>3. job[q].task \in Tasks \cup {0}
  BY <1>1, Fields
<1>4. pc[q] = "state" => record'[job[q].task] # "none"
  BY <1>1, <1>3 DEF Grows, JobFine, Dispatching
<1> QED
  BY <1>1, <1>2, <1>4 DEF JobFine

LEMMA BaseKept ==
    ASSUME Base, NEW p \in Procs, Moved(p), Grows, FilesTyped', JobFine(p)',
           \A t \in Tasks : RecordFine(t)',
           commands' \in 0..MaxCommands, kills' \in 0..MaxKills
    PROVE  Base'
<1>1. ASSUME NEW q \in Procs PROVE JobFine(q)'
  BY FineAside DEF Moved, Others
<1> QED
  BY <1>1 DEF Base, JobsInv, Moved

\* A step that leaves owners, messages and records alone.
LEMMA JobStepKept ==
    ASSUME Base, NEW p \in Procs, Moved(p), UNCHANGED <<owner, unread, record>>,
           availability' \in [Targets -> Availabilities],
           heartbeat' \in [Targets -> {"none", "fresh", "expired"}],
           explained' \subseteq Targets, JobFine(p)',
           commands' \in 0..MaxCommands, kills' \in 0..MaxKills
    PROVE  Base' /\ Grows
<1>1. Created' = Created
  BY DEF Created
<1>2. Grows
  BY <1>1 DEF Grows
<1>3. FilesTyped'
  BY <1>1 DEF Base, FilesTyped
<1>4. \A t \in Tasks : RecordFine(t)'
  BY <1>1 DEF Base, JobsInv, RecordFine
<1> QED
  BY <1>2, <1>3, <1>4, BaseKept

\* A command that returns, or a process that is killed.
LEMMA ReturnMoves ==
    ASSUME Base, NEW p \in Procs, Return(p)
    PROVE  Moved(p) /\ pc'[p] = "idle" /\ job'[p] = NoJob
BY NoJobTyped DEF Base, JobsInv, Return, Moved, Others, Steps

LEMMA IdleFine ==
    ASSUME NEW p \in Procs, pc'[p] = "idle", job'[p] = NoJob
    PROVE  JobFine(p)'
BY NoJobTyped, Calls DEF JobFine, Dispatching

\* A step of p to another place, with another job.
LEMMA StepMoves ==
    ASSUME Base, NEW p \in Procs, NEW to \in Steps, NEW doc \in JobDoc,
           pc' = [pc EXCEPT ![p] = to], job' = [job EXCEPT ![p] = doc]
    PROVE  Moved(p) /\ pc'[p] = to /\ job'[p] = doc
BY DEF Base, JobsInv, Moved, Others

LEMMA GoingMoves ==
    ASSUME Base, NEW p \in Procs, NEW to \in Steps,
           pc' = [pc EXCEPT ![p] = to], UNCHANGED job
    PROVE  Moved(p) /\ pc'[p] = to /\ job'[p] = job[p]
BY DEF Base, JobsInv, Moved, Others

LEMMA BeginMoves ==
    ASSUME Base, NEW p \in Procs, NEW call, NEW to \in Steps, NEW doc \in JobDoc,
           Begin(p, call, to), job' = [job EXCEPT ![p] = doc]
    PROVE  /\ Moved(p) /\ pc[p] = "idle" /\ pc'[p] = to /\ job'[p] = doc
           /\ commands' \in 0..MaxCommands /\ kills' \in 0..MaxKills
<1>1. pc[p] = "idle" /\ pc' = [pc EXCEPT ![p] = to]
  BY DEF Begin, Goto
<1>2. commands' \in 0..MaxCommands /\ kills' \in 0..MaxKills
  BY TargetsAssumption DEF Base, Begin
<1> QED
  BY <1>1, <1>2, StepMoves

\* The job at hand.
LEMMA Mine ==
    ASSUME Base, NEW p \in Procs
    PROVE  job[p] \in JobDoc /\ JobFine(p) /\ pc[p] \in Steps
BY DEF Base, JobsInv

-----------------------------------------------------------------------------
\* UpsertTargetState with a value of each field.
LEMMA UpsertTyped ==
    ASSUME Base, NEW t \in Targets, NEW a \in Availabilities,
           NEW h \in {"none", "fresh", "expired"}, NEW reason \in SUBSET Targets,
           Upsert(t, a, h, reason)
    PROVE  /\ availability' \in [Targets -> Availabilities]
           /\ heartbeat' \in [Targets -> {"none", "fresh", "expired"}]
           /\ explained' \subseteq Targets
BY DEF Base, FilesTyped, Upsert

LEMMA HeartbeatTyped ==
    ASSUME Base, NEW t \in Targets, NEW a \in Availabilities, RecordHeartbeat(t, a)
    PROVE  /\ availability' \in [Targets -> Availabilities]
           /\ heartbeat' \in [Targets -> {"none", "fresh", "expired"}]
           /\ explained' \subseteq Targets
<1>1. PICK reason \in SUBSET Targets :
        reason = IF a = "disabled" THEN explained ELSE explained \ {t}
  BY DEF Base, FilesTyped
<1> QED
  BY <1>1, UpsertTyped DEF RecordHeartbeat

\* A step of no process keeps what all of them rely on.
LEMMA SurroundingsKept ==
    ASSUME Base, UNCHANGED <<pc, job, owner, record, kills>>, FilesTyped',
           commands' \in 0..MaxCommands
    PROVE  Base' /\ Grows
<1>1. Created' = Created
  BY DEF Created
<1>2. Grows
  BY <1>1 DEF Grows
<1>3. ASSUME NEW q \in Procs PROVE JobFine(q)'
  BY <1>2, FineAside
<1>4. \A t \in Tasks : RecordFine(t)'
  BY <1>1 DEF Base, JobsInv, RecordFine
<1> QED
  BY <1>2, <1>3, <1>4 DEF Base, JobsInv

LEMMA HeartbeatsKept ==
    ASSUME Base,
           \/ \E t \in Targets : HeartbeatExpires(t)
           \/ \E t \in Targets, a \in Availabilities : TargetHeartbeat(t, a)
    PROVE  Base' /\ Grows /\ UNCHANGED <<owner, unread, record, pc, job, kills>>
<1>1. ASSUME NEW t \in Targets, HeartbeatExpires(t) PROVE Base' /\ Grows
  <2>1. FilesTyped'
    BY <1>1 DEF HeartbeatExpires, Base, FilesTyped, Created
  <2> QED
    BY <1>1, <2>1, SurroundingsKept DEF HeartbeatExpires, Base
<1>2. ASSUME NEW t \in Targets, NEW a \in Availabilities, TargetHeartbeat(t, a)
      PROVE  Base' /\ Grows
  <2>1. FilesTyped'
    BY <1>2, HeartbeatTyped DEF TargetHeartbeat, Base, FilesTyped, Created
  <2>2. commands' \in 0..MaxCommands
    BY <1>2, TargetsAssumption DEF TargetHeartbeat, Base
  <2> QED
    BY <1>2, <2>1, <2>2, SurroundingsKept DEF TargetHeartbeat
<1> QED
  BY <1>1, <1>2 DEF HeartbeatExpires, TargetHeartbeat

LEMMA InboxesKept ==
    ASSUME Base, NEW t \in Tasks, Read(t) \/ Requeue(t)
    PROVE  Base' /\ Grows
<1>1. FilesTyped'
  BY DEF Read, Requeue, Base, FilesTyped, Created
<1> QED
  BY <1>1, SurroundingsKept DEF Read, Requeue, Base

-----------------------------------------------------------------------------
LEMMA DisableKept ==
    ASSUME Base, NEW p \in Procs, NEW t \in Targets, DisableTarget(p, t)
    PROVE  Base' /\ Grows /\ Moved(p) /\ job'[p].call = "disable"
<1> DEFINE doc == [NoJob EXCEPT !.call = "disable", !.target = t]
<1>1. doc \in JobDoc /\ doc.call = "disable" /\ doc.task = 0
  BY NoJobTyped DEF JobDoc
<1> HIDE DEF doc
<1>2. Begin(p, "disable", "disabled") /\ job' = [job EXCEPT ![p] = doc]
  BY DEF DisableTarget, doc
<1>3. /\ Moved(p) /\ pc'[p] = "disabled" /\ job'[p] = doc
      /\ commands' \in 0..MaxCommands /\ kills' \in 0..MaxKills
  BY <1>1, <1>2, BeginMoves DEF Steps, Dispatching, Routing
<1>4. JobFine(p)'
  BY <1>1, <1>3, Calls DEF JobFine, Dispatching
<1>5. PICK h \in {"none", "fresh", "expired"} : h = heartbeat[t]
  BY DEF Base, FilesTyped
<1>6. explained \cup {t} \in SUBSET Targets
  BY DEF Base, FilesTyped
<1>7. /\ availability' \in [Targets -> Availabilities]
      /\ heartbeat' \in [Targets -> {"none", "fresh", "expired"}]
      /\ explained' \subseteq Targets
  <2>1. Upsert(t, "disabled", h, explained \cup {t})
    BY <1>5 DEF DisableTarget
  <2> QED
    BY <1>6, <2>1, UpsertTyped DEF Availabilities
<1> QED
  BY <1>1, <1>3, <1>4, <1>7, JobStepKept DEF DisableTarget

LEMMA DisableReportsKept ==
    ASSUME Base, NEW p \in Procs, DisableReports(p)
    PROVE  Base' /\ Grows /\ Moved(p) /\ job'[p] = NoJob /\ job[p].task = 0
<1>1. Moved(p) /\ pc'[p] = "idle" /\ job'[p] = NoJob
  BY ReturnMoves DEF DisableReports
<1>2. JobFine(p)'
  BY <1>1, IdleFine
<1>3. PICK t \in Targets : t = job[p].target
  BY Mine, Fields
<1>4. RecordHeartbeat(t, "disabled")
  BY <1>3 DEF DisableReports
<1>5. job[p].task = 0
  <2>1. job[p].call = "disable"
    BY Mine, Calls DEF DisableReports, JobFine
  <2> QED
    BY <2>1, Mine DEF DisableReports, JobFine, Dispatching
<1> QED
  BY <1>1, <1>2, <1>4, <1>5, HeartbeatTyped, JobStepKept DEF DisableReports, Availabilities, Base

LEMMA EnableKept ==
    ASSUME Base, NEW p \in Procs, NEW t \in Targets, EnableTarget(p, t)
    PROVE  /\ Base' /\ Grows /\ Moved(p) /\ pc[p] = "idle" /\ pc'[p] = "enabled"
           /\ job'[p].call = "enable" /\ job'[p].target = t /\ job'[p].agent = 0
           /\ job'[p].task = 0
<1> DEFINE doc == [NoJob EXCEPT !.call = "enable", !.target = t]
<1>1. /\ doc \in JobDoc /\ doc.call = "enable" /\ doc.task = 0 /\ doc.target = t
      /\ doc.agent = 0 /\ doc.todo = {}
  BY NoJobTyped DEF JobDoc
<1> HIDE DEF doc
<1>2. Begin(p, "enable", "enabled") /\ job' = [job EXCEPT ![p] = doc]
  BY DEF EnableTarget, doc
<1>3. /\ Moved(p) /\ pc[p] = "idle" /\ pc'[p] = "enabled" /\ job'[p] = doc
      /\ commands' \in 0..MaxCommands /\ kills' \in 0..MaxKills
  BY <1>1, <1>2, BeginMoves DEF Steps, Dispatching, Routing
<1>4. JobFine(p)'
  BY <1>1, <1>3, Calls DEF JobFine, Dispatching
<1>5. PICK h \in {"none", "fresh", "expired"} : h = heartbeat[t]
  BY DEF Base, FilesTyped
<1>6. explained \ {t} \in SUBSET Targets
  BY DEF Base, FilesTyped
<1>7. /\ availability' \in [Targets -> Availabilities]
      /\ heartbeat' \in [Targets -> {"none", "fresh", "expired"}]
      /\ explained' \subseteq Targets
  <2>1. Upsert(t, "ready", h, explained \ {t})
    BY <1>5 DEF EnableTarget
  <2> QED
    BY <1>6, <2>1, UpsertTyped DEF Availabilities
<1> QED
  BY <1>1, <1>3, <1>4, <1>7, JobStepKept DEF EnableTarget

LEMMA EnableReportsKept ==
    ASSUME Base, NEW p \in Procs, EnableReports(p)
    PROVE  /\ Base' /\ Grows /\ Moved(p)
           /\ pc[p] = "enabled" /\ pc'[p] = "inbox" /\ job'[p] = job[p]
<1>1. pc[p] = "enabled" /\ pc' = [pc EXCEPT ![p] = "inbox"] /\ UNCHANGED job
  BY DEF EnableReports, Goto
<1>2. Moved(p) /\ pc'[p] = "inbox" /\ job'[p] = job[p]
  BY <1>1, GoingMoves DEF Steps, Dispatching, Routing
<1>3. PICK t \in Targets : t = job[p].target
  BY Mine, Fields
<1>4. RecordHeartbeat(t, "ready")
  BY <1>3 DEF EnableReports
<1>5. JobFine(p)'
  <2>1. JobFine(p) /\ UNCHANGED <<owner, record>>
    BY Mine DEF EnableReports
  <2>2. \A m, u : BoundTo(m, u)' <=> BoundTo(m, u)
    BY <2>1 DEF BoundTo, Created
  <2> QED
    BY <1>1, <1>2, <2>1, <2>2, Calls DEF JobFine, Dispatching
<1> QED
  BY <1>1, <1>2, <1>4, <1>5, HeartbeatTyped, JobStepKept DEF EnableReports, Availabilities, Base

\* A step that writes no file.
LEMMA QuietStepKept ==
    ASSUME Base, NEW p \in Procs, Moved(p), UNCHANGED <<files>>, JobFine(p)',
           commands' \in 0..MaxCommands, kills' \in 0..MaxKills
    PROVE  Base' /\ Grows
BY JobStepKept DEF files, Base, FilesTyped

LEMMA BoundStays ==
    ASSUME UNCHANGED owner
    PROVE  \A m, t : BoundTo(m, t)' <=> BoundTo(m, t)
BY DEF BoundTo, Created

LEMMA ListInboxKept ==
    ASSUME Base, NEW p \in Procs, ListInbox(p)
    PROVE  /\ Base' /\ Grows /\ Moved(p) /\ pc[p] = "inbox" /\ pc'[p] = "entry"
           /\ job'[p].call = job[p].call /\ job'[p].target = job[p].target
           /\ job'[p].task = job[p].task
           /\ job'[p].agent \in AgentsLeft(p)
           /\ \A b \in AgentsLeft(p) : job'[p].agent <= b
           /\ job'[p].todo = {t \in unread : owner[t] = job'[p].agent}
<1>1. PICK a \in AgentsLeft(p) :
        /\ \A b \in AgentsLeft(p) : a <= b
        /\ job' = [job EXCEPT ![p].agent = a, ![p].todo = {t \in unread : owner[t] = a}]
  BY DEF ListInbox
<1> DEFINE entries == {t \in unread : owner[t] = a}
           doc == [job[p] EXCEPT !.agent = a, !.todo = entries]
<1>2. job[p] \in JobDoc /\ JobFine(p) /\ pc[p] = "inbox" /\ pc' = [pc EXCEPT ![p] = "entry"]
  BY Mine DEF ListInbox, Goto
<1>3. a \in Agents /\ Bound[a] = job[p].target /\ entries \subseteq Created /\ entries \subseteq Tasks
  BY DEF AgentsLeft, Base, FilesTyped, Created
<1>4. \A m \in entries : BoundTo(m, job[p].target)
  BY <1>3 DEF BoundTo
<1> HIDE DEF entries
<1>5. /\ doc \in JobDoc /\ doc.call = job[p].call /\ doc.target = job[p].target
      /\ doc.task = job[p].task /\ doc.agent = a /\ doc.todo = entries
  BY <1>2, <1>3, Constants DEF JobDoc
<1>6. job' = [job EXCEPT ![p] = doc]
  BY <1>1 DEF Base, JobsInv, entries
<1> HIDE DEF doc
<1>7. Moved(p) /\ pc'[p] = "entry" /\ job'[p] = doc
  BY <1>2, <1>5, <1>6, StepMoves DEF Steps, Dispatching, Routing
<1>8. UNCHANGED <<files, commands, kills>> /\ UNCHANGED <<owner, record>>
  BY DEF ListInbox, files
<1>9. \A m, t : BoundTo(m, t)' <=> BoundTo(m, t)
  BY <1>8, BoundStays
<1>10. JobFine(p)'
  BY <1>2, <1>4, <1>5, <1>7, <1>9, Calls DEF JobFine, Dispatching
<1>11. Base' /\ Grows
  BY <1>7, <1>8, <1>10, QuietStepKept DEF Base
<1> QED
  BY <1>1, <1>2, <1>5, <1>7, <1>11 DEF entries

LEMMA InboxDoneKept ==
    ASSUME Base, NEW p \in Procs, InboxDone(p)
    PROVE  /\ Base' /\ Grows /\ Moved(p) /\ pc[p] = "entry" /\ pc'[p] = "inbox"
           /\ job'[p] = job[p] /\ job[p].todo = {}
<1>1. pc[p] = "entry" /\ pc' = [pc EXCEPT ![p] = "inbox"] /\ UNCHANGED job /\ job[p].todo = {}
  BY DEF InboxDone, Goto
<1>2. Moved(p) /\ pc'[p] = "inbox" /\ job'[p] = job[p]
  BY <1>1, GoingMoves DEF Steps, Dispatching, Routing
<1>3. UNCHANGED <<files, commands, kills>> /\ UNCHANGED <<owner, record>>
  BY DEF InboxDone, files
<1>4. JobFine(p)'
  BY <1>1, <1>2, <1>3, Mine, BoundStays, Calls DEF JobFine, Dispatching
<1> QED
  BY <1>1, <1>2, <1>3, <1>4, QuietStepKept DEF Base

\* A command that ends without a task to dispatch, or is killed.
LEMMA ReturnKept ==
    ASSUME Base, NEW p \in Procs, Return(p), UNCHANGED <<files, commands>>,
           kills' \in 0..MaxKills
    PROVE  Base' /\ Grows /\ Moved(p) /\ pc'[p] = "idle" /\ job'[p] = NoJob
BY ReturnMoves, IdleFine, QuietStepKept DEF Base

\* An entry of the inbox: dispatched already, of a target with a pane, or the
\* next task to dispatch.
LEMMA PendingEntryKept ==
    ASSUME Base, NEW p \in Procs, NEW t \in Tasks, PendingEntry(p, t)
    PROVE  /\ Base' /\ Grows /\ Moved(p) /\ pc[p] = "entry"
           /\ pc'[p] \in {"entry", "command", "record"}
           /\ job'[p].call = job[p].call /\ job'[p].target = job[p].target
           /\ job'[p].agent = job[p].agent /\ job'[p].todo = job[p].todo \ {t}
           /\ t \in job[p].todo
           /\ record[t] = "dispatched" => job'[p].task = job[p].task
           /\ record[t] # "dispatched" => job'[p].task = t
           /\ record[t] # "dispatched" /\ job[p].target \notin PaneBacked => pc'[p] # "entry"
<1>1. /\ job[p] \in JobDoc /\ JobFine(p) /\ pc[p] = "entry" /\ t \in job[p].todo
      /\ UNCHANGED <<files, commands, kills>> /\ UNCHANGED <<owner, record>>
  BY Mine DEF PendingEntry, Goto, files
<1>2. job[p].call = "enable" /\ BoundTo(t, job[p].target) /\ t # 0
  BY <1>1, Calls, Constants DEF JobFine
<1>3. \A m, u : BoundTo(m, u)' <=> BoundTo(m, u)
  BY <1>1, BoundStays
<1>4. CASE record[t] = "dispatched"
  <2> DEFINE rest == job[p].todo \ {t}
             doc == [job[p] EXCEPT !.todo = rest]
  <2>1. /\ doc \in JobDoc /\ doc.call = job[p].call /\ doc.target = job[p].target
        /\ doc.task = job[p].task /\ doc.agent = job[p].agent /\ doc.todo = rest
        /\ doc.result = job[p].result
    BY <1>1 DEF JobDoc
  <2>2. job' = [job EXCEPT ![p] = doc] /\ pc' = [pc EXCEPT ![p] = "entry"]
    BY <1>4 DEF PendingEntry, Goto
  <2> HIDE DEF doc
  <2>3. Moved(p) /\ pc'[p] = "entry" /\ job'[p] = doc
    BY <2>1, <2>2, StepMoves DEF Steps, Dispatching, Routing
  <2>4. JobFine(p)'
    BY <1>1, <1>3, <2>1, <2>3, Calls DEF JobFine, Dispatching
  <2>5. Base' /\ Grows
    BY <1>1, <2>3, <2>4, QuietStepKept DEF Base
  <2> QED
    BY <1>1, <1>4, <2>1, <2>3, <2>5
<1>5. CASE record[t] # "dispatched"
  <2> DEFINE rest == job[p].todo \ {t}
             doc == [job[p] EXCEPT !.todo = rest, !.task = t, !.result = "pending"]
  <2>1. /\ doc \in JobDoc /\ doc.call = job[p].call /\ doc.target = job[p].target
        /\ doc.task = t /\ doc.agent = job[p].agent /\ doc.todo = rest
        /\ doc.result = "pending"
    BY <1>1 DEF JobDoc
  <2>2. job' = [job EXCEPT ![p] = doc] /\ pc' = [pc EXCEPT ![p] = StartDispatch(p)]
    BY <1>5 DEF PendingEntry, Goto, Base, JobsInv
  <2>3. /\ StartDispatch(p) \in {"entry", "command", "record"}
        /\ StartDispatch(p) = "entry" <=> job[p].target \in PaneBacked
    BY DEF StartDispatch, HasPane
  <2> HIDE DEF doc
  <2>4. Moved(p) /\ pc'[p] = StartDispatch(p) /\ job'[p] = doc
    <3>1. PICK to \in Steps : to = StartDispatch(p)
      BY <2>3 DEF Steps, Dispatching
    <3>2. pc' = [pc EXCEPT ![p] = to]
      BY <2>2, <3>1
    <3>3. PICK new \in JobDoc : new = doc
      BY <2>1
    <3>4. job' = [job EXCEPT ![p] = new]
      BY <2>2, <3>3
    <3>5. Moved(p) /\ pc'[p] = to /\ job'[p] = new
      BY <3>2, <3>4, StepMoves
    <3> QED
      BY <3>1, <3>3, <3>5
  <2>5. JobFine(p)'
    BY <1>1, <1>2, <1>3, <2>1, <2>3, <2>4, Calls DEF JobFine, Dispatching
  <2>6. Base' /\ Grows
    BY <1>1, <2>4, <2>5, QuietStepKept DEF Base
  <2> QED
    BY <1>1, <1>5, <2>1, <2>3, <2>4, <2>6
<1> QED
  BY <1>4, <1>5

-----------------------------------------------------------------------------
\* The end of a dispatch, within an enable or of a new task.
LEMMA DispatchEndsMoves ==
    ASSUME Base, NEW p \in Procs, DispatchEnds(p), pc[p] \in Dispatching, Grows
    PROVE  /\ Moved(p) /\ JobFine(p)'
           /\ job[p].call = "enable" =>
                /\ pc'[p] = "entry" /\ job'[p].call = "enable" /\ job'[p].todo = job[p].todo
                /\ job'[p].agent = job[p].agent /\ job'[p].target = job[p].target
                /\ job'[p].task = 0
           /\ job[p].call # "enable" => pc'[p] = "idle" /\ job'[p] = NoJob
<1>1. job[p] \in JobDoc /\ JobFine(p)
  BY Mine
<1>2. CASE job[p].call = "enable"
  <2> DEFINE doc == [job[p] EXCEPT !.task = 0, !.result = "none"]
  <2>1. /\ doc \in JobDoc /\ doc.call = "enable" /\ doc.todo = job[p].todo
        /\ doc.agent = job[p].agent /\ doc.target = job[p].target /\ doc.task = 0
    BY <1>1, <1>2 DEF JobDoc
  <2>2. pc' = [pc EXCEPT ![p] = "entry"] /\ job' = [job EXCEPT ![p] = doc]
    BY <1>2 DEF DispatchEnds, Base, JobsInv
  <2> HIDE DEF doc
  <2>3. Moved(p) /\ pc'[p] = "entry" /\ job'[p] = doc
    BY <2>1, <2>2, StepMoves DEF Steps, Dispatching, Routing
  <2>4. \A m, t : BoundTo(m, t) => BoundTo(m, t)'
    BY DEF Grows, BoundTo
  <2>5. JobFine(p)'
    BY <1>1, <1>2, <2>1, <2>3, <2>4, Calls DEF JobFine, Dispatching
  <2> QED
    BY <1>2, <2>1, <2>3, <2>5
<1>3. CASE job[p].call # "enable"
  BY <1>3, ReturnMoves, IdleFine DEF DispatchEnds
<1> QED
  BY <1>2, <1>3

LEMMA RunCommandKept ==
    ASSUME Base, NEW p \in Procs, NEW ok \in BOOLEAN, RunCommand(p, ok)
    PROVE  /\ Base' /\ Grows /\ Moved(p) /\ pc[p] = "command" /\ pc'[p] = "record"
           /\ job'[p].call = job[p].call /\ job'[p].target = job[p].target
           /\ job'[p].agent = job[p].agent /\ job'[p].todo = job[p].todo
           /\ job'[p].task = job[p].task
<1>1. /\ job[p] \in JobDoc /\ JobFine(p) /\ pc[p] = "command"
      /\ UNCHANGED <<files, commands, kills>> /\ UNCHANGED <<owner, record>>
  BY Mine DEF RunCommand, Goto, files
<1>2. PICK r \in {"dispatched", "failed"} : r = IF ok THEN "dispatched" ELSE "failed"
  OBVIOUS
<1> DEFINE doc == [job[p] EXCEPT !.result = r]
<1>3. /\ doc \in JobDoc /\ doc.call = job[p].call /\ doc.target = job[p].target
      /\ doc.agent = job[p].agent /\ doc.todo = job[p].todo /\ doc.task = job[p].task
      /\ doc.result = r
  BY <1>1 DEF JobDoc
<1>4. pc' = [pc EXCEPT ![p] = "record"] /\ job' = [job EXCEPT ![p] = doc]
  BY <1>2 DEF RunCommand, Goto
<1> HIDE DEF doc
<1>5. Moved(p) /\ pc'[p] = "record" /\ job'[p] = doc
  BY <1>3, <1>4, StepMoves DEF Steps, Dispatching, Routing
<1>6. JobFine(p)'
  BY <1>1, <1>3, <1>5, BoundStays, Calls DEF JobFine, Dispatching
<1> QED
  BY <1>1, <1>3, <1>5, <1>6, QuietStepKept DEF Base

LEMMA WriteRecordKept ==
    ASSUME Base, NEW p \in Procs, WriteRecord(p)
    PROVE  /\ Base' /\ Grows /\ Moved(p) /\ pc[p] = "record"
           /\ pc'[p] \in {"state", "entry", "idle"}
           /\ job[p].task \in Tasks /\ record'[job[p].task] # "none"
           /\ \A t \in Tasks \ {job[p].task} : record'[t] = record[t]
           /\ job'[p].call = "enable" <=> job[p].call = "enable"
           /\ job'[p].call = "enable" => /\ job'[p].agent = job[p].agent
                                         /\ job'[p].todo = job[p].todo
                                         /\ job'[p].target = job[p].target
                                         /\ pc'[p] # "inbox"
           /\ job'[p].task \in {0, job[p].task}
<1>1. /\ job[p] \in JobDoc /\ JobFine(p) /\ pc[p] = "record"
      /\ UNCHANGED <<owner, unread>> /\ UNCHANGED <<availability, heartbeat, explained>>
      /\ UNCHANGED <<commands, kills>>
  BY Mine DEF WriteRecord
<1> DEFINE m == job[p].task
           r == job[p].result
<1>2. /\ m \in Tasks /\ BoundTo(m, job[p].target) /\ job[p].target \notin PaneBacked
      /\ r \in {"pending", "failed", "dispatched"}
  BY <1>1, Fields DEF JobFine, Dispatching
<1>3. record' = [record EXCEPT ![m] = r]
  BY DEF WriteRecord
<1>4. /\ record'[m] = r /\ \A t \in Tasks \ {m} : record'[t] = record[t]
      /\ record' \in [Tasks -> {"none", "pending", "failed", "dispatched"}]
  BY <1>2, <1>3 DEF Base, FilesTyped
<1>5. Created' = Created
  BY <1>1 DEF Created
<1>6. Grows
  BY <1>1, <1>2, <1>4, <1>5 DEF Grows
<1>7. FilesTyped'
  BY <1>1, <1>4, <1>5 DEF Base, FilesTyped
<1>8. ASSUME NEW t \in Tasks PROVE RecordFine(t)'
  <2>1. CASE t = m
    BY <1>1, <1>2, <1>5, <2>1 DEF RecordFine, BoundTo
  <2>2. CASE t # m
    BY <1>1, <1>4, <1>5, <2>2 DEF Base, JobsInv, RecordFine
  <2> QED
    BY <2>1, <2>2
<1>9. CASE r = "pending"
  <2>1. DispatchEnds(p) /\ pc[p] \in Dispatching
    BY <1>1, <1>9 DEF WriteRecord, Dispatching
  <2>2. Moved(p) /\ JobFine(p)'
    BY <1>6, <2>1, DispatchEndsMoves
  <2>3. Base'
    BY <1>1, <1>6, <1>7, <1>8, <2>2, BaseKept DEF Base
  <2> QED
    BY <1>1, <1>2, <1>4, <1>6, <2>1, <2>2, <2>3, DispatchEndsMoves, NoJobTyped
<1>10. CASE r # "pending"
  <2>1. pc' = [pc EXCEPT ![p] = "state"] /\ UNCHANGED job
    BY <1>10 DEF WriteRecord
  <2>2. Moved(p) /\ pc'[p] = "state" /\ job'[p] = job[p]
    BY <2>1, GoingMoves DEF Steps, Dispatching, Routing
  <2>3. \A k, t : BoundTo(k, t) => BoundTo(k, t)'
    BY <1>6 DEF Grows, BoundTo
  <2>4. JobFine(p)'
    BY <1>1, <1>2, <1>4, <2>2, <2>3, Calls DEF JobFine, Dispatching
  <2>5. Base'
    BY <1>1, <1>6, <1>7, <1>8, <2>2, <2>4, BaseKept DEF Base
  <2> QED
    BY <1>1, <1>2, <1>4, <1>6, <2>2, <2>5
<1> QED
  BY <1>9, <1>10

LEMMA WriteOutcomeKept ==
    ASSUME Base, NEW p \in Procs, WriteOutcome(p)
    PROVE  /\ Base' /\ Grows /\ Moved(p) /\ pc[p] = "state"
           /\ pc'[p] \in {"entry", "idle"}
           /\ UNCHANGED <<owner, unread, record>>
           /\ record[job[p].task] # "none"
           /\ job'[p].call = "enable" <=> job[p].call = "enable"
           /\ job'[p].call = "enable" => /\ job'[p].agent = job[p].agent
                                         /\ job'[p].todo = job[p].todo
                                         /\ job'[p].target = job[p].target
                                         /\ pc'[p] = "entry"
           /\ job'[p].task = 0
<1>1. /\ job[p] \in JobDoc /\ JobFine(p) /\ pc[p] = "state"
      /\ UNCHANGED <<owner, unread, record, commands, kills>> /\ DispatchEnds(p)
  BY Mine DEF WriteOutcome
<1>2. PICK t \in Targets : t = job[p].target
  BY <1>1, Fields
<1>3. PICK a \in Availabilities : a = IF job[p].result = "failed" THEN "degraded" ELSE "ready"
  BY DEF Availabilities
<1>4. PICK h \in {"none", "fresh", "expired"} : h = heartbeat[t]
  BY DEF Base, FilesTyped
<1>5. PICK reason \in SUBSET Targets : reason = explained
  BY DEF Base, FilesTyped
<1>6. Upsert(t, a, h, reason)
  BY <1>2, <1>3, <1>4, <1>5 DEF WriteOutcome
<1>7. /\ availability' \in [Targets -> Availabilities]
      /\ heartbeat' \in [Targets -> {"none", "fresh", "expired"}]
      /\ explained' \subseteq Targets
  BY <1>6, UpsertTyped
<1>8. pc[p] \in Dispatching /\ Grows
  BY <1>1 DEF Dispatching, Grows, Created
<1>9. Moved(p) /\ JobFine(p)'
  BY <1>1, <1>8, DispatchEndsMoves
<1>10. Base'
  BY <1>1, <1>7, <1>9, JobStepKept DEF Base
<1> QED
  BY <1>1, <1>8, <1>9, <1>10, DispatchEndsMoves, NoJobTyped DEF JobFine

-----------------------------------------------------------------------------
LEMMA RouteChildTaskKept ==
    ASSUME Base, NEW p \in Procs, NEW r \in Requests, RouteChildTask(p, r)
    PROVE  /\ Base' /\ Grows /\ Moved(p) /\ pc[p] = "idle" /\ pc'[p] = "candidates"
           /\ job'[p].call = "route" /\ job'[p].request = r /\ job'[p].fit = {}
           /\ job'[p].todo = DomainCandidates(r.class, r.domains)
<1> DEFINE all == DomainCandidates(r.class, r.domains)
           doc == [NoJob EXCEPT !.call = "route", !.request = r, !.todo = all]
<1>1. all \subseteq Nat
  BY Constants
<1>2. Begin(p, "route", "candidates") /\ job' = [job EXCEPT ![p] = doc] /\ UNCHANGED <<files>>
  BY DEF RouteChildTask
<1> HIDE DEF all
<1>3. /\ doc \in JobDoc /\ doc.call = "route" /\ doc.request = r /\ doc.fit = {}
      /\ doc.todo = all /\ doc.task = 0
  BY <1>1, NoJobTyped DEF JobDoc
<1> HIDE DEF doc
<1>4. /\ Moved(p) /\ pc[p] = "idle" /\ pc'[p] = "candidates" /\ job'[p] = doc
      /\ commands' \in 0..MaxCommands /\ kills' \in 0..MaxKills
  BY <1>2, <1>3, BeginMoves DEF Steps, Dispatching, Routing
<1>5. JobFine(p)'
  BY <1>3, <1>4, Calls DEF JobFine, Dispatching
<1> QED
  BY <1>2, <1>3, <1>4, <1>5, QuietStepKept DEF all

LEMMA AddChildTaskKept ==
    ASSUME Base, NEW p \in Procs, NEW a \in Allowed, AddChildTask(p, a)
    PROVE  Base' /\ Grows /\ Moved(p) /\ job'[p].call = "add" /\ pc[p] = "idle"
<1> DEFINE doc == [NoJob EXCEPT !.call = "add", !.agent = a]
<1>1. Begin(p, "add", "create") /\ job' = [job EXCEPT ![p] = doc] /\ UNCHANGED <<files>>
  BY DEF AddChildTask
<1>2. doc \in JobDoc /\ doc.call = "add" /\ doc.agent = a /\ doc.task = 0
  BY NoJobTyped, Constants DEF JobDoc
<1> HIDE DEF doc
<1>3. /\ Moved(p) /\ pc[p] = "idle" /\ pc'[p] = "create" /\ job'[p] = doc
      /\ commands' \in 0..MaxCommands /\ kills' \in 0..MaxKills
  BY <1>1, <1>2, BeginMoves DEF Steps, Dispatching, Routing
<1>4. JobFine(p)'
  BY <1>2, <1>3, Calls DEF JobFine, Dispatching
<1> QED
  BY <1>1, <1>2, <1>3, <1>4, QuietStepKept

\* One candidate is looked at: kept unless its target blocks routing.
LEMMA FilterKept ==
    ASSUME Base, NEW p \in Procs, NEW a \in Allowed, Filter(p, a)
    PROVE  /\ Base' /\ Grows /\ Moved(p) /\ pc[p] = "candidates" /\ pc'[p] = "candidates"
           /\ UNCHANGED <<files>>
           /\ job'[p].call = job[p].call /\ job'[p].request = job[p].request
           /\ job'[p].todo = job[p].todo \ {a} /\ job'[p].task = 0
           /\ BlocksRouting(Bound[a]) => job'[p].fit = job[p].fit
           /\ ~BlocksRouting(Bound[a]) => job'[p].fit = job[p].fit \cup {a}
<1> DEFINE kept == IF BlocksRouting(Bound[a]) THEN job[p].fit ELSE job[p].fit \cup {a}
           rest == job[p].todo \ {a}
           doc == [job[p] EXCEPT !.todo = rest, !.fit = kept]
<1>1. /\ job[p] \in JobDoc /\ JobFine(p) /\ pc[p] = "candidates"
      /\ pc' = [pc EXCEPT ![p] = "candidates"] /\ UNCHANGED <<files, commands, kills>>
  BY Mine DEF Filter, Goto
<1>2. job' = [job EXCEPT ![p] = doc]
  BY DEF Filter, Base, JobsInv
<1>3. kept \subseteq Allowed /\ rest \subseteq Nat
  BY <1>1, Fields
<1> HIDE DEF kept, rest
<1>4. /\ doc \in JobDoc /\ doc.call = job[p].call /\ doc.request = job[p].request
      /\ doc.todo = rest /\ doc.fit = kept /\ doc.task = job[p].task
  BY <1>1, <1>3 DEF JobDoc
<1> HIDE DEF doc
<1>5. job[p].call = "route" /\ job[p].task = 0
  BY <1>1, Calls DEF JobFine, Dispatching
<1>6. Moved(p) /\ pc'[p] = "candidates" /\ job'[p] = doc
  BY <1>1, <1>2, <1>4, StepMoves DEF Steps, Dispatching, Routing
<1>7. JobFine(p)'
  BY <1>4, <1>5, <1>6, Calls DEF JobFine, Dispatching
<1>8. Base' /\ Grows
  BY <1>1, <1>6, <1>7, QuietStepKept DEF Base
<1> QED
  BY <1>1, <1>4, <1>5, <1>6, <1>8 DEF kept, rest

LEMMA FilterEndsKept ==
    ASSUME Base, NEW p \in Procs, FilterEnds(p)
    PROVE  /\ Base' /\ Grows /\ Moved(p) /\ pc[p] = "candidates" /\ pc'[p] = "select"
           /\ UNCHANGED <<files>> /\ job'[p] = job[p] /\ job[p].todo = {}
<1>1. /\ job[p] \in JobDoc /\ JobFine(p) /\ pc[p] = "candidates" /\ job[p].todo = {}
      /\ pc' = [pc EXCEPT ![p] = "select"] /\ UNCHANGED <<files, commands, kills>>
      /\ UNCHANGED job
  BY Mine DEF FilterEnds, Goto
<1>2. Moved(p) /\ pc'[p] = "select" /\ job'[p] = job[p]
  BY <1>1, GoingMoves DEF Steps, Dispatching, Routing
<1>3. JobFine(p)'
  BY <1>1, <1>2, Calls DEF JobFine, Dispatching
<1> QED
  BY <1>1, <1>2, <1>3, QuietStepKept DEF Base

\* The owner is one of the candidates, and the preferred one.
LEMMA SelectOwnerKept ==
    ASSUME Base, NEW p \in Procs, SelectOwner(p)
    PROVE  /\ Base' /\ Grows /\ Moved(p) /\ pc[p] = "select" /\ pc'[p] = "create"
           /\ UNCHANGED <<files>>
           /\ job'[p].call = job[p].call /\ job'[p].fit = job[p].fit
           /\ job'[p].request = job[p].request
           /\ job'[p].agent \in job[p].fit
           /\ Preferred(job'[p].fit, job'[p].score, job'[p].agent)
<1>1. /\ job[p] \in JobDoc /\ JobFine(p) /\ pc[p] = "select" /\ job[p].fit # {}
      /\ pc' = [pc EXCEPT ![p] = "create"] /\ UNCHANGED <<files, commands, kills>>
  BY Mine DEF SelectOwner, Goto
<1>2. PICK score \in [job[p].fit -> Scores \cup {Unscored}] :
        job' = [job EXCEPT ![p].score = score, ![p].agent = Select(job[p].fit, score)]
  BY DEF SelectOwner
<1>3. PICK fit \in SUBSET Allowed : fit = job[p].fit
  BY <1>1, Fields
<1>4. fit \in SUBSET Agents /\ fit # {} /\ score \in Scoring(fit)
  BY <1>1, <1>2, <1>3, Constants, TargetsAssumption DEF Scoring
<1>5. PICK a \in fit : a = Select(fit, score) /\ Preferred(fit, score, a)
  BY <1>4, SelectPrefers
<1> DEFINE doc == [job[p] EXCEPT !.score = score, !.agent = a]
<1>6. score \in {<<>>} \cup UNION {[S -> Scores \cup {Unscored}] : S \in SUBSET Allowed}
  BY <1>2, <1>3
<1>7. /\ doc \in JobDoc /\ doc.call = job[p].call /\ doc.request = job[p].request
      /\ doc.fit = fit /\ doc.score = score /\ doc.agent = a /\ doc.task = job[p].task
  <2> DEFINE Scorings == {<<>>} \cup UNION {[S -> Scores \cup {Unscored}] : S \in SUBSET Allowed}
  <2>1. a \in Agents \cup {0} /\ score \in Scorings
    BY <1>4, <1>5, <1>6
  <2> HIDE DEF Scorings
  <2>2. JobDoc = [call    : {"none", "route", "add", "enable", "disable"},
                  request : Requests \cup {NoRequest}, todo : SUBSET Nat,
                  fit     : SUBSET Allowed, score : Scorings, agent : Agents \cup {0},
                  target  : Targets, task : Tasks \cup {0},
                  result  : {"none", "pending", "failed", "dispatched"}]
    BY DEF JobDoc, Scorings
  <2> QED
    BY <1>1, <1>3, <2>1, <2>2
<1>8. job' = [job EXCEPT ![p] = doc]
  BY <1>2, <1>3, <1>5 DEF Base, JobsInv
<1> HIDE DEF doc
<1>9. Moved(p) /\ pc'[p] = "create" /\ job'[p] = doc
  BY <1>1, <1>7, <1>8, StepMoves DEF Steps, Dispatching, Routing
<1>10. JobFine(p)'
  <2>1. job[p].call = "route" /\ job[p].task = 0 /\ a \in Allowed
    BY <1>1, <1>3, <1>5, Calls DEF JobFine, Dispatching
  <2> QED
    BY <1>7, <1>9, <2>1, Calls DEF JobFine, Dispatching
<1>11. Base' /\ Grows
  BY <1>1, <1>9, <1>10, QuietStepKept DEF Base
<1> QED
  BY <1>1, <1>3, <1>5, <1>7, <1>9, <1>11

LEMMA OverrideOwnerKept ==
    ASSUME Base, NEW p \in Procs, OverrideOwner(p)
    PROVE  /\ Base' /\ Grows /\ Moved(p) /\ pc[p] = "select" /\ pc'[p] = "create"
           /\ UNCHANGED <<files>>
           /\ job'[p].call = job[p].call /\ job'[p].fit = job[p].fit
           /\ job'[p].request = job[p].request /\ job'[p].request.override # 0
           /\ job'[p].agent \in Allowed /\ ~BlocksRouting(Bound[job'[p].agent])
<1> DEFINE a == job[p].request.override
           doc == [job[p] EXCEPT !.agent = a]
<1>1. /\ job[p] \in JobDoc /\ JobFine(p) /\ pc[p] = "select"
      /\ pc' = [pc EXCEPT ![p] = "create"] /\ UNCHANGED <<files, commands, kills>>
      /\ a # 0 /\ a \in Allowed /\ ~BlocksRouting(Bound[a])
      /\ job' = [job EXCEPT ![p] = doc]
  BY Mine DEF OverrideOwner, OverrideFits, Goto, Base, JobsInv
<1>2. /\ doc \in JobDoc /\ doc.call = job[p].call /\ doc.request = job[p].request
      /\ doc.fit = job[p].fit /\ doc.agent = a /\ doc.task = job[p].task
  BY <1>1, Constants DEF JobDoc
<1> HIDE DEF doc
<1>3. Moved(p) /\ pc'[p] = "create" /\ job'[p] = doc
  BY <1>1, <1>2, StepMoves DEF Steps, Dispatching, Routing
<1>4. JobFine(p)'
  <2>1. job[p].call = "route" /\ job[p].task = 0
    BY <1>1, Calls DEF JobFine, Dispatching
  <2> QED
    BY <1>1, <1>2, <1>3, <2>1, Calls DEF JobFine, Dispatching
<1>5. Base' /\ Grows
  BY <1>1, <1>3, <1>4, QuietStepKept DEF Base
<1> QED
  BY <1>1, <1>2, <1>3, <1>5

\* A new task: its owner's target has a pane, or the process goes on to
\* dispatch it there.
LEMMA CreateTaskKept ==
    ASSUME Base, NEW p \in Procs, CreateTask(p)
    PROVE  /\ Base' /\ Grows /\ Moved(p) /\ pc[p] = "create"
           /\ job[p].call \in {"route", "add"} /\ job[p].task = 0
           /\ record' = record /\ unread \subseteq unread'
           /\ \E t \in Tasks \ Created :
                /\ Created' = Created \cup {t}
                /\ \/ Bound[owner'[t]] \in PaneBacked /\ job'[p] = NoJob
                   \/ job'[p].task = t
           /\ pc'[p] \in Dispatching \cup {"idle"}
           /\ job'[p].call # "enable"
<1>1. /\ job[p] \in JobDoc /\ JobFine(p) /\ pc[p] = "create"
      /\ UNCHANGED <<availability, heartbeat, explained, record, commands, kills>>
  BY Mine DEF CreateTask
<1>2. /\ job[p].call \in {"route", "add"} /\ job[p].task = 0 /\ job[p].agent \in Allowed
  BY <1>1, Calls DEF JobFine, Dispatching
<1>3. PICK a \in Agents : a = job[p].agent
  BY <1>2, Constants
<1>4. PICK target \in Targets : target = Bound[a]
  BY Constants
<1>5. PICK t \in Tasks \ Created :
        /\ owner' = [owner EXCEPT ![t] = a]
        /\ unread' = unread \cup {t}
        /\ IF target \in PaneBacked
           THEN Return(p)
           ELSE /\ pc' = [pc EXCEPT ![p] = IF target \in Commanded THEN "command" ELSE "record"]
                /\ job' = [job EXCEPT ![p] = [NoJob EXCEPT !.call = job[p].call, !.target = target,
                                             !.task = t, !.result = "pending"]]
  BY <1>3, <1>4 DEF CreateTask, HasPane
<1>6. /\ owner' \in [Tasks -> Agents \cup {0}] /\ owner'[t] = a
      /\ \A m \in Tasks \ {t} : owner'[m] = owner[m]
  BY <1>5 DEF Base, FilesTyped
<1>7. Created' = Created \cup {t}
  BY <1>5, <1>6, Constants DEF Created
<1>8. Grows
  BY <1>1, <1>6, <1>7 DEF Grows, Created
<1>9. FilesTyped'
  BY <1>1, <1>5, <1>6, <1>7 DEF Base, FilesTyped
<1>10. ASSUME NEW m \in Tasks PROVE RecordFine(m)'
  <2>1. record[m] # "none" => m \in Created /\ Bound[owner[m]] \notin PaneBacked
    BY DEF Base, JobsInv, RecordFine
  <2> QED
    BY <1>1, <1>7, <1>8, <2>1 DEF RecordFine, Grows
<1>11. CASE target \in PaneBacked
  <2>1. Moved(p) /\ pc'[p] = "idle" /\ job'[p] = NoJob
    BY <1>5, <1>11, ReturnMoves
  <2>2. Base'
    BY <1>1, <1>8, <1>9, <1>10, <2>1, IdleFine, BaseKept DEF Base
  <2> QED
    BY <1>1, <1>2, <1>4, <1>5, <1>6, <1>7, <1>8, <1>11, <2>1, <2>2, NoJobTyped
<1>12. CASE target \notin PaneBacked
  <2>1. PICK to \in {"command", "record"} : to = IF target \in Commanded THEN "command" ELSE "record"
    OBVIOUS
  <2>2. PICK call \in {"route", "add"} : call = job[p].call
    BY <1>2
  <2> DEFINE doc == [NoJob EXCEPT !.call = call, !.target = target, !.task = t,
                                  !.result = "pending"]
  <2>3. /\ doc \in JobDoc /\ doc.call = call /\ doc.target = target /\ doc.task = t
        /\ doc.result = "pending"
    BY NoJobTyped DEF JobDoc
  <2>4. pc' = [pc EXCEPT ![p] = to] /\ job' = [job EXCEPT ![p] = doc]
    BY <1>5, <1>12, <2>1, <2>2
  <2> HIDE DEF doc
  <2>5. to \in Steps /\ to \in Dispatching
    BY <2>1 DEF Steps, Dispatching
  <2>6. Moved(p) /\ pc'[p] = to /\ job'[p] = doc
    BY <2>3, <2>4, <2>5, StepMoves
  <2>7. BoundTo(t, target)'
    BY <1>4, <1>5, <1>6, <1>7 DEF BoundTo
  <2>8. JobFine(p)'
    BY <1>12, <2>1, <2>2, <2>3, <2>5, <2>6, <2>7, Calls, Constants DEF JobFine
  <2>9. Base'
    BY <1>1, <1>8, <1>9, <1>10, <2>6, <2>8, BaseKept DEF Base
  <2> QED
    BY <1>1, <1>2, <1>5, <1>7, <1>8, <2>2, <2>3, <2>5, <2>6, <2>9
<1> QED
  BY <1>11, <1>12

-----------------------------------------------------------------------------
(***************************************************************************)
(* The steps of a process, and those of its surroundings.                  *)
(***************************************************************************)
ProcessStep(p) ==
    \/ \E t \in Targets : DisableTarget(p, t)
    \/ DisableReports(p)
    \/ Enable(p) \/ Route(p) \/ Dispatch(p) \/ Kill(p)

Surroundings ==
    \/ \E t \in Targets : HeartbeatExpires(t)
    \/ \E t \in Targets, a \in Availabilities : TargetHeartbeat(t, a)
    \/ \E t \in Tasks : Read(t) \/ Requeue(t)

\* Of the dispatch p is at: it goes on, or leaves a record.
Settles(p) ==
    \/ pc[p] \notin Dispatching
    \/ job'[p].task = job[p].task
    \/ record'[job[p].task] # "none"
    \/ kills' # 0

\* A new task needs no dispatch, or p has it in hand.
Places(p) == \A t \in Created' \ Created : Bound[owner'[t]] \in PaneBacked \/ job'[p].task = t

\* What p takes in hand is not dispatched yet, and it writes no other record.
Takes(p) ==
    /\ \/ job'[p].task \in {0, job[p].task}
       \/ job'[p].task \notin Created
       \/ record[job'[p].task] # "dispatched"
    /\ \A t \in Tasks \ {job[p].task} : record'[t] = record[t]

\* How an enable and a route that looks for an owner return.
Returns(p) ==
    pc'[p] = "idle" /\ kills' = kills =>
        /\ job[p].call = "enable" => EnableReturns(p)
        /\ pc[p] = "select" => RejectRoute(p)

Consequences(p) ==
    /\ Base' /\ Grows /\ Moved(p)
    /\ kills <= kills'
    /\ Settles(p) /\ Places(p) /\ Takes(p) /\ Returns(p)

LEMMA SurroundingsStep ==
    ASSUME Base, Surroundings
    PROVE  Base' /\ Grows /\ UNCHANGED <<owner, record, pc, job, kills>>
BY HeartbeatsKept, InboxesKept DEF Surroundings, Read, Requeue

\* A step that adds no task and writes no record.
LEMMA PlainConsequences ==
    ASSUME Base, NEW p \in Procs, Base', Grows, Moved(p), kills' = kills,
           owner' = owner, record' = record,
           pc[p] \notin Dispatching \/ job'[p].task = job[p].task,
           \/ job'[p].task \in {0, job[p].task}
           \/ record[job'[p].task] # "dispatched",
           Returns(p)
    PROVE  Consequences(p)
<1>1. Created' = Created /\ kills \in Nat
  BY TargetsAssumption DEF Created, Base
<1> QED
  BY <1>1 DEF Consequences, Settles, Places, Takes

\* Who is not at a dispatch nor in an enable has no task in hand.
LEMMA EmptyHanded ==
    ASSUME Base, NEW p \in Procs, pc[p] \notin Dispatching, job[p].call # "enable"
    PROVE  job[p].task = 0
BY Mine DEF JobFine

LEMMA EmptyHandedNext ==
    ASSUME Base', NEW p \in Procs, pc'[p] \notin Dispatching, job'[p].call # "enable"
    PROVE  job'[p].task = 0
BY DEF Base, JobsInv, JobFine

\* The call of a process fits its place.
LEMMA CallFits ==
    ASSUME Base, NEW p \in Procs
    PROVE  /\ pc[p] = "idle" <=> job[p].call = "none"
           /\ pc[p] \in Routing => job[p].call = "route"
           /\ pc[p] = "create" => job[p].call \in {"route", "add"}
           /\ pc[p] = "disabled" => job[p].call = "disable"
           /\ pc[p] \in {"enabled", "inbox", "entry"} => job[p].call = "enable"
<1>1. job[p].call \in CallsOf(pc[p]) /\ pc[p] \in Steps
  BY Mine DEF JobFine
<1> QED
  BY <1>1, Calls DEF Steps, Routing, Dispatching

LEMMA IdleCalls ==
    ASSUME Base', NEW p \in Procs, pc'[p] = "idle"
    PROVE  job'[p].call = "none"
BY Calls DEF Base, JobsInv, JobFine

LEMMA EnableConsequences ==
    ASSUME Base, NEW p \in Procs, Enable(p)
    PROVE  Consequences(p)
<1>1. ASSUME NEW t \in Targets, EnableTarget(p, t) PROVE Consequences(p)
  <2>1. /\ Base' /\ Grows /\ Moved(p) /\ pc[p] = "idle" /\ pc'[p] = "enabled"
        /\ job'[p].task = 0 /\ job[p].call # "enable"
    BY <1>1, EnableKept, CallFits
  <2>2. owner' = owner /\ record' = record /\ kills' = kills /\ pc[p] \notin Dispatching
    BY <1>1, <2>1 DEF EnableTarget, Begin, Dispatching
  <2> QED
    BY <2>1, <2>2, PlainConsequences DEF Returns
<1>2. CASE EnableReports(p)
  <2>1. Base' /\ Grows /\ Moved(p) /\ pc'[p] = "inbox" /\ job'[p] = job[p]
    BY <1>2, EnableReportsKept
  <2>2. owner' = owner /\ record' = record /\ kills' = kills
    BY <1>2 DEF EnableReports
  <2> QED
    BY <2>1, <2>2, PlainConsequences DEF Returns
<1>3. CASE ListInbox(p)
  <2>1. Base' /\ Grows /\ Moved(p) /\ pc'[p] = "entry" /\ job'[p].task = job[p].task
    BY <1>3, ListInboxKept
  <2>2. owner' = owner /\ record' = record /\ kills' = kills
    BY <1>3 DEF ListInbox, files
  <2> QED
    BY <2>1, <2>2, PlainConsequences DEF Returns
<1>4. CASE InboxDone(p)
  <2>1. Base' /\ Grows /\ Moved(p) /\ pc'[p] = "inbox" /\ job'[p] = job[p]
    BY <1>4, InboxDoneKept
  <2>2. owner' = owner /\ record' = record /\ kills' = kills
    BY <1>4 DEF InboxDone, files
  <2> QED
    BY <2>1, <2>2, PlainConsequences DEF Returns
<1>5. CASE EnableReturns(p)
  <2>1. /\ Return(p) /\ UNCHANGED <<files, commands>> /\ kills' = kills
        /\ owner' = owner /\ record' = record /\ pc[p] = "inbox"
    BY <1>5 DEF EnableReturns, files
  <2>2. Base' /\ Grows /\ Moved(p) /\ job'[p].task = 0
    BY <2>1, ReturnKept, NoJobTyped DEF Base
  <2> QED
    BY <1>5, <2>1, <2>2, PlainConsequences DEF Returns, Dispatching
<1>6. ASSUME NEW t \in Tasks, PendingEntry(p, t) PROVE Consequences(p)
  <2>1. /\ Base' /\ Grows /\ Moved(p) /\ pc[p] = "entry"
        /\ pc'[p] \in {"entry", "command", "record"}
        /\ record[t] = "dispatched" => job'[p].task = job[p].task
        /\ record[t] # "dispatched" => job'[p].task = t
    BY <1>6, PendingEntryKept
  <2>2. owner' = owner /\ record' = record /\ kills' = kills
    BY <1>6 DEF PendingEntry, files
  <2> QED
    BY <2>1, <2>2, PlainConsequences DEF Returns, Dispatching
<1> QED
  BY <1>1, <1>2, <1>3, <1>4, <1>5, <1>6 DEF Enable

LEMMA RouteConsequences ==
    ASSUME Base, NEW p \in Procs, Route(p)
    PROVE  Consequences(p)
<1>1. ASSUME NEW r \in Requests, RouteChildTask(p, r) PROVE Consequences(p)
  <2>1. /\ Base' /\ Grows /\ Moved(p) /\ pc[p] = "idle" /\ pc'[p] = "candidates"
        /\ job'[p].call = "route"
    BY <1>1, RouteChildTaskKept
  <2>2. job'[p].task = 0 /\ pc[p] \notin Dispatching
    BY <2>1, EmptyHandedNext DEF Dispatching
  <2>3. owner' = owner /\ record' = record /\ kills' = kills
    BY <1>1 DEF RouteChildTask, Begin, files
  <2> QED
    BY <2>1, <2>2, <2>3, PlainConsequences DEF Returns
<1>2. ASSUME NEW a \in Allowed, AddChildTask(p, a) PROVE Consequences(p)
  <2>1. /\ Base' /\ Grows /\ Moved(p) /\ pc[p] = "idle" /\ pc'[p] = "create"
        /\ job'[p].call = "add"
    BY <1>2, AddChildTaskKept DEF AddChildTask, Begin, Goto, Base
  <2>2. job'[p].task = 0 /\ pc[p] \notin Dispatching
    BY <2>1, EmptyHandedNext DEF Dispatching
  <2>3. owner' = owner /\ record' = record /\ kills' = kills
    BY <1>2 DEF AddChildTask, Begin, files
  <2> QED
    BY <2>1, <2>2, <2>3, PlainConsequences DEF Returns
<1>3. ASSUME NEW a \in Allowed, Filter(p, a) PROVE Consequences(p)
  <2>1. /\ Base' /\ Grows /\ Moved(p) /\ pc[p] = "candidates" /\ pc'[p] = "candidates"
        /\ job'[p].task = 0
    BY <1>3, FilterKept
  <2>2. owner' = owner /\ record' = record /\ kills' = kills
    BY <1>3 DEF Filter, files
  <2> QED
    BY <2>1, <2>2, PlainConsequences DEF Returns, Dispatching
<1>4. CASE FilterEnds(p)
  <2>1. Base' /\ Grows /\ Moved(p) /\ pc'[p] = "select" /\ job'[p] = job[p]
    BY <1>4, FilterEndsKept
  <2>2. owner' = owner /\ record' = record /\ kills' = kills
    BY <1>4 DEF FilterEnds, files
  <2> QED
    BY <2>1, <2>2, PlainConsequences DEF Returns
<1>5. CASE SelectOwner(p) \/ OverrideOwner(p)
  <2>1. /\ Base' /\ Grows /\ Moved(p) /\ pc[p] = "select" /\ pc'[p] = "create"
        /\ job'[p].call = job[p].call
    BY <1>5, SelectOwnerKept, OverrideOwnerKept
  <2>2. job'[p].call = "route"
    BY <2>1, CallFits DEF Routing
  <2>3. job'[p].task = 0 /\ pc[p] \notin Dispatching
    BY <2>1, <2>2, EmptyHandedNext DEF Dispatching
  <2>4. owner' = owner /\ record' = record /\ kills' = kills
    BY <1>5 DEF SelectOwner, OverrideOwner, files
  <2> QED
    BY <2>1, <2>3, <2>4, PlainConsequences DEF Returns
<1>6. CASE RejectRoute(p) \/ CreateTaskFails(p)
  <2>1. /\ Return(p) /\ UNCHANGED <<files, commands>> /\ kills' = kills
        /\ owner' = owner /\ record' = record /\ pc[p] \in {"select", "create"}
        /\ pc[p] = "select" => RejectRoute(p)
    BY <1>6 DEF RejectRoute, CreateTaskFails, files
  <2>2. Base' /\ Grows /\ Moved(p) /\ job'[p].task = 0
    BY <2>1, ReturnKept, NoJobTyped DEF Base
  <2>3. job[p].call # "enable" /\ pc[p] \notin Dispatching
    BY <2>1, CallFits DEF Routing, Dispatching
  <2> QED
    BY <2>1, <2>2, <2>3, PlainConsequences DEF Returns
<1>7. CASE CreateTask(p)
  <2>1. /\ Base' /\ Grows /\ Moved(p) /\ pc[p] = "create" /\ record' = record
        /\ job[p].call \in {"route", "add"}
    BY <1>7, CreateTaskKept
  <2>2. PICK t \in Tasks \ Created :
          /\ Created' = Created \cup {t}
          /\ \/ Bound[owner'[t]] \in PaneBacked /\ job'[p] = NoJob
             \/ job'[p].task = t
    BY <1>7, CreateTaskKept
  <2>3. kills' = kills /\ kills <= kills'
    BY <1>7, TargetsAssumption DEF CreateTask, Base
  <2> QED
    BY <2>1, <2>2, <2>3, NoJobTyped
       DEF Consequences, Settles, Places, Takes, Returns, Dispatching
<1> QED
  BY <1>1, <1>2, <1>3, <1>4, <1>5, <1>6, <1>7 DEF Route

LEMMA DispatchConsequences ==
    ASSUME Base, NEW p \in Procs, Dispatch(p)
    PROVE  Consequences(p)
<1>1. ASSUME NEW ok \in BOOLEAN, RunCommand(p, ok) PROVE Consequences(p)
  <2>1. Base' /\ Grows /\ Moved(p) /\ pc'[p] = "record" /\ job'[p].task = job[p].task
    BY <1>1, RunCommandKept
  <2>2. owner' = owner /\ record' = record /\ kills' = kills
    BY <1>1 DEF RunCommand, files
  <2> QED
    BY <2>1, <2>2, PlainConsequences DEF Returns
<1>2. CASE WriteRecord(p)
  <2>1. /\ Base' /\ Grows /\ Moved(p) /\ pc[p] = "record" /\ record'[job[p].task] # "none"
        /\ \A t \in Tasks \ {job[p].task} : record'[t] = record[t]
        /\ job'[p].call = "enable" <=> job[p].call = "enable"
        /\ job'[p].task \in {0, job[p].task}
    BY <1>2, WriteRecordKept
  <2>2. owner' = owner /\ kills' = kills /\ kills <= kills'
    BY <1>2, TargetsAssumption DEF WriteRecord, Base
  <2>3. Created' = Created
    BY <2>2 DEF Created
  <2>4. job[p].call = "enable" => pc'[p] # "idle"
    BY <2>1, IdleCalls
  <2> QED
    BY <2>1, <2>2, <2>3, <2>4 DEF Consequences, Settles, Places, Takes, Returns
<1>3. CASE WriteOutcome(p)
  <2>1. /\ Base' /\ Grows /\ Moved(p) /\ pc[p] = "state"
        /\ UNCHANGED <<owner, unread, record>> /\ record[job[p].task] # "none"
        /\ job'[p].call = "enable" <=> job[p].call = "enable"
        /\ job'[p].task = 0
    BY <1>3, WriteOutcomeKept
  <2>2. kills' = kills /\ kills <= kills'
    BY <1>3, TargetsAssumption DEF WriteOutcome, Base
  <2>3. Created' = Created
    BY <2>1 DEF Created
  <2>4. job[p].call = "enable" => pc'[p] # "idle"
    BY <2>1, IdleCalls
  <2> QED
    BY <2>1, <2>2, <2>3, <2>4 DEF Consequences, Settles, Places, Takes, Returns
<1> QED
  BY <1>1, <1>2, <1>3 DEF Dispatch

LEMMA ProcessConsequences ==
    ASSUME Base, NEW p \in Procs, ProcessStep(p)
    PROVE  Consequences(p)
<1>1. ASSUME NEW t \in Targets, DisableTarget(p, t) PROVE Consequences(p)
  <2>1. Base' /\ Grows /\ Moved(p) /\ job'[p].call = "disable" /\ pc'[p] = "disabled"
    BY <1>1, DisableKept DEF DisableTarget, Begin, Goto, Base
  <2>2. job'[p].task = 0
    BY <2>1, EmptyHandedNext DEF Dispatching
  <2>3. owner' = owner /\ record' = record /\ kills' = kills /\ pc[p] \notin Dispatching
    BY <1>1 DEF DisableTarget, Begin, Goto, Dispatching
  <2> QED
    BY <2>1, <2>2, <2>3, PlainConsequences DEF Returns
<1>2. CASE DisableReports(p)
  <2>1. Base' /\ Grows /\ Moved(p) /\ job'[p].task = 0
    BY <1>2, DisableReportsKept, NoJobTyped
  <2>2. owner' = owner /\ record' = record /\ kills' = kills /\ pc[p] = "disabled"
    BY <1>2 DEF DisableReports
  <2>3. job[p].call # "enable"
    BY <2>2, CallFits
  <2> QED
    BY <2>1, <2>2, <2>3, PlainConsequences DEF Returns, Dispatching
<1>3. CASE Kill(p)
  <2>1. /\ Return(p) /\ UNCHANGED <<files, commands>> /\ kills' = kills + 1
        /\ kills < MaxKills /\ owner' = owner /\ record' = record
    BY <1>3 DEF Kill, files
  <2>2. kills' \in 0..MaxKills /\ kills <= kills' /\ kills' # 0 /\ kills' # kills
    BY <2>1, TargetsAssumption DEF Base
  <2>3. Base' /\ Grows /\ Moved(p) /\ job'[p].task = 0
    BY <2>1, <2>2, ReturnKept, NoJobTyped
  <2>4. Created' = Created
    BY <2>1 DEF Created
  <2> QED
    BY <2>1, <2>2, <2>3, <2>4 DEF Consequences, Settles, Places, Takes, Returns
<1> QED
  BY <1>1, <1>2, <1>3, EnableConsequences, RouteConsequences, DispatchConsequences
     DEF ProcessStep

\* Every step is one of a process or of its surroundings.
LEMMA StepActors == Step <=> Surroundings \/ \E p \in Procs : ProcessStep(p)
BY DEF Step, Surroundings, ProcessStep

-----------------------------------------------------------------------------
(***************************************************************************)
(* PlacedIsRecorded and DispatchIsFinal.                                   *)
(***************************************************************************)
\* At no place but a dispatch has a process a task of a target without a pane.
LEMMA HeldElsewhere ==
    ASSUME Base, NEW p \in Procs, pc[p] \notin Dispatching, job[p].task # 0
    PROVE  BoundTo(job[p].task, job[p].target) /\ job[p].target \in PaneBacked
BY Mine DEF JobFine

LEMMA PlacedKept ==
    ASSUME Base, PlacedIsRecorded, NEW p \in Procs, Consequences(p)
    PROVE  PlacedIsRecorded'
<1> SUFFICES ASSUME kills' = 0, NEW t \in Created'
             PROVE  \/ Bound[owner'[t]] \in PaneBacked
                    \/ record'[t] # "none"
                    \/ \E q \in Procs : job'[q].task = t
  BY DEF PlacedIsRecorded
<1>1. kills = 0
  BY TargetsAssumption DEF Consequences, Base
<1>2. CASE t \notin Created
  BY <1>2 DEF Consequences, Places
<1>3. CASE t \in Created
  <2>1. owner'[t] = owner[t] /\ t \in Tasks /\ t # 0
    BY <1>3, Constants DEF Consequences, Grows, Created
  <2>2. CASE Bound[owner[t]] \in PaneBacked \/ record[t] # "none"
    BY <2>1, <2>2 DEF Consequences, Grows
  <2>3. ASSUME NEW q \in Procs, job[q].task = t
        PROVE  \/ Bound[owner'[t]] \in PaneBacked
               \/ record'[t] # "none"
               \/ \E r \in Procs : job'[r].task = t
    <3>1. CASE q # p
      BY <2>3, <3>1 DEF Consequences, Moved, Others
    <3>2. CASE q = p /\ pc[p] \in Dispatching
      BY <2>1, <2>3, <3>2 DEF Consequences, Settles
    <3>3. CASE q = p /\ pc[p] \notin Dispatching
      BY <2>1, <2>3, <3>3, HeldElsewhere DEF BoundTo
    <3> QED
      BY <3>1, <3>2, <3>3
  <2> QED
    BY <1>1, <1>3, <2>2, <2>3 DEF PlacedIsRecorded
<1> QED
  BY <1>2, <1>3

LEMMA FinalKept ==
    ASSUME Base, NEW p \in Procs, Consequences(p),
           NEW t \in Tasks, record[t] = "dispatched", \A q \in Procs : job[q].task # t
    PROVE  record'[t] = "dispatched" /\ \A q \in Procs : job'[q].task # t
<1>1. t \in Created /\ t # 0
  BY Constants DEF Base, JobsInv, RecordFine
<1>2. record'[t] = "dispatched"
  BY DEF Consequences, Takes
<1>3. ASSUME NEW q \in Procs PROVE job'[q].task # t
  <2>1. CASE q = p
    BY <1>1, <2>1 DEF Consequences, Takes
  <2>2. CASE q # p
    BY <2>2 DEF Consequences, Moved, Others
  <2> QED
    BY <2>1, <2>2
<1> QED
  BY <1>2, <1>3

-----------------------------------------------------------------------------
(***************************************************************************)
(* What a route has learnt.                                                *)
(***************************************************************************)
\* What the history says after a step of a process that was at a route.
LEMMA Remembered ==
    ASSUME Remember, NEW p \in Procs
    PROVE  /\ shut'[p] \subseteq Blocked'
           /\ Routes(p)' => Blocked' \subseteq troubled'[p]
           /\ Routes(p)' /\ pc[p] # "idle" =>
                shut'[p] \subseteq shut[p] /\ troubled[p] \subseteq troubled'[p]
BY DEF Remember, Routes

\* Whatever the others and the targets do, what a route has learnt stays true.
LEMMA RouteAside ==
    ASSUME RoutesInv, Remember, NEW p \in Procs, pc'[p] = pc[p], job'[p] = job[p]
    PROVE  Routes(p)' => RouteFine(p)'
<1> SUFFICES ASSUME Routes(p)' PROVE RouteFine(p)'
  OBVIOUS
<1>1. Routes(p) /\ RouteFine(p) /\ pc[p] # "idle"
  BY DEF RoutesInv, Routes, Choosing
<1>2. /\ Blocked' \subseteq troubled'[p]
      /\ shut'[p] \subseteq shut[p] /\ troubled[p] \subseteq troubled'[p]
  BY <1>1, Remembered
<1> QED
  BY <1>1, <1>2 DEF RouteFine

LEMMA RouteMoves ==
    ASSUME Base, RoutesInv, Remember, NEW p \in Procs, Route(p)
    PROVE  Routes(p)' => RouteFine(p)'
<1> SUFFICES ASSUME Routes(p)' PROVE RouteFine(p)'
  OBVIOUS
<1>1. Blocked' \subseteq troubled'[p]
  BY Remembered
<1>2. ASSUME pc[p] # "idle", job'[p].call = job[p].call, pc[p] \in Routing
      PROVE  /\ RouteFine(p) /\ shut[p] \subseteq Blocked
             /\ shut'[p] \subseteq shut[p] /\ troubled[p] \subseteq troubled'[p]
  BY <1>2, Remembered DEF RoutesInv, Routes, Choosing, Routing
<1>3. ASSUME NEW r \in Requests, RouteChildTask(p, r) PROVE RouteFine(p)'
  <2>1. /\ pc'[p] = "candidates" /\ job'[p].request = r /\ job'[p].fit = {}
        /\ job'[p].todo = DomainCandidates(r.class, r.domains)
    BY <1>3, RouteChildTaskKept
  <2> QED
    BY <1>1, <2>1 DEF RouteFine
<1>4. ASSUME NEW a \in Allowed, AddChildTask(p, a) PROVE FALSE
  BY <1>4, AddChildTaskKept DEF Routes
<1>5. ASSUME NEW a \in Allowed, Filter(p, a) PROVE RouteFine(p)'
  <2>1. /\ pc[p] = "candidates" /\ pc'[p] = "candidates"
        /\ job'[p].call = job[p].call /\ job'[p].request = job[p].request
        /\ job'[p].todo = job[p].todo \ {a}
        /\ BlocksRouting(Bound[a]) => job'[p].fit = job[p].fit
        /\ ~BlocksRouting(Bound[a]) => job'[p].fit = job[p].fit \cup {a}
    BY <1>5, FilterKept
  <2>2. /\ RouteFine(p) /\ shut[p] \subseteq Blocked
        /\ shut'[p] \subseteq shut[p] /\ troubled[p] \subseteq troubled'[p]
    BY <1>2, <2>1 DEF Routing
  <2>3. BlocksRouting(Bound[a]) <=> Bound[a] \in Blocked
    BY Constants DEF Blocked
  <2>4. \A b \in job'[p].fit : Bound[b] \notin shut'[p]
    BY <2>1, <2>2, <2>3 DEF RouteFine
  <2>5. \A b \in DomainCandidates(job[p].request.class, job[p].request.domains) :
          b \in job'[p].todo \/ b \in job'[p].fit \/ Bound[b] \in troubled'[p]
    BY <2>1, <2>2, <2>3 DEF RouteFine, Routing
  <2> QED
    BY <1>1, <2>1, <2>4, <2>5 DEF RouteFine
<1>6. CASE FilterEnds(p)
  <2>1. pc[p] = "candidates" /\ pc'[p] = "select" /\ job'[p] = job[p] /\ job[p].todo = {}
    BY <1>6, FilterEndsKept
  <2>2. RouteFine(p) /\ shut'[p] \subseteq shut[p] /\ troubled[p] \subseteq troubled'[p]
    BY <1>2, <2>1 DEF Routing
  <2> QED
    BY <1>1, <2>1, <2>2 DEF RouteFine, Routing
<1>7. CASE SelectOwner(p)
  <2>1. /\ pc[p] = "select" /\ pc'[p] = "create"
        /\ job'[p].call = job[p].call /\ job'[p].fit = job[p].fit
        /\ job'[p].agent \in job[p].fit
        /\ Preferred(job'[p].fit, job'[p].score, job'[p].agent)
    BY <1>7, SelectOwnerKept
  <2>2. RouteFine(p) /\ shut'[p] \subseteq shut[p]
    BY <1>2, <2>1 DEF Routing
  <2> QED
    BY <1>1, <2>1, <2>2 DEF RouteFine, Routing
<1>8. CASE OverrideOwner(p)
  <2>1. /\ pc[p] = "select" /\ pc'[p] = "create"
        /\ job'[p].call = job[p].call /\ job'[p].fit = job[p].fit
        /\ job'[p].request.override # 0
        /\ job'[p].agent \in Allowed /\ ~BlocksRouting(Bound[job'[p].agent])
    BY <1>8, OverrideOwnerKept
  <2>2. RouteFine(p) /\ shut[p] \subseteq Blocked /\ shut'[p] \subseteq shut[p]
    BY <1>2, <2>1 DEF Routing
  <2>3. Bound[job'[p].agent] \notin Blocked
    BY <2>1 DEF Blocked
  <2> QED
    BY <1>1, <2>1, <2>2, <2>3 DEF RouteFine, Routing
<1>9. CASE RejectRoute(p) \/ CreateTaskFails(p)
  <2>1. pc'[p] = "idle"
    BY <1>9, ReturnMoves DEF RejectRoute, CreateTaskFails
  <2> QED
    BY <2>1 DEF Routes, Choosing
<1>10. CASE CreateTask(p)
  <2>1. pc'[p] \in Dispatching \cup {"idle"}
    BY <1>10, CreateTaskKept
  <2> QED
    BY <2>1 DEF Routes, Choosing, Dispatching
<1> QED
  BY <1>3, <1>4, <1>5, <1>6, <1>7, <1>8, <1>9, <1>10 DEF Route

\* A step of another command does not begin to choose.
LEMMA NoRouteMoves ==
    ASSUME Base, NEW p \in Procs, ProcessStep(p), ~Route(p)
    PROVE  ~Routes(p)'
<1>1. ASSUME NEW t \in Targets, DisableTarget(p, t) PROVE ~Routes(p)'
  BY <1>1, DisableKept DEF Routes
<1>2. CASE DisableReports(p) \/ Kill(p)
  <2>1. pc'[p] = "idle"
    BY <1>2, ReturnMoves DEF DisableReports, Kill
  <2> QED
    BY <2>1 DEF Routes, Choosing
<1>3. CASE Enable(p)
  <2>1. pc'[p] \notin Choosing
    BY <1>3, EnableKept, EnableReportsKept, ListInboxKept, InboxDoneKept, ReturnMoves,
       PendingEntryKept DEF Enable, EnableReturns, Choosing
  <2> QED
    BY <2>1 DEF Routes
<1>4. CASE Dispatch(p)
  <2>1. ASSUME NEW ok \in BOOLEAN, RunCommand(p, ok) PROVE ~Routes(p)'
    BY <2>1, RunCommandKept DEF Routes, Choosing
  <2>2. CASE WriteRecord(p) \/ WriteOutcome(p)
    BY <2>2, WriteRecordKept, WriteOutcomeKept DEF Routes, Choosing, Dispatching
  <2> QED
    BY <1>4, <2>1, <2>2 DEF Dispatch
<1> QED
  BY <1>1, <1>2, <1>3, <1>4 DEF ProcessStep

LEMMA RoutesKept ==
    ASSUME Base, RoutesInv, Remember, Step
    PROVE  RoutesInv'
<1>1. ASSUME NEW q \in Procs PROVE Routes(q)' => RouteFine(q)'
  <2>1. CASE Surroundings
    <3>1. UNCHANGED <<pc, job>>
      BY <2>1, SurroundingsStep
    <3> QED
      BY <3>1, RouteAside
  <2>2. ASSUME NEW p \in Procs, ProcessStep(p), p # q PROVE Routes(q)' => RouteFine(q)'
    <3>1. pc'[q] = pc[q] /\ job'[q] = job[q]
      BY <2>2, ProcessConsequences DEF Consequences, Moved, Others
    <3> QED
      BY <3>1, RouteAside
  <2>3. CASE ProcessStep(q)
    BY <2>3, RouteMoves, NoRouteMoves
  <2> QED
    BY <2>1, <2>2, <2>3, StepActors
<1> QED
  BY <1>1, Remembered DEF RoutesInv

-----------------------------------------------------------------------------
(***************************************************************************)
(* What an enable owes.                                                    *)
(***************************************************************************)
\* What is owed after a step was owed before, and is unread and undispatched
\* still.
LEMMA StillOwed ==
    ASSUME Base, Remember, NEW p \in Procs, pc[p] # "idle", NEW m \in owed'[p]
    PROVE  /\ m \in owed[p] /\ m \in unread' /\ record'[m] # "dispatched"
           /\ job'[p].call = "enable" /\ job'[p].target \notin PaneBacked
           /\ ~(pc[p] = "record" /\ job[p].task = m /\ pc'[p] # "record")
BY DEF Remember

LEMMA NothingOwed ==
    ASSUME Remember, NEW p \in Procs, job'[p].call # "enable"
    PROVE  owed'[p] = {}
BY DEF Remember

\* A debt is before an enable until the enable itself moves.
LEMMA OwedAside ==
    ASSUME Base, Base', Grows, OwedInv, Remember, NEW p \in Procs,
           pc'[p] = pc[p], job'[p] = job[p], NEW m \in owed'[p]
    PROVE  OwedFine(p, m)'
<1>1. CASE pc[p] = "idle"
  <2>1. job'[p].call # "enable"
    BY <1>1, CallFits
  <2> QED
    BY <2>1, NothingOwed
<1>2. CASE pc[p] # "idle"
  <2>1. /\ m \in owed[p] /\ m \in unread' /\ record'[m] # "dispatched"
        /\ job'[p].call = "enable" /\ job'[p].target \notin PaneBacked
    BY <1>2, StillOwed
  <2>2. OwedFine(p, m)
    BY <2>1 DEF OwedInv
  <2>3. BoundTo(m, job[p].target)' /\ owner'[m] = owner[m]
    BY <2>2 DEF OwedFine, BoundTo, Grows
  <2> QED
    BY <2>1, <2>2, <2>3 DEF OwedFine, StillAhead
<1> QED
  BY <1>1, <1>2

\* The enable's own steps: it passes no debt by.
LEMMA OwedMoves ==
    ASSUME Base, OwedInv, Remember, NEW p \in Procs, Enable(p) \/ Dispatch(p),
           Consequences(p), NEW m \in owed'[p]
    PROVE  OwedFine(p, m)'
<1>1. ASSUME NEW t \in Targets, EnableTarget(p, t) PROVE OwedFine(p, m)'
  <2>1. /\ pc[p] = "idle" /\ job'[p].call = "enable" /\ job'[p].target = t
        /\ job'[p].agent = 0
    BY <1>1, EnableKept
  <2>2. UNCHANGED <<owner, unread, record>>
    BY <1>1 DEF EnableTarget
  <2>3. t \notin PaneBacked /\ m \in Waiting(t)
    BY <2>1 DEF Remember
  <2>4. m \in unread /\ Bound[owner[m]] = t /\ record[m] # "dispatched"
    BY <2>3 DEF Waiting
  <2>5. m \in Created /\ owner[m] \in Agents /\ owner[m] > 0
    <3>1. m \in Created /\ owner[m] \in Agents
      BY <2>4 DEF Base, FilesTyped, Created
    <3> QED
      <4>1. \A a \in Agents : a \in Nat /\ a > 0
        BY Constants
      <4> QED
        BY <3>1, <4>1
  <2> QED
    BY <2>1, <2>2, <2>3, <2>4, <2>5 DEF OwedFine, StillAhead, BoundTo, Created
<1>2. ASSUME pc[p] # "idle", job'[p].target = job[p].target, StillAhead(p, m) => StillAhead(p, m)'
      PROVE  OwedFine(p, m)'
  <2>1. /\ m \in owed[p] /\ m \in unread' /\ record'[m] # "dispatched"
        /\ job'[p].call = "enable" /\ job'[p].target \notin PaneBacked
    BY <1>2, StillOwed
  <2>2. OwedFine(p, m)
    BY <2>1 DEF OwedInv
  <2>3. BoundTo(m, job[p].target)'
    BY <1>2, <2>2 DEF OwedFine, BoundTo, Consequences, Grows
  <2> QED
    BY <1>2, <2>1, <2>2, <2>3 DEF OwedFine
<1>3. ASSUME pc[p] # "idle"
      PROVE  /\ OwedFine(p, m) /\ job'[p].call = "enable" /\ job'[p].target \notin PaneBacked
             /\ owner'[m] = owner[m] /\ owner[m] \in Agents /\ m \in unread /\ m \in Created
             /\ ~(pc[p] = "record" /\ job[p].task = m /\ pc'[p] # "record")
  <2>1. m \in owed[p] /\ job'[p].call = "enable" /\ job'[p].target \notin PaneBacked
    BY <1>3, StillOwed
  <2>2. OwedFine(p, m)
    BY <2>1 DEF OwedInv
  <2>3. m \in unread /\ m \in Created
    BY <2>2 DEF OwedFine, BoundTo
  <2>4. owner'[m] = owner[m] /\ owner[m] \in Agents
    BY <2>3 DEF Consequences, Grows, Created, Base, FilesTyped
  <2> QED
    BY <1>3, <2>1, <2>2, <2>3, <2>4, StillOwed
<1>4. CASE EnableReports(p)
  <2>1. pc[p] = "enabled" /\ pc'[p] = "inbox" /\ job'[p] = job[p] /\ job[p].todo = {}
    BY <1>4, EnableReportsKept, Mine DEF JobFine
  <2> QED
    BY <1>2, <1>3, <2>1 DEF StillAhead
<1>5. CASE ListInbox(p)
  <2>1. /\ pc[p] = "inbox" /\ pc'[p] = "entry" /\ job'[p].target = job[p].target
        /\ job'[p].agent \in AgentsLeft(p)
        /\ \A b \in AgentsLeft(p) : job'[p].agent <= b
        /\ job'[p].todo = {t \in unread : owner[t] = job'[p].agent}
    BY <1>5, ListInboxKept
  <2>2. /\ OwedFine(p, m) /\ owner'[m] = owner[m] /\ owner[m] \in Agents /\ m \in unread
        /\ job'[p].target \notin PaneBacked
    BY <1>3, <2>1
  <2>3. owner[m] > job[p].agent /\ Bound[owner[m]] = job[p].target
    BY <2>1, <2>2 DEF OwedFine, StillAhead, BoundTo
  <2>4. owner[m] \in AgentsLeft(p)
    BY <2>1, <2>2, <2>3, Constants DEF AgentsLeft
  <2>5. job'[p].agent \in Nat /\ owner[m] \in Nat
    BY <2>1, <2>2, Constants DEF AgentsLeft
  <2>6. owner[m] = job'[p].agent \/ owner[m] > job'[p].agent
    BY <2>1, <2>4, <2>5
  <2>7. StillAhead(p, m)'
    BY <2>1, <2>2, <2>6 DEF StillAhead
  <2> QED
    BY <1>2, <2>1, <2>7
<1>6. CASE InboxDone(p)
  <2>1. pc[p] = "entry" /\ pc'[p] = "inbox" /\ job'[p] = job[p] /\ job[p].todo = {}
    BY <1>6, InboxDoneKept
  <2> QED
    BY <1>2, <1>3, <2>1 DEF StillAhead
<1>7. CASE EnableReturns(p)
  <2>1. pc[p] = "inbox" /\ job'[p].call = "none"
    BY <1>7, ReturnMoves, NoJobTyped DEF EnableReturns
  <2> QED
    BY <1>3, <2>1
<1>8. ASSUME NEW t \in Tasks, PendingEntry(p, t) PROVE OwedFine(p, m)'
  <2>1. /\ pc[p] = "entry" /\ pc'[p] \in {"entry", "command", "record"}
        /\ job'[p].target = job[p].target /\ job'[p].agent = job[p].agent
        /\ job'[p].todo = job[p].todo \ {t}
        /\ record[t] # "dispatched" => job'[p].task = t
        /\ record[t] # "dispatched" /\ job[p].target \notin PaneBacked => pc'[p] # "entry"
    BY <1>8, PendingEntryKept
  <2>2. /\ OwedFine(p, m) /\ owner'[m] = owner[m] /\ job'[p].target \notin PaneBacked
    BY <1>3, <2>1
  <2>3. StillAhead(p, m) /\ record[m] # "dispatched"
    BY <2>2 DEF OwedFine
  <2>4. StillAhead(p, m)'
    BY <2>1, <2>2, <2>3 DEF StillAhead
  <2> QED
    BY <1>2, <2>1, <2>4
<1>9. ASSUME NEW ok \in BOOLEAN, RunCommand(p, ok) PROVE OwedFine(p, m)'
  <2>1. /\ pc[p] = "command" /\ pc'[p] = "record" /\ job'[p].target = job[p].target
        /\ job'[p].agent = job[p].agent /\ job'[p].todo = job[p].todo
        /\ job'[p].task = job[p].task
    BY <1>9, RunCommandKept
  <2> QED
    BY <1>2, <1>3, <2>1 DEF StillAhead
<1>10. CASE WriteRecord(p) \/ WriteOutcome(p)
  <2>1. /\ pc[p] \in {"record", "state"} /\ pc'[p] \in {"state", "entry", "idle"}
        /\ job'[p].call = "enable" => /\ job'[p].agent = job[p].agent
                                      /\ job'[p].todo = job[p].todo
                                      /\ job'[p].target = job[p].target
    BY <1>10, WriteRecordKept, WriteOutcomeKept
  <2>2. /\ OwedFine(p, m) /\ owner'[m] = owner[m] /\ job'[p].call = "enable"
        /\ ~(pc[p] = "record" /\ job[p].task = m /\ pc'[p] # "record")
    BY <1>3, <2>1
  <2>3. StillAhead(p, m)'
    BY <2>1, <2>2 DEF OwedFine, StillAhead
  <2> QED
    BY <1>2, <2>1, <2>2, <2>3
<1> QED
  BY <1>1, <1>4, <1>5, <1>6, <1>7, <1>8, <1>9, <1>10 DEF Enable, Dispatch

LEMMA RouteNeverEnables ==
    ASSUME Base, NEW p \in Procs, Route(p)
    PROVE  job'[p].call # "enable"
<1>1. ASSUME NEW r \in Requests, RouteChildTask(p, r) PROVE job'[p].call # "enable"
  BY <1>1, RouteChildTaskKept
<1>2. ASSUME NEW a \in Allowed, AddChildTask(p, a) PROVE job'[p].call # "enable"
  BY <1>2, AddChildTaskKept
<1>3. ASSUME NEW a \in Allowed, Filter(p, a) PROVE job'[p].call # "enable"
  BY <1>3, FilterKept, CallFits DEF Routing
<1>4. CASE FilterEnds(p) \/ SelectOwner(p) \/ OverrideOwner(p)
  BY <1>4, FilterEndsKept, SelectOwnerKept, OverrideOwnerKept, CallFits DEF Routing
<1>5. CASE RejectRoute(p) \/ CreateTaskFails(p)
  BY <1>5, ReturnMoves, NoJobTyped DEF RejectRoute, CreateTaskFails
<1>6. CASE CreateTask(p)
  BY <1>6, CreateTaskKept
<1> QED
  BY <1>1, <1>2, <1>3, <1>4, <1>5, <1>6 DEF Route

LEMMA OwedKept ==
    ASSUME Base, OwedInv, Remember, Step
    PROVE  OwedInv'
<1> SUFFICES ASSUME NEW q \in Procs, NEW m \in owed'[q] PROVE OwedFine(q, m)'
  BY DEF OwedInv
<1>1. CASE Surroundings
  BY <1>1, SurroundingsStep, OwedAside
<1>2. ASSUME NEW p \in Procs, ProcessStep(p) PROVE OwedFine(q, m)'
  <2>1. Consequences(p)
    BY <1>2, ProcessConsequences
  <2>2. CASE p # q
    BY <2>1, <2>2, OwedAside DEF Consequences, Moved, Others
  <2>3. CASE p = q
    <3>1. job'[q].call = "enable"
      BY NothingOwed
    <3>2. ASSUME NEW t \in Targets, DisableTarget(p, t) PROVE FALSE
      BY <2>3, <3>1, <3>2, DisableKept
    <3>3. CASE DisableReports(p) \/ Kill(p)
      BY <2>3, <3>1, <3>3, ReturnMoves, NoJobTyped DEF DisableReports, Kill
    <3>4. CASE Route(p)
      BY <2>3, <3>1, <3>4, RouteNeverEnables
    <3>5. CASE Enable(p) \/ Dispatch(p)
      BY <2>1, <2>3, <3>5, OwedMoves
    <3> QED
      BY <1>2, <3>2, <3>3, <3>4, <3>5 DEF ProcessStep
  <2> QED
    BY <2>2, <2>3
<1> QED
  BY <1>1, <1>2, StepActors

\* An enable that returns has passed every agent of its target.
LEMMA ReturnsClear ==
    ASSUME Base, OwedInv, NEW p \in Procs, EnableReturns(p)
    PROVE  owed[p] = {}
<1> SUFFICES ASSUME NEW m \in owed[p] PROVE FALSE
  OBVIOUS
<1>1. pc[p] = "inbox" /\ AgentsLeft(p) = {}
  BY DEF EnableReturns
<1>2. OwedFine(p, m)
  BY DEF OwedInv
<1>3. owner[m] > job[p].agent /\ Bound[owner[m]] = job[p].target /\ job[p].target # Local
  BY <1>1, <1>2, Constants DEF OwedFine, StillAhead, BoundTo
<1>4. owner[m] \in Agents
  BY <1>2 DEF OwedFine, BoundTo, Base, FilesTyped, Created
<1> QED
  BY <1>1, <1>3, <1>4 DEF AgentsLeft

-----------------------------------------------------------------------------
(***************************************************************************)
(* The theorems.                                                           *)
(***************************************************************************)
LEMMA InitInv == Init => IInv
<1> SUFFICES ASSUME Init PROVE IInv
  OBVIOUS
<1>1. /\ availability = [t \in Targets |-> IF t = Local THEN "ready" ELSE "unknown"]
      /\ heartbeat = [t \in Targets |-> "none"] /\ explained = {}
      /\ owner = [t \in Tasks |-> 0] /\ unread = {} /\ record = [t \in Tasks |-> "none"]
      /\ pc = [p \in Procs |-> "idle"] /\ job = [p \in Procs |-> NoJob]
      /\ shut = [p \in Procs |-> {}] /\ owed = [p \in Procs |-> {}]
      /\ commands = 0 /\ kills = 0
  BY DEF Init
<1>2. Created = {}
  BY <1>1 DEF Created
<1>3. FilesTyped
  BY <1>1, <1>2 DEF FilesTyped, Availabilities
<1>4. ASSUME NEW p \in Procs PROVE JobFine(p)
  BY <1>1, NoJobTyped, Calls DEF JobFine, Dispatching
<1>5. Base
  BY <1>1, <1>3, <1>4, NoJobTyped, TargetsAssumption DEF Base, JobsInv, RecordFine, Steps
<1>6. PlacedIsRecorded
  BY <1>2 DEF PlacedIsRecorded
<1>7. RoutesInv
  BY <1>1, NoJobTyped DEF RoutesInv, Routes
<1>8. OwedInv
  BY <1>1 DEF OwedInv
<1> QED
  BY <1>5, <1>6, <1>7, <1>8 DEF IInv

LEMMA StepInv ==
    ASSUME IInv, Step, Remember
    PROVE  IInv'
<1>1. Base /\ PlacedIsRecorded /\ RoutesInv /\ OwedInv
  BY DEF IInv
<1>2. RoutesInv' /\ OwedInv'
  BY <1>1, RoutesKept, OwedKept
<1>3. CASE Surroundings
  <2>1. Base' /\ UNCHANGED <<owner, record, job, kills>>
    BY <1>1, <1>3, SurroundingsStep
  <2>2. PlacedIsRecorded'
    BY <1>1, <2>1 DEF PlacedIsRecorded, Created
  <2> QED
    BY <1>2, <2>1, <2>2 DEF IInv
<1>4. ASSUME NEW p \in Procs, ProcessStep(p) PROVE IInv'
  <2>1. Consequences(p)
    BY <1>1, <1>4, ProcessConsequences
  <2>2. Base' /\ PlacedIsRecorded'
    BY <1>1, <2>1, PlacedKept DEF Consequences
  <2> QED
    BY <1>2, <2>2 DEF IInv
<1> QED
  BY <1>3, <1>4, StepActors

LEMMA StutterInv ==
    ASSUME IInv, UNCHANGED vars
    PROVE  IInv'
<1>1. /\ UNCHANGED <<availability, heartbeat, explained, owner, unread, record>>
      /\ UNCHANGED <<pc, job>> /\ UNCHANGED <<shut, troubled, owed>>
      /\ UNCHANGED <<commands, kills>>
  BY DEF vars, files, history
<1>2. Created' = Created
  BY <1>1 DEF Created
<1>3. Grows
  BY <1>1, <1>2 DEF Grows
<1>4. \A q \in Procs : JobFine(q)'
  BY <1>1, <1>3, FineAside DEF IInv
<1>5. Base'
  BY <1>1, <1>2, <1>4 DEF IInv, Base, JobsInv, FilesTyped, RecordFine
<1>6. PlacedIsRecorded'
  BY <1>1, <1>2 DEF IInv, PlacedIsRecorded
<1>7. Blocked' = Blocked
  BY <1>1 DEF Blocked, BlocksRouting, Effective, Expired
<1>8. RoutesInv'
  BY <1>1, <1>7 DEF IInv, RoutesInv, RouteFine, Routes
<1>9. OwedInv'
  BY <1>1, <1>2 DEF IInv, OwedInv, OwedFine, BoundTo, StillAhead
<1> QED
  BY <1>5, <1>6, <1>8, <1>9 DEF IInv

\* The inductive invariant of target.go and the routes that depend on it: the
\* jobs of the processes agree with the files they write, every task that needs
\* a dispatch is recorded or in hand, a route knows why it dropped a candidate,
\* and what an enable owes is still ahead of it.
THEOREM InductiveInvariant == Spec => []IInv
<1>1. IInv /\ [Next]_vars => IInv'
  BY StepInv, StutterInv DEF Next
<1> QED
  BY <1>1, InitInv, PTL DEF Spec

\* Target states, owners, inboxes and dispatch records keep their types, and
\* only work for a target without a pane has a dispatch record.
THEOREM TypeCorrect == Spec => []TypeOK
<1>1. IInv => TypeOK
  BY BaseTypes DEF IInv
<1> QED
  BY <1>1, InductiveInvariant, PTL

\* filterCandidatesByTargetAvailability and the override: a target blocked all
\* the time a route looked for an owner does not get the task.
THEOREM BlockedGetsNothing == Spec => []BlockedIsNotRouted
<1>1. IInv => BlockedIsNotRouted
  BY DEF IInv, RoutesInv, RouteFine, Routes, Choosing, BlockedIsNotRouted
<1> QED
  BY <1>1, InductiveInvariant, PTL

\* selectRoutedOwner, for any candidates and any rows of the preference file: a
\* unique best match gets the task, and otherwise the first in the order.
THEOREM OwnerIsPreferred == Spec => []ChosenIsPreferred
<1>1. IInv => ChosenIsPreferred
  BY DEF IInv, RoutesInv, RouteFine, Routes, Choosing, ChosenIsPreferred
<1> QED
  BY <1>1, InductiveInvariant, PTL

\* A task given to a target without a pane has a record or a process that
\* dispatches it, unless one was killed.
THEOREM PlacedWorkIsRecorded == Spec => []PlacedIsRecorded
<1>1. IInv => PlacedIsRecorded
  BY DEF IInv
<1> QED
  BY <1>1, InductiveInvariant, PTL

\* A step of some process returns from its command, as Returns says.
LEMMA ReturnsKept ==
    ASSUME IInv, [Next]_vars, NEW p \in Procs, pc[p] # "idle", pc'[p] = "idle", kills' = kills
    PROVE  /\ job[p].call = "enable" => EnableReturns(p)
           /\ pc[p] = "select" => RejectRoute(p)
<1>1. Base /\ pc'[p] # pc[p]
  BY DEF IInv
<1>2. CASE Surroundings
  BY <1>1, <1>2, SurroundingsStep
<1>3. ASSUME NEW q \in Procs, ProcessStep(q)
      PROVE  /\ job[p].call = "enable" => EnableReturns(p)
             /\ pc[p] = "select" => RejectRoute(p)
  BY <1>1, <1>3, ProcessConsequences DEF Consequences, Moved, Others, Returns
<1>4. CASE UNCHANGED vars
  BY <1>1, <1>4 DEF vars
<1> QED
  BY <1>2, <1>3, <1>4, StepActors DEF Next

\* A route is refused only when each candidate, or the override, had a target
\* that was blocked at some time while it looked.
THEOREM RefusedForCause == Spec => RejectedForCause
<1> DEFINE Wanted(r) == IF r.override # 0 THEN {r.override} \cap Allowed
                        ELSE DomainCandidates(r.class, r.domains)
           Cause == \A p \in Procs :
                      pc[p] = "select" /\ pc'[p] = "idle" /\ kills' = kills =>
                        \A a \in Wanted(job[p].request) : Bound[a] \in troubled[p]
<1>1. ASSUME IInv, [Next]_vars PROVE Cause
  <2> SUFFICES ASSUME NEW p \in Procs, pc[p] = "select", pc'[p] = "idle", kills' = kills,
                      NEW a \in Wanted(job[p].request)
               PROVE  Bound[a] \in troubled[p]
    OBVIOUS
  <2>1. RejectRoute(p)
    BY <1>1, ReturnsKept
  <2>2. RouteFine(p)
    BY <1>1, CallFits DEF IInv, RoutesInv, Routes, Routing, Choosing
  <2>3. CASE job[p].request.override = 0
    <3>1. job[p].fit = {} /\ job[p].todo = {}
      BY <2>1, <2>2, <2>3 DEF RejectRoute, RouteFine
    <3> QED
      BY <2>2, <2>3, <3>1 DEF RouteFine, Routing
  <2>4. CASE job[p].request.override # 0
    <3>1. a = job[p].request.override /\ a \in Allowed /\ ~OverrideFits(p)
      BY <2>1, <2>4 DEF RejectRoute
    <3>2. Bound[a] \in Blocked
      BY <3>1, Constants DEF OverrideFits, Blocked
    <3> QED
      BY <2>2, <3>2 DEF RouteFine
  <2> QED
    BY <2>3, <2>4
<1>2. IInv /\ [Next]_vars => [Cause]_vars
  BY <1>1
<1> HIDE DEF Cause
<1>3. Spec => [][Cause]_vars
  BY <1>2, InductiveInvariant, PTL DEF Spec
<1> QED
  BY <1>3 DEF RejectedForCause, Cause

\* A task whose dispatch succeeded and that nobody else is dispatching is not
\* dispatched again, and its record stays.
THEOREM DispatchedStays == Spec => DispatchIsFinal
<1> DEFINE Final == \A t \in Tasks :
                      record[t] = "dispatched" /\ (\A p \in Procs : job[p].task # t)
                        => record'[t] = "dispatched" /\ (\A p \in Procs : job'[p].task # t)
<1>1. ASSUME IInv, [Next]_vars PROVE Final
  <2>1. Base
    BY <1>1 DEF IInv
  <2>2. CASE Surroundings
    BY <2>1, <2>2, SurroundingsStep
  <2>3. ASSUME NEW p \in Procs, ProcessStep(p) PROVE Final
    BY <2>1, <2>3, ProcessConsequences, FinalKept
  <2>4. CASE UNCHANGED vars
    BY <2>4 DEF vars, files
  <2> QED
    BY <1>1, <2>2, <2>3, <2>4, StepActors DEF Next
<1>2. IInv /\ [Next]_vars => [Final]_vars
  BY <1>1
<1> HIDE DEF Final
<1>3. Spec => [][Final]_vars
  BY <1>2, InductiveInvariant, PTL DEF Spec
<1> QED
  BY <1>3 DEF DispatchIsFinal, Final

\* Enabling a target tries all the work that waited for it, on every agent
\* bound to it, before the command returns.
THEOREM EnableTriesEverything == Spec => EnableTriesAll
<1> DEFINE Tried == \A p \in Procs :
                      job[p].call = "enable" /\ pc'[p] = "idle" /\ kills' = kills => owed[p] = {}
<1>1. ASSUME IInv, [Next]_vars PROVE Tried
  <2> SUFFICES ASSUME NEW p \in Procs, job[p].call = "enable", pc'[p] = "idle", kills' = kills
               PROVE  owed[p] = {}
    OBVIOUS
  <2>1. Base /\ OwedInv /\ pc[p] # "idle"
    BY <1>1, CallFits DEF IInv
  <2>2. EnableReturns(p)
    BY <1>1, <2>1, ReturnsKept
  <2> QED
    BY <2>1, <2>2, ReturnsClear
<1>2. IInv /\ [Next]_vars => [Tried]_vars
  BY <1>1
<1> HIDE DEF Tried
<1>3. Spec => [][Tried]_vars
  BY <1>2, InductiveInvariant, PTL DEF Spec
<1> QED
  BY <1>3 DEF EnableTriesAll, Tried
==============================================================================
