---------------------------- MODULE QueueLemmas ----------------------------
(* Facts about channels modelled as sequences, and about finite orders. *)
EXTENDS Sequences, FiniteSetTheorems, TLAPS

\* Sending a new element on a channel without duplicates.
LEMMA AppendFacts ==
  ASSUME NEW S, NEW s \in Seq(S), NEW e \in S, IsInjective(s), e \notin Range(s)
  PROVE  /\ Range(Append(s, e)) = Range(s) \cup {e}
         /\ IsInjective(Append(s, e))
<1> DEFINE t == Append(s, e)
<1>1. /\ DOMAIN s = 1..Len(s) /\ Len(s) \in Nat
      /\ DOMAIN t = 1..(Len(s) + 1)
      /\ \A i \in 1..Len(s) : t[i] = s[i]
      /\ t[Len(s) + 1] = e
  OBVIOUS
<1>2. ASSUME NEW i \in DOMAIN t PROVE i \in DOMAIN s \/ i = Len(s) + 1
  BY <1>1
<1>3. Len(s) + 1 \in DOMAIN t /\ DOMAIN s \subseteq DOMAIN t
      /\ Len(s) + 1 \notin DOMAIN s
  BY <1>1
<1> HIDE DEF t
<1>4. Range(t) = Range(s) \cup {e}
  BY <1>1, <1>2, <1>3 DEF Range
<1>5. \A i \in DOMAIN s : s[i] # e
  BY DEF Range
<1>6. IsInjective(t)
  BY <1>1, <1>2, <1>3, <1>5 DEF IsInjective
<1>7. QED
  BY <1>4, <1>6 DEF t

\* What a channel of elements of S holds are elements of S.
LEMMA RangeFacts ==
  ASSUME NEW S, NEW s \in Seq(S)
  PROVE  Range(s) \subseteq S
  BY DEF Range

\* Receiving from a channel without duplicates removes its head from the contents.
LEMMA TailFacts ==
  ASSUME NEW S, NEW s \in Seq(S), s # <<>>, IsInjective(s)
  PROVE  /\ Head(s) \in Range(s)
         /\ Range(Tail(s)) = Range(s) \ {Head(s)}
         /\ IsInjective(Tail(s))
<1> DEFINE t == Tail(s)
<1>1. /\ DOMAIN s = 1..Len(s) /\ Len(s) \in Nat \ {0}
      /\ DOMAIN t = 1..(Len(s) - 1)
      /\ \A i \in 1..(Len(s) - 1) : t[i] = s[i + 1]
      /\ Head(s) = s[1]
  OBVIOUS
<1>2. \A i \in DOMAIN t : i + 1 \in DOMAIN s /\ t[i] = s[i + 1] /\ i + 1 # 1
  BY <1>1
<1>3. \A i \in DOMAIN s : i # 1 => i - 1 \in DOMAIN t /\ t[i - 1] = s[i]
  BY <1>1
<1>4. 1 \in DOMAIN s
  BY <1>1
<1>5. \A i, j \in DOMAIN t : i + 1 = j + 1 => i = j
  BY <1>1
<1> HIDE DEF t
<1>6. Head(s) \in Range(s)
  BY <1>1, <1>4 DEF Range
<1>7. \A i \in DOMAIN t : t[i] \in Range(s) /\ t[i] # Head(s)
  BY <1>1, <1>2, <1>4 DEF Range, IsInjective
<1>8. \A i \in DOMAIN s : s[i] # Head(s) => s[i] \in Range(t)
  BY <1>1, <1>3 DEF Range
<1>9. Range(t) = Range(s) \ {Head(s)}
  <2>1. Range(t) \subseteq Range(s) \ {Head(s)}
    BY <1>7 DEF Range
  <2>2. Range(s) \ {Head(s)} \subseteq Range(t)
    BY <1>8 DEF Range
  <2>3. QED
    BY <2>1, <2>2
<1>10. IsInjective(t)
  BY <1>2, <1>5 DEF IsInjective
<1>11. QED
  BY <1>6, <1>9, <1>10 DEF t

\* An empty channel.
LEMMA EmptyFacts == Range(<<>>) = {} /\ IsInjective(<<>>)
  BY DEF Range, IsInjective

\* A channel without duplicates that lacks an element of S is shorter than S.
LEMMA InjectiveLength ==
  ASSUME NEW S, IsFiniteSet(S), NEW s \in Seq(S), IsInjective(s),
         NEW e \in S, e \notin Range(s)
  PROVE  Len(s) < Cardinality(S)
<1> DEFINE T == S \ {e}
<1>1. IsFiniteSet(T) /\ Cardinality(T) = Cardinality(S) - 1
      /\ Cardinality(S) \in Nat
  BY FS_RemoveElement, FS_CardinalityType
<1>2. s \in [1..Len(s) -> T] /\ Len(s) \in Nat
  BY DEF Range
<1>3. ASSUME NEW n \in Nat
      PROVE  IsFiniteSet(1..n) /\ Cardinality(1..n) = n
  <2>1. /\ IsFiniteSet(1..n)
        /\ Cardinality(1..n) = IF 1 > n THEN 0 ELSE n - 1 + 1
    BY FS_Interval
  <2>2. QED
    BY <2>1
<1>4. \A i, j \in 1..Len(s) : s[i] = s[j] => i = j
  BY <1>2 DEF IsInjective
<1> HIDE DEF T
<1>5. s \in Injection(1..Len(s), T)
  BY <1>2, <1>4 DEF Injection, IsInjective
<1>6. QED
  BY <1>1, <1>2, <1>3, <1>5, FS_Injection

\* Sending on a channel: the places in it, and its contents.
LEMMA AppendAt ==
  ASSUME NEW S, NEW s \in Seq(S), NEW e \in S
  PROVE  /\ DOMAIN Append(s, e) = 1..(Len(s) + 1) /\ DOMAIN s = 1..Len(s) /\ Len(s) \in Nat
         /\ \A k \in 1..Len(s) : Append(s, e)[k] = s[k]
         /\ Append(s, e)[Len(s) + 1] = e
         /\ Append(s, e) \in Seq(S) /\ Len(Append(s, e)) = Len(s) + 1
OBVIOUS

LEMMA RangeOfAppend ==
  ASSUME NEW S, NEW s \in Seq(S), NEW e \in S
  PROVE  /\ Append(s, e) \in Seq(S) /\ Len(Append(s, e)) = Len(s) + 1
         /\ Range(Append(s, e)) = Range(s) \cup {e}
<1> DEFINE t == Append(s, e)
<1>1. /\ DOMAIN t = 1..(Len(s) + 1) /\ DOMAIN s = 1..Len(s) /\ Len(s) \in Nat
      /\ \A k \in 1..Len(s) : t[k] = s[k]
      /\ t[Len(s) + 1] = e
      /\ t \in Seq(S) /\ Len(t) = Len(s) + 1
  BY AppendAt
<1> HIDE DEF t
<1>2. Range(t) \subseteq Range(s) \cup {e}
  BY <1>1 DEF Range
<1>3. Range(s) \cup {e} \subseteq Range(t)
  BY <1>1 DEF Range
<1> QED BY <1>1, <1>2, <1>3 DEF t

\* A sequence followed by another.
LEMMA ConcatFacts ==
  ASSUME NEW S, NEW s \in Seq(S), NEW t \in Seq(S)
  PROVE  /\ s \o t \in Seq(S) /\ Len(s \o t) = Len(s) + Len(t)
         /\ Range(s \o t) = Range(s) \cup Range(t)
         /\ IsInjective(s) /\ IsInjective(t) /\ Range(s) \cap Range(t) = {} => IsInjective(s \o t)
<1> DEFINE u == s \o t  a == Len(s)  b == Len(t)
<1>1. /\ u \in Seq(S) /\ Len(u) = a + b /\ a \in Nat /\ b \in Nat
      /\ DOMAIN u = 1..(a + b) /\ DOMAIN s = 1..a /\ DOMAIN t = 1..b
      /\ \A k \in 1..a : u[k] = s[k]
      /\ \A k \in (a + 1)..(a + b) : u[k] = t[k - a]
  OBVIOUS
<1>2. \A k \in 1..b : k + a \in (a + 1)..(a + b) /\ (k + a) - a = k
  BY <1>1
<1>3. \A k \in (a + 1)..(a + b) : k - a \in 1..b
  BY <1>1
<1>4. \A k \in 1..(a + b) : k \in 1..a \/ k \in (a + 1)..(a + b)
  BY <1>1
<1>5. \A k \in (a + 1)..(a + b), j \in 1..a : k \in 1..(a + b) /\ j \in 1..(a + b)
  BY <1>1
<1>6. \A k, j \in (a + 1)..(a + b) : k - a = j - a => k = j
  BY <1>1
<1> HIDE DEF u, a, b
<1>7. Range(u) \subseteq Range(s) \cup Range(t)
  BY <1>1, <1>3, <1>4 DEF Range
<1>8. Range(s) \subseteq Range(u)
  <2>1. \A k \in 1..a : k \in 1..(a + b)
    BY <1>1
  <2> QED BY <2>1, <1>1 DEF Range
<1>9. Range(t) \subseteq Range(u)
  <2>1. \A k \in 1..b : k + a \in DOMAIN u /\ u[k + a] = t[k]
    BY <1>1, <1>2
  <2>2. \A k \in DOMAIN t : t[k] \in Range(u)
    <3> SUFFICES ASSUME NEW k \in 1..b PROVE t[k] \in Range(u)
      BY <1>1
    <3> QED BY <2>1 DEF Range
  <2> QED BY <2>2 DEF Range
<1>10. ASSUME IsInjective(s), IsInjective(t), Range(s) \cap Range(t) = {}
       PROVE  IsInjective(u)
  <2> SUFFICES ASSUME NEW j \in 1..(a + b), NEW k \in 1..(a + b), u[j] = u[k]
               PROVE  j = k
    BY <1>1 DEF IsInjective
  <2>1. CASE j \in 1..a /\ k \in 1..a
    BY <2>1, <1>1, <1>10 DEF IsInjective
  <2>2. CASE j \in (a + 1)..(a + b) /\ k \in (a + 1)..(a + b)
    <3>1. t[j - a] = t[k - a] /\ j - a \in DOMAIN t /\ k - a \in DOMAIN t
      BY <2>2, <1>1, <1>3
    <3>2. j - a = k - a
      BY <3>1, <1>10 DEF IsInjective
    <3> QED BY <3>2, <2>2, <1>6
  <2>3. ASSUME NEW x \in 1..a, NEW y \in (a + 1)..(a + b), u[x] = u[y] PROVE FALSE
    <3>1. u[x] \in Range(s)
      BY <1>1 DEF Range
    <3>2. u[y] \in Range(t)
      BY <1>1, <1>3 DEF Range
    <3> QED BY <3>1, <3>2, <2>3, <1>10
  <2> QED BY <2>1, <2>2, <2>3, <1>4
<1> QED BY <1>1, <1>7, <1>8, <1>9, <1>10 DEF u, a, b

\* Moving the head of a channel to the end of a log keeps what both hold in order.
LEMMA MoveHead ==
  ASSUME NEW S, NEW l \in Seq(S), NEW q \in Seq(S), q # <<>>
  PROVE  Append(l, Head(q)) \o Tail(q) = l \o q
OBVIOUS

LEMMA ConcatAppend ==
  ASSUME NEW S, NEW l \in Seq(S), NEW q \in Seq(S), NEW e \in S
  PROVE  l \o Append(q, e) = Append(l \o q, e)
OBVIOUS

-----------------------------------------------------------------------------
(* The positions of the elements of a finite set in a strict total order R *)

IsOrder(R, S) ==
  /\ \A a \in S : <<a, a>> \notin R
  /\ \A a, b, c \in S : <<a, b>> \in R /\ <<b, c>> \in R => <<a, c>> \in R
  /\ \A a, b \in S : a # b => <<a, b>> \in R \/ <<b, a>> \in R

Rank(R, S) == [a \in S |-> Cardinality(SetLessThan(a, R, S))]

\* The number of elements below an element is its place in the order.
LEMMA RankFacts ==
  ASSUME NEW S, NEW R, IsFiniteSet(S), IsOrder(R, S)
  PROVE  /\ Cardinality(S) \in Nat
         /\ Rank(R, S) \in Bijection(S, 0..(Cardinality(S) - 1))
         /\ \A a, b \in S : <<a, b>> \in R <=> Rank(R, S)[a] < Rank(R, S)[b]
<1> DEFINE B(a) == SetLessThan(a, R, S)
           N    == Cardinality(S)
           rank == Rank(R, S)
<1>1. N \in Nat
  BY FS_CardinalityType
<1>2. \A a \in S : B(a) \subseteq S /\ a \notin B(a)
  BY DEF SetLessThan, IsOrder
<1>3. \A a \in S : IsFiniteSet(B(a)) /\ rank[a] = Cardinality(B(a)) /\ rank[a] \in Nat
  BY <1>2, FS_Subset, FS_CardinalityType DEF Rank
<1>4. \A a \in S : rank[a] < N
  <2> SUFFICES ASSUME NEW a \in S PROVE rank[a] < N
    OBVIOUS
  <2>1. Cardinality(B(a)) <= N /\ Cardinality(B(a)) # N
    BY <1>2, FS_Subset
  <2> QED BY <2>1, <1>1, <1>3
<1>5. ASSUME NEW a \in S, NEW b \in S, <<a, b>> \in R
      PROVE  rank[a] < rank[b]
  <2>1. B(a) \subseteq B(b) /\ a \in B(b) /\ a \notin B(a)
    BY <1>5, <1>2 DEF SetLessThan, IsOrder
  <2>2. Cardinality(B(a)) <= Cardinality(B(b)) /\ Cardinality(B(a)) # Cardinality(B(b))
    BY <2>1, <1>3, FS_Subset
  <2> QED BY <2>2, <1>3
<1>6. \A a, b \in S : <<a, b>> \in R <=> rank[a] < rank[b]
  <2> SUFFICES ASSUME NEW a \in S, NEW b \in S, rank[a] < rank[b] PROVE <<a, b>> \in R
    BY <1>5
  <2>1. a # b /\ <<b, a>> \notin R
    BY <1>3, <1>5
  <2> QED BY <2>1 DEF IsOrder
<1>7. \A a, b \in S : rank[a] = rank[b] => a = b
  <2> SUFFICES ASSUME NEW a \in S, NEW b \in S, rank[a] = rank[b], a # b PROVE FALSE
    OBVIOUS
  <2>1. rank[a] < rank[b] \/ rank[b] < rank[a]
    BY <1>5 DEF IsOrder
  <2> QED BY <2>1, <1>3
<1> DEFINE P == 0..(N - 1)
<1>8. rank \in [S -> P]
  <2>1. \A a \in S : rank[a] \in P
    BY <1>1, <1>3, <1>4
  <2>2. rank = [a \in S |-> rank[a]]
    BY DEF Rank
  <2> HIDE DEF rank, P
  <2> QED BY <2>1, <2>2
<1>9. IsFiniteSet(P) /\ Cardinality(P) = N
  <2>1. IsFiniteSet(P) /\ Cardinality(P) = IF 0 > N - 1 THEN 0 ELSE N - 1 - 0 + 1
    BY <1>1, FS_Interval
  <2> QED BY <2>1, <1>1
<1> HIDE DEF rank, P, N
<1>10. rank \in Injection(S, P)
  BY <1>7, <1>8 DEF Injection, IsInjective
<1>11. rank \in Surjection(S, P)
  BY <1>9, <1>10, FS_Injection DEF N
<1>12. rank \in Bijection(S, P)
  BY <1>10, <1>11 DEF Bijection
<1> QED BY <1>1, <1>6, <1>12 DEF rank, P, N

\* The first k elements are k elements, and come before all others.
LEMMA FirstFacts ==
  ASSUME NEW S, NEW R, IsFiniteSet(S), IsOrder(R, S), NEW k \in Nat,
         NEW m \in S, ~(Rank(R, S)[m] < k)
  PROVE  LET first == {a \in S : Rank(R, S)[a] < k}
         IN  Cardinality(first) = k /\ \A a \in first : <<a, m>> \in R
<1> DEFINE N     == Cardinality(S)
           rank  == Rank(R, S)
           first == {a \in S : rank[a] < k}
           f     == [a \in first |-> rank[a]]
           K     == 0..(k - 1)
<1>1. /\ N \in Nat /\ rank \in [S -> 0..(N - 1)]
      /\ \A a, b \in S : rank[a] = rank[b] => a = b
      /\ \A n \in 0..(N - 1) : \E a \in S : rank[a] = n
      /\ \A a, b \in S : <<a, b>> \in R <=> rank[a] < rank[b]
  BY RankFacts DEF Bijection, Injection, Surjection, IsInjective
<1> HIDE DEF rank, N
<1>2. \A a \in S : rank[a] \in Nat /\ rank[a] <= N - 1
  BY <1>1
<1>3. k <= rank[m]
  BY <1>2 DEF rank
<1>4. \A a \in first : <<a, m>> \in R
  BY <1>1, <1>2, <1>3
<1>5. \A n \in K : n \in 0..(N - 1) /\ n < k
  BY <1>1, <1>2, <1>3
<1>6. \A a \in first : f[a] \in K
  BY <1>2
<1>7. \A n \in K : \E a \in first : f[a] = n
  BY <1>1, <1>5
<1>8. \A a, b \in first : f[a] = f[b] => a = b
  BY <1>1
<1>9. f = [a \in first |-> f[a]]
  OBVIOUS
<1> HIDE DEF f, first, K
<1>10. f \in [first -> K]
  BY <1>6, <1>9
<1>11. f \in Bijection(first, K)
  BY <1>7, <1>8, <1>10 DEF Bijection, Injection, Surjection, IsInjective
<1>12. IsFiniteSet(first)
  BY FS_Subset DEF first
<1>13. Cardinality(K) = Cardinality(first)
  BY <1>11, <1>12, FS_Bijection DEF ExistsBijection
<1>14. Cardinality(K) = k
  <2>1. Cardinality(0..(k - 1)) = IF 0 > k - 1 THEN 0 ELSE k - 1 - 0 + 1
    BY FS_Interval
  <2> QED BY <2>1 DEF K
<1> QED BY <1>4, <1>13, <1>14 DEF first, rank

LEMMA FirstCount ==
  ASSUME NEW S, NEW R, IsFiniteSet(S), IsOrder(R, S), NEW k \in Nat
  PROVE  Cardinality({a \in S : Rank(R, S)[a] < k}) <= k
<1> DEFINE first == {a \in S : Rank(R, S)[a] < k}
<1>1. CASE first = S
  <2>1. /\ Cardinality(S) \in Nat
        /\ \A n \in 0..(Cardinality(S) - 1) : \E a \in S : Rank(R, S)[a] = n
    BY RankFacts DEF Bijection, Surjection
  <2>2. ~(k < Cardinality(S))
    <3> SUFFICES ASSUME k < Cardinality(S) PROVE FALSE
      OBVIOUS
    <3>1. k \in 0..(Cardinality(S) - 1)
      BY <2>1
    <3>2. PICK a \in S : Rank(R, S)[a] = k
      BY <2>1, <3>1
    <3>3. a \in first
      BY <1>1
    <3> QED BY <3>2, <3>3
  <2> QED BY <1>1, <2>1, <2>2
<1>2. CASE first # S
  <2>1. PICK m \in S : ~(Rank(R, S)[m] < k)
    BY <1>2
  <2>2. Cardinality(first) = k
    BY <2>1, FirstFacts
  <2> QED BY <2>2
<1> QED BY <1>1, <1>2

\* The elements in their order, from first to last.
LEMMA EnumFacts ==
  ASSUME NEW S, NEW R, IsFiniteSet(S), IsOrder(R, S), NEW s,
         s = [k \in 1..Cardinality(S) |-> s[k]],
         \A k \in 1..Cardinality(S) :
           (\E a \in S : Rank(R, S)[a] = k - 1) => s[k] \in S /\ Rank(R, S)[s[k]] = k - 1
  PROVE  /\ s \in Seq(S) /\ Len(s) = Cardinality(S) /\ Range(s) = S /\ IsInjective(s)
         /\ \A i, j \in DOMAIN s : i < j => <<s[i], s[j]>> \in R
<1> DEFINE N    == Cardinality(S)
           rank == Rank(R, S)
<1>1. /\ N \in Nat /\ rank \in [S -> 0..(N - 1)]
      /\ \A a, b \in S : rank[a] = rank[b] => a = b
      /\ \A n \in 0..(N - 1) : \E a \in S : rank[a] = n
      /\ \A a, b \in S : <<a, b>> \in R <=> rank[a] < rank[b]
  BY RankFacts DEF Bijection, Injection, Surjection, IsInjective
<1>2. /\ s = [k \in 1..N |-> s[k]]
      /\ \A k \in 1..N : (\E a \in S : rank[a] = k - 1) => s[k] \in S /\ rank[s[k]] = k - 1
  OBVIOUS
<1> HIDE DEF rank, N
<1>3. ASSUME NEW k \in 1..N PROVE s[k] \in S /\ rank[s[k]] = k - 1
  <2>1. k - 1 \in 0..(N - 1)
    BY <1>1
  <2> QED BY <1>1, <1>2, <2>1
<1>4. DOMAIN s = 1..N
  BY <1>2
<1>5. s \in [1..N -> S]
  BY <1>2, <1>3
<1>6. s \in Seq(S) /\ Len(s) = N
  <2>1. N \in Nat
    BY <1>1
  <2> QED BY ONLY <2>1, <1>5
<1>7. S \subseteq Range(s)
  <2> SUFFICES ASSUME NEW a \in S PROVE a \in Range(s)
    OBVIOUS
  <2>1. rank[a] \in 0..(N - 1) /\ rank[a] + 1 \in 1..N /\ (rank[a] + 1) - 1 = rank[a]
    BY <1>1
  <2>2. s[rank[a] + 1] = a
    <3>1. s[rank[a] + 1] \in S /\ rank[s[rank[a] + 1]] = rank[a]
      BY <1>3, <2>1
    <3> QED BY <1>1, <3>1
  <2> QED BY <1>4, <2>1, <2>2 DEF Range
<1>8. Range(s) \subseteq S
  BY <1>3, <1>4 DEF Range
<1>9. IsInjective(s)
  <2> SUFFICES ASSUME NEW i \in 1..N, NEW j \in 1..N, s[i] = s[j] PROVE i = j
    BY <1>4 DEF IsInjective
  <2>1. i - 1 = j - 1
    BY <1>3
  <2> QED BY <1>1, <2>1
<1>10. ASSUME NEW i \in 1..N, NEW j \in 1..N, i < j PROVE <<s[i], s[j]>> \in R
  <2>1. rank[s[i]] < rank[s[j]]
    <3>1. rank[s[i]] = i - 1 /\ rank[s[j]] = j - 1
      BY <1>3
    <3> QED BY ONLY <1>1, <1>10, <3>1
  <2> QED BY <1>1, <1>3, <2>1
<1> QED BY <1>4, <1>6, <1>7, <1>8, <1>9, <1>10 DEF N

\* Numbers in ascending order.
Below(P) == {pair \in P \X P : pair[1] < pair[2]}

LEMMA NumberOrder ==
  ASSUME NEW n \in Nat, NEW P \in SUBSET (1..n)
  PROVE  /\ IsFiniteSet(P) /\ IsOrder(Below(P), P)
         /\ \A a, b \in P : <<a, b>> \in Below(P) <=> a < b
<1>1. \A a, b \in P : <<a, b>> \in Below(P) <=> a < b
  BY DEF Below
<1>2. IsFiniteSet(1..n)
  BY FS_Interval
<1>3. IsFiniteSet(P)
  BY <1>2, FS_Subset
<1>4. \A a \in P : a \in Nat
  OBVIOUS
<1>5. IsOrder(Below(P), P)
  BY <1>1, <1>4 DEF IsOrder
<1> QED BY <1>1, <1>3, <1>5

LEMMA SmallestFact ==
  ASSUME NEW n \in Nat, NEW P \in SUBSET (1..n), P # {}
  PROVE  \E i \in P : \A j \in P : ~(j < i)
<1> DEFINE rank == Rank(Below(P), P)
           N    == Cardinality(P)
<1>1. /\ N \in Nat /\ rank \in [P -> 0..(N - 1)]
      /\ \A k \in 0..(N - 1) : \E a \in P : rank[a] = k
      /\ \A a, b \in P : a < b <=> rank[a] < rank[b]
  BY NumberOrder, RankFacts DEF Bijection, Injection, Surjection
<1> HIDE DEF rank, N
<1>2. PICK a \in P : TRUE
  OBVIOUS
<1>3. 0 \in 0..(N - 1)
  BY <1>1, <1>2
<1>4. PICK i \in P : rank[i] = 0
  BY <1>1, <1>3
<1>5. \A j \in P : rank[j] \in Nat
  BY <1>1
<1>6. \A j \in P : ~(rank[j] < rank[i])
  BY <1>4, <1>5
<1> QED BY <1>1, <1>6
=============================================================================
